---------------------------- MODULE MCDebugModule ----------------------------
EXTENDS DebugModule

\* Halt, resume and reset in every combination, but for a resume during a reset;
\* the module is deactivated with a resume request in the same word, or alone.
SomeControls ==
    {c \in ControlType :
        IF c.dmactive THEN ~(c.ndmreset /\ c.resumereq) ELSE ~c.haltreq /\ ~c.ndmreset}
=============================================================================
