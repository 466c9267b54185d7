---------------------------- MODULE MCJtagSession ----------------------------
EXTENDS JtagSession

\* Two words that are neither reversed nor shifted copies of one another.
SomeWords == {<<1, 1, 0>>, <<0, 0, 1>>}
=============================================================================
