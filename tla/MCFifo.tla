------------------------------- MODULE MCFifo -------------------------------
(* Three words: the reset word and two that differ from it, for a slot that *)
(* is read before it was written, twice or out of turn.                     *)
EXTENDS Fifo
=============================================================================
