---------------------------- MODULE MCCdc2Phase ----------------------------
(* Two words besides the reset word tell a lost, repeated, stale and torn   *)
(* item apart: the model never computes with a word.                        *)
EXTENDS Cdc2Phase
=============================================================================
