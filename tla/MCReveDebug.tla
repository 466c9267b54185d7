---------------------------- MODULE MCReveDebug ----------------------------
(***************************************************************************)
(* A host that waits too little and selects a hart that is not there, and  *)
(* one whose pause covers a command from end to end (ReveDebug_proofs:     *)
(* Deadline) if the RISC-V clock stands still every other edge.  One word  *)
(* suffices: the hart computes another.                                    *)
(***************************************************************************)
EXTENDS ReveDebug

CONSTANTS v1

SomeHosts == {[gap |-> 10, stalls |-> 0, harts |-> {0, 1}, words |-> {}],
              [gap |-> 27, stalls |-> 1, harts |-> {0}, words |-> {v1}]}
=============================================================================
