---------------------------- MODULE OnePlaceLink ----------------------------
(***************************************************************************)
(* What a clock domain crossing promises to its two sides: it takes one    *)
(* item at a time, hands that very item over exactly once, and only then   *)
(* takes the next.  A reset may lose the item that is under way; it never  *)
(* makes one up.                                                           *)
(***************************************************************************)
EXTENDS Sequences

CONSTANT Data

VARIABLES carried,   \* <<>>, or <<d>> when item d has been taken and not handed over
          out        \* <<>>, or <<d>> when d is the last item handed over

linkVars == <<carried, out>>

Items == {<<>>} \cup {<<d>> : d \in Data}

Init == carried = <<>> /\ out = <<>>

Take(d) == carried = <<>> /\ carried' = <<d>> /\ out' = out

HandOver == carried # <<>> /\ carried' = <<>> /\ out' = carried

Reset == carried' = <<>> /\ out' = <<>>

Next == (\E d \in Data : Take(d)) \/ HandOver \/ Reset

Spec == Init /\ [][Next]_linkVars
=============================================================================
