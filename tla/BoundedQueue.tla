---------------------------- MODULE BoundedQueue ----------------------------
(***************************************************************************)
(* What a FIFO promises: words leave it in the order in which they came,   *)
(* each once, and never more than Capacity of them wait inside.  In one    *)
(* step it may take a word, hand one over, or both; a word may pass        *)
(* through an empty queue within one step only if PassThrough allows it.   *)
(***************************************************************************)
EXTENDS Naturals, Sequences

CONSTANTS Data, Capacity, PassThrough

VARIABLES items,     \* the words that wait
          out        \* <<>>, or <<d>> when d is the last word handed over

queueVars == <<items, out>>

Init == items = <<>> /\ out = <<>>

Push(d) == Len(items) < Capacity /\ items' = Append(items, d) /\ out' = out

Pop == items # <<>> /\ items' = Tail(items) /\ out' = <<Head(items)>>

PushPop(d) ==
    /\ items # <<>> /\ Len(items) < Capacity
    /\ items' = Append(Tail(items), d)
    /\ out' = <<Head(items)>>

Pass(d) == PassThrough /\ items = <<>> /\ items' = items /\ out' = <<d>>

\* A flush loses what waits; a word may still be handed over at that very step.
Flush ==
    /\ items' = <<>>
    /\ \/ out' = out
       \/ items # <<>> /\ out' = <<Head(items)>>
       \/ PassThrough /\ items = <<>> /\ \E d \in Data : out' = <<d>>

Reset == items' = <<>> /\ out' = <<>>

Next == (\E d \in Data : Push(d) \/ PushPop(d) \/ Pass(d)) \/ Pop \/ Flush \/ Reset

Spec == Init /\ [][Next]_queueVars
=============================================================================
