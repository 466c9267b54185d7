------------------------------- MODULE DmiPort -------------------------------
(***************************************************************************)
(* What a debug session promises the methods of PulpOCD: the words of a    *)
(* call reach the registers they are meant for, each once and in order,    *)
(* and no register is given any other word while the session is open.      *)
(***************************************************************************)
EXTENDS Naturals, Sequences

CONSTANT Nop    \* the empty request that is left behind a read

VARIABLES open,      \* a session is open
          owed,      \* what the call under way has yet to deliver
          delivered  \* the last delivery, <<register, word>>

Init == open = FALSE /\ owed = <<>>

Open == ~open /\ open' = TRUE /\ owed' = <<>> /\ UNCHANGED delivered

\* A call starts when the one before has delivered all but the nop of a read.
Call ==
    /\ open /\ owed \in {<<>>, <<Nop>>}
    /\ Len(owed') > Len(owed) /\ SubSeq(owed', 1, Len(owed)) = owed
    /\ UNCHANGED <<open, delivered>>

Deliver == open /\ owed # <<>> /\ delivered' = Head(owed) /\ owed' = Tail(owed) /\ UNCHANGED open

\* A session may be cut off in the middle of a word.
Abort == open /\ open' = FALSE /\ owed' = <<>> /\ UNCHANGED delivered

\* Outside a session anything may be left over in the registers and fall into place.
Stray == ~open /\ UNCHANGED <<open, owed>>

Next == Open \/ Call \/ Deliver \/ Abort \/ Stray

Spec == Init /\ [][Next]_<<open, owed, delivered>>
=============================================================================
