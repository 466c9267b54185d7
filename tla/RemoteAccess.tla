---------------------------- MODULE RemoteAccess ----------------------------
(***************************************************************************)
(* What a debug transport promises its host: a request it has accepted is  *)
(* performed on the bus once, as it was asked for, before the next one is  *)
(* accepted, and a read brings back the answer the bus gave to it.         *)
(***************************************************************************)
CONSTANTS Requests,     \* what may be asked for
          Answer(_)     \* the word the bus answers a request with

VARIABLES request,      \* the last request accepted
          stage,        \* "idle", "asked", "done": how far it has come
          answer        \* the word brought back by the last read

remoteVars == <<request, stage, answer>>

IsRead(r) == r.op = "read"

Accept(r) == stage = "idle" /\ stage' = "asked" /\ request' = r /\ answer' = answer

Perform == stage = "asked" /\ stage' = "done" /\ UNCHANGED <<request, answer>>

Finish ==
    /\ stage = "done" /\ stage' = "idle" /\ request' = request
    /\ answer' = IF IsRead(request) THEN Answer(request) ELSE answer

Next == (\E r \in Requests : Accept(r)) \/ Perform \/ Finish

Init == stage = "idle" /\ request \in Requests
Spec == Init /\ [][Next]_remoteVars
=============================================================================
