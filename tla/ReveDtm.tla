------------------------------ MODULE ReveDtm ------------------------------
(***************************************************************************)
(* The older debug transport of reve/riscv_jtag_apb_dm.v: a request goes   *)
(* from the TAP to an APB bus by a four-phase handshake - ready, ready_ack,*)
(* complete, complete_ack - in which every level crosses into the other    *)
(* clock domain through three flip-flops.                                  *)
(*                                                                         *)
(* TckEdge and ApbEdge interleave within the bounds ApbPerTck and          *)
(* MaxTckPerApb.  A level that has just changed is still moving: the next  *)
(* edge of the other clock samples its old or its new value.               *)
(*                                                                         *)
(* A definition named D_X is D with the fault X; it is not used.           *)
(***************************************************************************)
EXTENDS Naturals, Sequences

CONSTANTS Addresses,      \* what a request may be about
          MinApbPerTck,   \* APB edges between two TCK edges, at least
          MaxTckPerApb,   \* TCK edges between two APB edges, at most
          MaxWait,        \* APB edges a bus access may be held up (bound)
          WriteGap, ReadGap, ScanGap  \* the host's edges of TCK, see HostAct

ASSUME ReveDtmAssumption ==
    /\ Addresses # {}
    /\ {MinApbPerTck, MaxTckPerApb, MaxWait, WriteGap, ReadGap, ScanGap} \subseteq Nat

VARIABLES
    op_status, request, last_read_data,          \* jtag_state: 0 or 3; address, data, direction
    jtag_busy, ready, complete_ack,
    ready_ack_sync, complete_sync,
    apb_busy, access_in_progress, penable,       \* apb_state
    apb_request, apb_last_read_data, ready_ack, complete,
    ready_sync, complete_ack_sync,
    moving,          \* the levels that changed and that the other side has not sampled yet
    apbEdges, tckEdges,   \* edges since the last edge of the other clock
    waited,          \* APB edges the access under way has been held up
    host,            \* paced like ReveOCD or not; what a paced host does next, and when
    performed        \* history: bus accesses made for the request, 2 for more than one

tckRegs  == <<op_status, request, last_read_data, jtag_busy, ready, complete_ack,
              ready_ack_sync, complete_sync>>
apbRegs  == <<apb_busy, access_in_progress, penable, apb_request, apb_last_read_data,
              ready_ack, complete, ready_sync, complete_ack_sync>>
dtmVars  == <<tckRegs, apbRegs, moving, apbEdges, tckEdges, waited, host, performed>>

Requests == [op : {"read", "write"}, adr : Addresses]
NoData    == <<>>
Answer(r) == <<r.adr>>      \* what a read of r.adr returns
Words == {NoData} \cup {Answer(r) : r \in Requests}

\* Three flip-flops; the first one samples, the last one is used.
Bit == {0, 1}
Low == <<0, 0, 0>>
Shift(chain, sample) == <<sample, chain[1], chain[2]>>
Samples(name, level) == {level} \cup (IF name \in moving THEN {1 - level} ELSE {})

sync_ready_ack    == ready_ack_sync[3] = 1
sync_complete     == complete_sync[3] = 1
sync_ready        == ready_sync[3] = 1
sync_complete_ack == complete_ack_sync[3] = 1

Init ==
    /\ op_status = 0 /\ request \in {r \in Requests : r.op = "read"} /\ last_read_data = NoData
    /\ jtag_busy = FALSE /\ ready = 0 /\ complete_ack = 0
    /\ ready_ack_sync = Low /\ complete_sync = Low
    /\ apb_busy = FALSE /\ access_in_progress = FALSE /\ penable = FALSE
    /\ apb_request = request /\ apb_last_read_data = NoData /\ ready_ack = 0 /\ complete = 0
    /\ ready_sync = Low /\ complete_ack_sync = Low
    /\ moving = {} /\ apbEdges = 0 /\ tckEdges = 0 /\ waited = 0
    /\ \E paced \in BOOLEAN : host = [paced |-> paced, next |-> "capture", in |-> 0]
    /\ performed = 0

-----------------------------------------------------------------------------
(* A paced host is one like ReveOCD: every scan captures and later updates.*)
(* From an Update-DR to the next Capture-DR pass at least WriteGap edges of*)
(* TCK, ReadGap after a read, and ScanGap from there to its Update-DR; the *)
(* scan that fetches what was read asks for nothing.  Any other host       *)
(* captures, updates and clears whenever it likes.                         *)

Acts == [op : {"none", "capture", "clear", "nop"}] \cup Requests

Then_AtOnce(next, in) == host' = [host EXCEPT !.next = next, !.in = 0]
Then(next, in) == host' = [host EXCEPT !.next = next, !.in = in]

HostAct(act) ==
    IF ~host.paced THEN host' = host
    ELSE IF host.in > 0 THEN act.op = "none" /\ Then(host.next, host.in - 1)
    ELSE \/ act.op = "none" /\ host' = host
         \/ host.next = "capture" /\ act.op = "capture" /\ Then("update", ScanGap)
         \/ host.next = "update" /\ act \in Requests
              /\ IF act.op = "write" THEN Then("capture", WriteGap) ELSE Then("fetch", ReadGap)
         \/ host.next = "fetch" /\ act.op = "capture" /\ Then("drop", ScanGap)
         \/ host.next = "drop" /\ act.op = "nop" /\ Then("capture", WriteGap)

-----------------------------------------------------------------------------
(* One rising edge of jtag_tck.  act is what the TAP does at it: "capture" *)
(* the dmi register, update it with a request or with none ("nop"), or     *)
(* update dtmcs with a reset bit ("clear").                                *)

Accepts_Busy(act) == act \in Requests /\ op_status = 0
Accepts(act) == act \in Requests /\ ~jtag_busy /\ op_status = 0

OpStatus(act) ==
    op_status' = IF act.op = "clear" THEN 0
                 ELSE IF \/ act.op = "capture" /\ jtag_busy /\ request.op = "read"
                         \/ act \in Requests /\ ~Accepts(act) THEN 3
                 ELSE op_status

\* While busy: withdraw ready when it is acknowledged, follow complete, and end when
\* complete has gone away again.
Ends_AtOnce == jtag_busy /\ sync_complete
Ends == jtag_busy /\ ~sync_complete /\ complete_ack = 1

Serve(act) ==
    /\ ready' = IF Accepts(act) THEN 1 ELSE IF jtag_busy /\ sync_ready_ack THEN 0 ELSE ready
    /\ complete_ack' = IF jtag_busy THEN complete_sync[3] ELSE complete_ack
    /\ jtag_busy' = (Accepts(act) \/ (jtag_busy /\ ~Ends))
    /\ last_read_data' = IF Ends /\ request.op = "read" THEN apb_last_read_data ELSE last_read_data
    /\ request' = IF Accepts(act) THEN act ELSE request

TckSync ==
    /\ \E s \in Samples("ready_ack", ready_ack) : ready_ack_sync' = Shift(ready_ack_sync, s)
    /\ \E s \in Samples("complete", complete) : complete_sync' = Shift(complete_sync, s)

\* What this edge changed is all that moves now: the wires of the other domain have
\* been sampled, and one's own have settled within the period.
Moves(name, changes) == IF changes THEN {name} ELSE {}

TckEdge(act) ==
    /\ apbEdges >= MinApbPerTck /\ tckEdges < MaxTckPerApb
    /\ apbEdges' = 0 /\ tckEdges' = tckEdges + 1
    /\ HostAct(act)
    /\ OpStatus(act) /\ Serve(act) /\ TckSync
    /\ moving' = Moves("ready", ready' # ready) \cup Moves("complete_ack", complete_ack' # complete_ack)
    /\ performed' = IF Accepts(act) THEN 0 ELSE performed
    /\ UNCHANGED <<apbRegs, waited>>

-----------------------------------------------------------------------------
(* One rising edge of apb_clock; pready is the answer of the APB bus.      *)

Starts == ~apb_busy /\ sync_ready
Access(pready) == access_in_progress /\ penable /\ pready   \* the access takes place

Bus(pready) ==
    /\ penable' = IF Starts THEN FALSE ELSE IF access_in_progress THEN ~Access(pready) ELSE penable
    /\ access_in_progress' = (Starts \/ (access_in_progress /\ ~Access(pready)))
    /\ apb_request' = IF Starts THEN request ELSE apb_request
    /\ apb_last_read_data' =
           IF ~Access(pready) THEN apb_last_read_data
           ELSE IF apb_request.op = "read" THEN Answer(apb_request) ELSE NoData
    /\ performed' = IF Access(pready) /\ performed < 2 THEN performed + 1 ELSE performed

\* Lowering ready_ack goes before complete; complete rises once the access is over,
\* even while ready is still up.
Acknowledge_Both ==
    /\ ready_ack' = IF Starts THEN 1 ELSE IF sync_ready THEN ready_ack ELSE 0
    /\ complete' = IF apb_busy /\ ~access_in_progress /\ complete = 0 THEN 1 ELSE 0
    /\ apb_busy' = (Starts \/ (apb_busy /\ complete = 0))

Lowers == apb_busy /\ ready_ack = 1 /\ ~sync_ready
Completes == apb_busy /\ ~Lowers /\ ~access_in_progress
Acknowledged == Completes /\ sync_complete_ack /\ complete = 1
Acknowledge ==
    /\ ready_ack' = IF Starts THEN 1 ELSE IF Lowers THEN 0 ELSE ready_ack
    /\ complete' = IF Acknowledged THEN 0 ELSE IF Completes THEN 1 ELSE complete
    /\ apb_busy' = (Starts \/ (apb_busy /\ ~Acknowledged))

ApbSync ==
    /\ \E s \in Samples("ready", ready) : ready_sync' = Shift(ready_sync, s)
    /\ \E s \in Samples("complete_ack", complete_ack) : complete_ack_sync' = Shift(complete_ack_sync, s)

ApbEdge(pready) ==
    /\ apbEdges' = IF apbEdges < MinApbPerTck THEN apbEdges + 1 ELSE apbEdges
    /\ tckEdges' = 0
    /\ pready \/ waited < MaxWait
    /\ waited' = IF pready \/ ~penable THEN 0 ELSE waited + 1
    /\ Bus(pready) /\ Acknowledge /\ ApbSync
    /\ moving' = Moves("ready_ack", ready_ack' # ready_ack) \cup Moves("complete", complete' # complete)
    /\ UNCHANGED <<tckRegs, host>>

TckClock == \E act \in Acts : TckEdge(act)
ApbClock == \E pready \in BOOLEAN : ApbEdge(pready)
Next == TckClock \/ ApbClock

Spec == Init /\ [][Next]_dtmVars
FairSpec == Spec /\ WF_dtmVars(TckClock) /\ WF_dtmVars(ApbClock)

-----------------------------------------------------------------------------
TypeOK ==
    /\ op_status \in {0, 3} /\ request \in Requests /\ apb_request \in Requests
    /\ last_read_data \in Words /\ apb_last_read_data \in Words
    /\ {jtag_busy, apb_busy, access_in_progress, penable} \subseteq BOOLEAN
    /\ {ready, complete_ack, ready_ack, complete} \subseteq Bit
    /\ {ready_ack_sync, complete_sync, ready_sync, complete_ack_sync} \subseteq Bit \X Bit \X Bit
    /\ performed \in 0..2

(* The complete handshake in the order in which a level travels: it differs *)
(* in at most one place, so neither side misses a change.                   *)
Ring == <<complete, complete_sync[1], complete_sync[2], complete_sync[3],
          complete_ack, complete_ack_sync[1], complete_ack_sync[2], complete_ack_sync[3]>>
OneChange ==
    /\ \A i, j \in 1..7 : Ring[i] # Ring[i+1] /\ Ring[j] # Ring[j+1] => i = j
    /\ "complete" \in moving => complete # complete_sync[1]
    /\ "complete_ack" \in moving => complete_ack # complete_ack_sync[1]

Quiet(chain) == chain[1] = 0 /\ chain[2] = 0 /\ chain[3] = 0

(* Between two requests both sides are at rest; only ready_ack, and the     *)
(* last of complete_ack, may still stand.                                   *)
Rest ==
    ~jtag_busy =>
        /\ ready = 0 /\ complete_ack = 0 /\ complete = 0 /\ Quiet(complete_sync)
        /\ ~apb_busy /\ Quiet(ready_sync) /\ "ready" \notin moving

(* How far the request is and what must have happened before.              *)
Stages ==
    /\ access_in_progress => apb_busy /\ performed = 0
    /\ apb_busy => jtag_busy /\ apb_request = request
    /\ penable => access_in_progress
    /\ jtag_busy => performed < 2
    /\ jtag_busy /\ performed = 0 =>
           complete = 0 /\ Quiet(complete_sync) /\ complete_ack = 0 /\ (apb_busy <=> access_in_progress)
    /\ jtag_busy /\ performed = 1 =>
           /\ request.op = "read" => apb_last_read_data = Answer(request)
           /\ apb_busy /\ complete = 0 =>
                  Quiet(complete_sync) /\ complete_ack = 0 /\ Quiet(complete_ack_sync)
           /\ ~apb_busy => complete = 0 /\ complete_ack = 1 /\ Quiet(ready_sync)

(* ready rises once and falls once within a request; the APB side sees it   *)
(* fall only after it has fallen, and before the end of the access is       *)
(* acknowledged: by one flip-flop, when both changed at the same edge.      *)
ReadyOnce ==
    /\ "ready" \in moving /\ ready = 1 => Quiet(ready_sync)
    /\ "ready" \in moving /\ ready = 0 => Quiet(ready_sync) \/ ready_sync[1] = 1
    /\ \/ ready_sync[3] = 0 /\ ~apb_busy
       \/ /\ ready_sync[3] >= ready_sync[2] /\ ready_sync[2] >= ready_sync[1] /\ ready_sync[1] >= ready
          /\ ready_sync[1] = 0 => "ready" \notin moving
    /\ ready_sync[2] = 1 /\ ready_sync[1] = 0 => ready = 0 /\ "ready" \notin moving
    /\ complete_ack = 1 => ready = 0
    /\ complete_ack = 1 /\ complete_ack_sync[1] = 1 => "ready" \notin moving
    /\ complete_ack = 1 /\ complete_ack_sync[2] = 1 => ready_sync[1] = 0
    /\ complete_ack = 1 /\ complete_ack_sync[3] = 1 => ready_sync[2] = 0

(* The acknowledgement of ready arrives no later than complete does.       *)
AckFirst ==
    ready = 1 =>
        /\ apb_busy => ready_ack = 1
        /\ apb_busy /\ "ready_ack" \in moving => access_in_progress /\ ~penable
        /\ \A k \in 1..3 : complete_sync[k] = 1 => ready_ack_sync[k] = 1

(* A new request is not mistaken for the end of the one before it.         *)
Drained ==
    jtag_busy /\ performed = 0 =>
        /\ "complete_ack" \notin moving
        /\ ready_sync[1] = 1 => complete_ack_sync[1] = 0
        /\ ready_sync[2] = 1 => complete_ack_sync[2] = 0
        /\ ready_sync[3] = 1 \/ apb_busy => complete_ack_sync[3] = 0

HandshakeInv == TypeOK /\ OneChange /\ Rest /\ Stages /\ ReadyOnce /\ AckFirst /\ Drained

(* Every accepted request is performed on the APB bus once, as asked, and a *)
(* read brings back the answer to itself, however the two clocks meet.      *)
Stage == IF ~jtag_busy THEN "idle" ELSE <<"asked", "done", "twice">>[performed + 1]
Remote == INSTANCE RemoteAccess WITH stage <- Stage, answer <- last_read_data
RemoteSpec == Remote!Spec

(* The host is not left waiting: a handshake never wedges.                 *)
EventuallyIdle == jtag_busy ~> ~jtag_busy

(* The waits of ReveOCD suffice: no request of such a host is ever refused. *)
NeverBusy == host.paced => op_status = 0

(* "After a transaction has completed and ready has been taken away,       *)
(* indicate complete": the comment on the APB side (lines 388-390).        *)
CompleteAfterReady == [][complete = 0 /\ complete' = 1 => ~sync_ready]_dtmVars
=============================================================================
