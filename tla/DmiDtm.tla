------------------------------- MODULE DmiDtm -------------------------------
(***************************************************************************)
(* The debug transport of the pulp SoC: the FSM of dmi_jtag.sv in the TCK  *)
(* domain, the two crossings of dmi_cdc.sv, and in the clk domain the      *)
(* request port and the response queue of dm_csrs.sv.  The host is any     *)
(* debugger that scans the DMI register and, now and then, DTMCS.          *)
(* The FSM is the code's, edge by edge.                                    *)
(*                                                                         *)
(* Addresses and data are abstracted to the identity of the request they   *)
(* belong to: requests are numbered modulo NIds as the FSM accepts them,   *)
(* a response carries the number of the request it answers, and a read is  *)
(* right when the word shifted out is the response to that very read.      *)
(* TCK and clk interleave freely, but for the bound of the host's cable.   *)
(***************************************************************************)
EXTENDS Naturals, Sequences

CONSTANTS
    NIds,          \* requests are numbered modulo NIds: more than can be under way
    ShiftEdges,    \* ShiftEdges[ir]: TCK edges in Shift-DR, the length of register ir
    Hosts,         \* the hosts considered, see HostType
    FifoDepth,     \* places in the response queue
    DmiGap         \* clk edges that pass at least between two executed requests

Ids == 0 .. NIds - 1
Ops == {"read", "write", "nop"}

\* A host spends idleAfter[op] edges of TCK in Run-Test/Idle after op; its TCK
\* has at most maxTckPerClk edges between two edges of clk; a patient host is one
\* that takes it for granted that it waits long enough.
HostType == [idleAfter : [Ops -> Nat], maxTckPerClk : Nat \ {0}, patient : BOOLEAN]

ASSUME ConstantsAssumption ==
    /\ NIds \in Nat \ {0, 1} /\ ShiftEdges \in [{"dmi", "dtmcs"} -> Nat \ {0}]
    /\ Hosts \subseteq HostType
    /\ FifoDepth \in Nat \ {0} /\ DmiGap \in Nat

VARIABLES
    host,          \* the host at the cable: it never changes
    tap, n,        \* TAP state; edges spent in Run-Test/Idle or in Shift-DR
    ir, dmireset,  \* the selected register, "dmi" or "dtmcs"; bit 16 of dtmcs_q
    dr, hostOp,    \* what Capture-DR loaded; the op the host shifts in behind it
    state_q, error_q, data_q,
    last, lost,    \* history: the last scan the FSM took, one it dropped since dmireset
    fifo,          \* the response queue of dm_csrs
    executed,      \* history: the last request the debug module executed
    gap,           \* history: clk edges since then, counted up to DmiGap
    tcks           \* TCK edges since the last clk edge

\* The registers of the two crossings.
VARIABLES q_req, q_data, q_as, q_ack, q_rd, q_r0, q_r1, q_ad, q_dd, q_rm, q_am, q_out
VARIABLES p_req, p_data, p_as, p_ack, p_rd, p_r0, p_r1, p_ad, p_dd, p_rm, p_am, p_out

reqVars  == <<q_req, q_data, q_as, q_ack, q_rd, q_r0, q_r1, q_ad, q_dd, q_rm, q_am, q_out>>
respVars == <<p_req, p_data, p_as, p_ack, p_rd, p_r0, p_r1, p_ad, p_dd, p_rm, p_am, p_out>>
tapVars  == <<tap, n, ir, dmireset, dr, hostOp>>
fsmVars  == <<state_q, error_q, data_q, last, lost>>
vars     == <<host, tapVars, fsmVars, fifo, executed, gap, tcks, reqVars, respVars>>

Word == [op : Ops, id : Ids]
NoWord == [op |-> "nop", id |-> 0]

ReqCdc == INSTANCE Cdc2Phase WITH
    Data <- Word, Zero <- NoWord,
    req_src_q <- q_req, data_src_q <- q_data, ack_src_q <- q_as, ack_q <- q_ack,
    req_dst_q <- q_rd, req_q0 <- q_r0, req_q1 <- q_r1, ack_dst_q <- q_ad, data_dst_q <- q_dd,
    reqMoving <- q_rm, ackMoving <- q_am, out <- q_out

RespCdc == INSTANCE Cdc2Phase WITH
    Data <- Word, Zero <- NoWord,
    req_src_q <- p_req, data_src_q <- p_data, ack_src_q <- p_as, ack_q <- p_ack,
    req_dst_q <- p_rd, req_q0 <- p_r0, req_q1 <- p_r1, ack_dst_q <- p_ad, data_dst_q <- p_dd,
    reqMoving <- p_rm, ackMoving <- p_am, out <- p_out

Init ==
    /\ host \in Hosts
    /\ tap = "RunTestIdle" /\ n = 0 /\ ir = "dmi" /\ dmireset = FALSE
    /\ dr = [status |-> "ok", data |-> [from |-> "host", id |-> 0]] /\ hostOp = "nop"
    /\ state_q = "Idle" /\ error_q = "ok" /\ data_q = [from |-> "host", id |-> 0]
    /\ last = NoWord /\ lost = FALSE
    /\ fifo = <<>> /\ executed = 0 /\ gap = DmiGap /\ tcks = 0
    /\ ReqCdc!Init /\ RespCdc!Init

-----------------------------------------------------------------------------
(* The TAP, as the host drives it: one scan after the other, with at least *)
(* idleAfter[op] edges in Run-Test/Idle after a request.  Selecting the    *)
(* other register, an IR scan, is shortened to one edge in Run-Test/Idle.  *)

update_dr  == tap = "UpdateDr"
capture_dr == tap = "CaptureDr"
dmi_access == ir = "dmi"

Rested_Impatient == TRUE
Rested == n >= host.idleAfter[hostOp]

Rest ==
    /\ tap = "RunTestIdle"
    /\ n' = IF Rested THEN n ELSE n + 1
    /\ UNCHANGED <<tap, ir, dmireset, hostOp>>

Select ==
    /\ tap = "RunTestIdle" /\ Rested
    /\ ir' \in {"dmi", "dtmcs"}
    /\ tap' = IF ir' = ir THEN "SelectDrScan" ELSE tap
    /\ UNCHANGED <<n, dmireset, hostOp>>

Capture ==
    /\ tap \in {"SelectDrScan", "CaptureDr"}
    /\ tap' = IF tap = "SelectDrScan" THEN "CaptureDr" ELSE "ShiftDr"
    /\ n' = 0
    /\ dmireset' = (dmireset /\ ~(capture_dr /\ ir = "dtmcs"))
    /\ UNCHANGED <<ir, hostOp>>

\* dmi_reset_o is a bit of the shift register, not of an update register: it
\* takes the value of every bit that passes.
Shift_OneMore ==
    /\ tap = "ShiftDr"
    /\ n' = n + 1
    /\ tap' = IF n' <= ShiftEdges[ir] THEN tap ELSE "Exit1Dr"
    /\ hostOp' \in (IF n' <= ShiftEdges[ir] THEN {hostOp} ELSE {"nop"})
    /\ dmireset' \in (IF dmi_access THEN {dmireset} ELSE BOOLEAN)
    /\ UNCHANGED ir

Shift ==
    /\ tap = "ShiftDr"
    /\ n' = n + 1
    /\ tap' = IF n' < ShiftEdges[ir] THEN tap ELSE "Exit1Dr"
    /\ hostOp' \in (IF n' < ShiftEdges[ir] THEN {hostOp} ELSE IF dmi_access THEN Ops ELSE {"nop"})
    /\ dmireset' \in (IF dmi_access THEN {dmireset} ELSE BOOLEAN)
    /\ UNCHANGED ir

Finish ==
    /\ tap \in {"Exit1Dr", "UpdateDr"}
    /\ IF tap = "Exit1Dr"
       THEN tap' = "UpdateDr"
       ELSE tap' \in {"RunTestIdle"} \cup (IF host.idleAfter[hostOp] = 0 THEN {"SelectDrScan"} ELSE {})
    /\ n' = 0
    /\ UNCHANGED <<ir, dmireset, hostOp>>

TapEdge == Rest \/ Select \/ Capture \/ Shift \/ Finish

-----------------------------------------------------------------------------
(* The FSM of dmi_jtag.sv. *)

dmi_req_valid == state_q \in {"Read", "Write"}
dmi_req       == [op |-> IF state_q = "Write" THEN "write" ELSE "read", id |-> last.id]

dmi_resp_ready_ReadsOnly == state_q = "WaitReadValid"
dmi_resp_ready == TRUE

error_dmi_busy_UpdateOnly == update_dr /\ state_q # "Idle"
error_dmi_busy ==
    \/ update_dr /\ state_q # "Idle"
    \/ capture_dr /\ state_q \in {"Read", "WaitReadValid"}

\* An Update-DR of the DMI register.  The FSM keeps the word that was shifted
\* in even if that asks for nothing.
Asked == update_dr /\ dmi_access

Accept ==
    /\ state_q = "Idle" /\ Asked /\ error_q = "ok"
    /\ last' = [op |-> hostOp, id |-> IF hostOp = "nop" THEN last.id ELSE (last.id + 1) % NIds]
    /\ data_q' = [from |-> "host", id |-> last'.id]
    /\ state_q' = CASE hostOp = "read" -> "Read"
                    [] hostOp = "write" -> "Write"
                    [] hostOp = "nop" -> "Idle"

Launch_StaysInWrite ==
    /\ dmi_req_valid /\ ReqCdc!src_ready_o
    /\ state_q' = IF state_q = "Read" THEN "WaitReadValid" ELSE "Write"
    /\ UNCHANGED <<data_q, last>>

Launch ==
    /\ dmi_req_valid /\ ReqCdc!src_ready_o
    /\ state_q' = IF state_q = "Read" THEN "WaitReadValid" ELSE "Idle"
    /\ UNCHANGED <<data_q, last>>

Answer ==
    /\ state_q = "WaitReadValid" /\ RespCdc!dst_valid_o
    /\ data_q' = [from |-> "dm", id |-> RespCdc!dst_data_o.id]
    /\ state_q' = "Idle"
    /\ UNCHANGED last

Stay ==
    /\ ~(state_q = "Idle" /\ Asked /\ error_q = "ok")
    /\ ~(dmi_req_valid /\ ReqCdc!src_ready_o)
    /\ ~(state_q = "WaitReadValid" /\ RespCdc!dst_valid_o)
    /\ UNCHANGED <<state_q, data_q, last>>

Clearing == dmireset /\ ir = "dtmcs"

StickyError_ClearedByRead ==
    error_q' = IF Clearing \/ (capture_dr /\ dmi_access /\ error_q # "ok") THEN "ok"
               ELSE IF error_dmi_busy THEN "busy" ELSE error_q

StickyError ==
    error_q' = IF Clearing THEN "ok" ELSE IF error_dmi_busy THEN "busy" ELSE error_q

CaptureDmi ==
    dr' = IF capture_dr /\ dmi_access
          THEN [status |-> IF error_q = "ok" /\ ~error_dmi_busy THEN "ok" ELSE "busy",
                data |-> data_q]
          ELSE dr

FsmEdge ==
    /\ Accept \/ Launch \/ Answer \/ Stay
    /\ StickyError
    /\ CaptureDmi
    /\ lost' = (~Clearing /\ (lost \/ (Asked /\ hostOp # "nop" /\ ~(state_q = "Idle" /\ error_q = "ok"))))

TckEdge ==
    /\ tcks < host.maxTckPerClk /\ tcks' = tcks + 1
    /\ TapEdge
    /\ FsmEdge
    /\ ReqCdc!SrcEdge(dmi_req_valid, dmi_req)
    /\ RespCdc!DstEdge(dmi_resp_ready)
    /\ UNCHANGED <<host, fifo, executed, gap>>

-----------------------------------------------------------------------------
(* The clk domain: a request is executed in the cycle the crossing offers  *)
(* it, if the response queue has room, and every request is answered.      *)

dmi_req_ready_o  == Len(fifo) < FifoDepth
dmi_resp_valid_o_WhenFull == Len(fifo) = FifoDepth
dmi_resp_valid_o == fifo # <<>>
resp_queue_push  == ReqCdc!dst_valid_o /\ dmi_req_ready_o
resp_queue_pop   == RespCdc!src_ready_o /\ dmi_resp_valid_o

Popped == IF resp_queue_pop THEN Tail(fifo) ELSE fifo

ClkEdge ==
    /\ tcks' = 0
    /\ fifo' = IF resp_queue_push THEN Append(Popped, ReqCdc!dst_data_o) ELSE Popped
    /\ executed' = IF resp_queue_push THEN ReqCdc!dst_data_o.id ELSE executed
    /\ gap' = IF resp_queue_push THEN 0 ELSE IF gap < DmiGap THEN gap + 1 ELSE gap
    /\ ReqCdc!DstEdge(dmi_req_ready_o)
    /\ RespCdc!SrcEdge(dmi_resp_valid_o, IF fifo = <<>> THEN NoWord ELSE Head(fifo))
    /\ UNCHANGED <<host, tapVars, fsmVars>>

Next == TckEdge \/ ClkEdge

Spec == Init /\ [][Next]_vars

(* Both clocks keep running. *)
FairSpec == Spec /\ WF_vars(TckEdge) /\ WF_vars(ClkEdge)
-----------------------------------------------------------------------------
TypeOK ==
    /\ host \in Hosts
    /\ tap \in {"RunTestIdle", "SelectDrScan", "CaptureDr", "ShiftDr", "Exit1Dr", "UpdateDr"}
    /\ n \in Nat /\ (tap = "ShiftDr" => n < ShiftEdges[ir]) /\ ir \in {"dmi", "dtmcs"} /\ dmireset \in BOOLEAN
    /\ dr \in [status : {"ok", "busy"}, data : [from : {"host", "dm"}, id : Ids]]
    /\ hostOp \in Ops /\ last \in Word /\ lost \in BOOLEAN
    /\ state_q \in {"Idle", "Read", "WaitReadValid", "Write"} /\ error_q \in {"ok", "busy"}
    /\ data_q \in [from : {"host", "dm"}, id : Ids]
    /\ fifo \in Seq(Word) /\ Len(fifo) <= FifoDepth /\ executed \in Ids /\ gap \in 0 .. DmiGap
    /\ tcks \in 0 .. host.maxTckPerClk
    /\ ReqCdc!HandshakeInv /\ RespCdc!HandshakeInv

(* A word the host reads without a busy status after a read is the answer  *)
(* to that read: never the answer to an older request, and never the word  *)
(* the host itself had shifted in.                                         *)
ReadReturnsOwnAnswer ==
    tap = "ShiftDr" /\ dmi_access /\ dr.status = "ok" /\ last.op = "read"
        => dr.data = [from |-> "dm", id |-> last.id]

(* A request that the FSM drops is never dropped silently: the busy error  *)
(* stays until the host clears it.                                         *)
NoSilentDrop == lost => error_q = "busy"

(* The debug module executes every accepted request once and in order: the *)
(* request it is about to execute is the successor of the one before.      *)
ExecutedInOrder == resp_queue_push => ReqCdc!dst_data_o.id = (executed + 1) % NIds

(* The queue never fills: a request is never held up by old responses.     *)
QueueNeverFull == Len(fifo) < FifoDepth

(* The debug module has DmiGap edges to itself after every request: what   *)
(* it starts in the edge after a request is settled before the next one.   *)
RequestsSpaced == resp_queue_push => gap = DmiGap

(* A patient host is never told to retry and needs not look at the status: *)
(* PulpOCD never does.                                                     *)
NeverBusy == host.patient => error_q = "ok"

(* Every request completes: the FSM always becomes idle again. *)
EventuallyIdle == []<>(state_q = "Idle")
=============================================================================
