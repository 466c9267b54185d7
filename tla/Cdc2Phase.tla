------------------------------ MODULE Cdc2Phase ------------------------------
(***************************************************************************)
(* The two-phase clock domain crossing of pulp/verilator-model/            *)
(* cdc_2phase.sv.  A new item is announced by toggling req_src_q, and its  *)
(* consumption by toggling ack_dst_q; each toggle reaches the other clock  *)
(* domain through a chain of flip-flops.                                   *)
(*                                                                         *)
(* The two clocks are independent: SrcEdge and DstEdge interleave freely,  *)
(* so every ratio and every phase of the clocks is covered.  Per the       *)
(* CONSTRAINT in the source, a wire between the domains settles within one *)
(* period of the faster clock: after a toggle, at most one edge sees it    *)
(* moving, and that edge may sample the old bit, the new bit or, on the    *)
(* data wires, any value at all.                                           *)
(*                                                                         *)
(* A definition named D_X is D with the fault X, kept here to show which   *)
(* property notices it; the specification does not use it.                 *)
(***************************************************************************)
EXTENDS Naturals, Sequences

CONSTANTS Data,   \* the words that may cross
          Zero    \* the word the data registers hold after a reset

ASSUME ZeroAssumption == Zero \in Data

VARIABLES req_src_q, data_src_q, ack_src_q, ack_q,              \* source domain
          req_dst_q, req_q0, req_q1, ack_dst_q, data_dst_q,     \* destination domain
          reqMoving, ackMoving,  \* the wires of one toggle have not settled yet
          out                    \* history: the last item handed over, <<d>> or <<>>

srcRegs == <<req_src_q, data_src_q, ack_src_q, ack_q>>
dstRegs == <<req_dst_q, req_q0, req_q1, ack_dst_q, data_dst_q>>
cdcVars == <<srcRegs, dstRegs, reqMoving, ackMoving, out>>

Bit == {0, 1}
Flip(b) == 1 - b

src_ready_o == req_src_q = ack_q

dst_valid_o_OneCycle == req_q0 # req_q1
dst_valid_o == ack_dst_q # req_q1
dst_data_o  == data_dst_q

\* What an edge may find on the two request wires, the data and the ack wire.
ReqSamples  == {req_src_q} \cup (IF reqMoving THEN {Flip(req_src_q)} ELSE {})
DataSamples == IF reqMoving THEN Data ELSE {data_src_q}
AckSamples  == {ack_dst_q} \cup (IF ackMoving THEN {Flip(ack_dst_q)} ELSE {})

Init ==
    /\ req_src_q = 0 /\ ack_src_q = 0 /\ ack_q = 0 /\ data_src_q = Zero
    /\ req_dst_q = 0 /\ req_q0 = 0 /\ req_q1 = 0 /\ ack_dst_q = 0 /\ data_dst_q = Zero
    /\ reqMoving = FALSE /\ ackMoving = FALSE
    /\ out = <<>>

-----------------------------------------------------------------------------
(* Source domain: one rising edge of src_clk_i with the inputs sampled at it. *)

SrcAccept_Overwriting(valid, data) ==
    IF valid
    THEN req_src_q' = Flip(req_src_q) /\ data_src_q' = data
    ELSE UNCHANGED <<req_src_q, data_src_q>>

SrcAccept(valid, data) ==
    IF valid /\ src_ready_o
    THEN req_src_q' = Flip(req_src_q) /\ data_src_q' = data
    ELSE UNCHANGED <<req_src_q, data_src_q>>

SrcSync == \E a \in AckSamples : ack_src_q' = a /\ ack_q' = ack_src_q

SrcEdge(valid, data) ==
    /\ SrcAccept(valid, data)
    /\ SrcSync
    /\ reqMoving' = (valid /\ src_ready_o)
    /\ ackMoving' = FALSE
    /\ UNCHANGED <<dstRegs, out>>

(* Destination domain: one rising edge of dst_clk_i. *)

DstConsume_NoAck(ready) ==
    ack_dst_q' = ack_dst_q /\ out' = IF dst_valid_o /\ ready THEN <<dst_data_o>> ELSE out

DstConsume(ready) ==
    IF dst_valid_o /\ ready
    THEN ack_dst_q' = Flip(ack_dst_q) /\ out' = <<dst_data_o>>
    ELSE UNCHANGED <<ack_dst_q, out>>

DstCapture_Unsynchronised ==
    IF req_src_q # req_dst_q THEN data_dst_q' \in DataSamples ELSE UNCHANGED data_dst_q

DstCapture ==
    IF req_q0 # req_q1 /\ ~dst_valid_o
    THEN data_dst_q' \in DataSamples
    ELSE UNCHANGED data_dst_q

DstSync == \E r \in ReqSamples : req_dst_q' = r /\ req_q0' = req_dst_q /\ req_q1' = req_q0

DstEdge(ready) ==
    /\ DstConsume(ready)
    /\ DstCapture
    /\ DstSync
    /\ ackMoving' = (dst_valid_o /\ ready)
    /\ reqMoving' = FALSE
    /\ UNCHANGED srcRegs

(* Both halves are reset by the same signal (trst_ni and rst_ni are both   *)
(* reset_n in pulp/tb/wrappers/riscv_soc.sv), held until the wires settle. *)
Reset ==
    /\ req_src_q' = 0 /\ ack_src_q' = 0 /\ ack_q' = 0 /\ data_src_q' = Zero
    /\ req_dst_q' = 0 /\ req_q0' = 0 /\ req_q1' = 0 /\ ack_dst_q' = 0 /\ data_dst_q' = Zero
    /\ reqMoving' = FALSE /\ ackMoving' = FALSE
    /\ out' = <<>>

SrcClock == \E valid \in BOOLEAN, data \in Data : SrcEdge(valid, data)
DstClock == \E ready \in BOOLEAN : DstEdge(ready)
Next == SrcClock \/ DstClock \/ Reset

Spec == Init /\ [][Next]_cdcVars

(* Both clocks keep running, and the destination does not refuse an        *)
(* offered item for ever.                                                  *)
Consume == dst_valid_o /\ DstEdge(TRUE)
FairSpec == Spec /\ WF_cdcVars(SrcClock) /\ WF_cdcVars(DstClock) /\ WF_cdcVars(Consume)

-----------------------------------------------------------------------------
TypeOK ==
    /\ {req_src_q, ack_src_q, ack_q, req_dst_q, req_q0, req_q1, ack_dst_q} \subseteq Bit
    /\ data_src_q \in Data /\ data_dst_q \in Data
    /\ reqMoving \in BOOLEAN /\ ackMoving \in BOOLEAN
    /\ out \in {<<>>} \cup {<<d>> : d \in Data}

(* The seven handshake bits in the order in which a toggle travels: they   *)
(* differ in at most one place, so a second request is never launched      *)
(* while the first, or its acknowledgement, is still travelling.           *)
Ring == <<req_src_q, req_dst_q, req_q0, req_q1, ack_dst_q, ack_src_q, ack_q>>
OneToggle == \A i, j \in 1..6 : Ring[i] # Ring[i+1] /\ Ring[j] # Ring[j+1] => i = j

(* A wire is moving only while its toggle has not entered the other domain. *)
MovingIsNew ==
    /\ reqMoving => req_src_q # req_dst_q
    /\ ackMoving => ack_dst_q # ack_src_q

(* No torn and no stale word: what the destination is offered is the word  *)
(* the source accepted, whatever the data wires showed while they moved.   *)
DataIntact == dst_valid_o => dst_data_o = data_src_q

HandshakeInv == TypeOK /\ OneToggle /\ MovingIsNew /\ DataIntact

InFlight == req_src_q # ack_dst_q

(* The crossing is a one-place link: no item is lost, repeated, changed or *)
(* made up between the two clocks.                                         *)
Link == INSTANCE OnePlaceLink
            WITH carried <- IF InFlight THEN <<data_src_q>> ELSE <<>>
LinkSpec == Link!Spec

(* An item on offer is neither withdrawn nor altered before it is taken,   *)
(* except by a reset.                                                      *)
OfferIsStable ==
    [][dst_valid_o /\ ~Reset => \/ dst_valid_o' /\ dst_data_o' = dst_data_o
                                \/ out' = <<dst_data_o>>]_cdcVars

(* Every accepted item is eventually offered (or lost to a reset).         *)
EventuallyOffered == InFlight ~> (dst_valid_o \/ ~InFlight)

(* ... and the source can always send again: a handshake never wedges.     *)
EventuallyReady == []<>src_ready_o

BothSidesProgress == EventuallyOffered /\ EventuallyReady
=============================================================================
