---------------------------- MODULE DmiDtm_proofs ----------------------------
(***************************************************************************)
(* Proofs about the debug transport, for any host, any ratio and any       *)
(* phase of the two clocks, any length of the registers and any depth of   *)
(* the response queue.  What the crossings do is taken from the theorems   *)
(* of Cdc2Phase_proofs, instantiated once per direction.                   *)
(***************************************************************************)
EXTENDS DmiDtm, TLAPS

ReqProofs == INSTANCE Cdc2Phase_proofs WITH
    Data <- Word, Zero <- NoWord,
    req_src_q <- q_req, data_src_q <- q_data, ack_src_q <- q_as, ack_q <- q_ack,
    req_dst_q <- q_rd, req_q0 <- q_r0, req_q1 <- q_r1, ack_dst_q <- q_ad, data_dst_q <- q_dd,
    reqMoving <- q_rm, ackMoving <- q_am, out <- q_out

RespProofs == INSTANCE Cdc2Phase_proofs WITH
    Data <- Word, Zero <- NoWord,
    req_src_q <- p_req, data_src_q <- p_data, ack_src_q <- p_as, ack_q <- p_ack,
    req_dst_q <- p_rd, req_q0 <- p_r0, req_q1 <- p_r1, ack_dst_q <- p_ad, data_dst_q <- p_dd,
    reqMoving <- p_rm, ackMoving <- p_am, out <- p_out

LEMMA WordTypes == NoWord \in Word /\ 0 \in Ids /\ \A id \in Ids : (id + 1) % NIds \in Ids
BY ConstantsAssumption DEF NoWord, Word, Ops, Ids

(* The crossing's module and the module of its proofs, instantiated alike, *)
(* speak of the same things.                                               *)
LEMMA SameRequests ==
    /\ ReqProofs!HandshakeInv <=> ReqCdc!HandshakeInv
    /\ ReqProofs!Init <=> ReqCdc!Init
BY DEF ReqProofs!HandshakeInv, ReqProofs!TypeOK, ReqProofs!OneToggle, ReqProofs!Ring, ReqProofs!MovingIsNew,
       ReqProofs!DataIntact, ReqProofs!dst_valid_o, ReqProofs!dst_data_o, ReqProofs!Bit, ReqProofs!Init,
       ReqCdc!HandshakeInv, ReqCdc!TypeOK, ReqCdc!OneToggle, ReqCdc!Ring, ReqCdc!MovingIsNew,
       ReqCdc!DataIntact, ReqCdc!dst_valid_o, ReqCdc!dst_data_o, ReqCdc!Bit, ReqCdc!Init

LEMMA SameRequestsNext == ReqProofs!HandshakeInv' <=> ReqCdc!HandshakeInv'
BY DEF ReqProofs!HandshakeInv, ReqProofs!TypeOK, ReqProofs!OneToggle, ReqProofs!Ring, ReqProofs!MovingIsNew,
       ReqProofs!DataIntact, ReqProofs!dst_valid_o, ReqProofs!dst_data_o, ReqProofs!Bit,
       ReqCdc!HandshakeInv, ReqCdc!TypeOK, ReqCdc!OneToggle, ReqCdc!Ring, ReqCdc!MovingIsNew,
       ReqCdc!DataIntact, ReqCdc!dst_valid_o, ReqCdc!dst_data_o, ReqCdc!Bit

LEMMA RequestSrcEdge ==
    ASSUME ReqCdc!HandshakeInv, NEW valid \in BOOLEAN, NEW data \in Word, ReqCdc!SrcEdge(valid, data)
    PROVE  ReqCdc!HandshakeInv'
<1>1. ReqProofs!SrcEdge(valid, data)
  BY DEF ReqProofs!SrcEdge, ReqProofs!SrcAccept, ReqProofs!SrcSync, ReqProofs!AckSamples, ReqProofs!src_ready_o,
         ReqProofs!dstRegs, ReqProofs!Flip,
         ReqCdc!SrcEdge, ReqCdc!SrcAccept, ReqCdc!SrcSync, ReqCdc!AckSamples, ReqCdc!src_ready_o,
         ReqCdc!dstRegs, ReqCdc!Flip
<1> QED BY <1>1, WordTypes, SameRequests, SameRequestsNext, ReqProofs!SrcEdgeKeeps

LEMMA RequestDstEdge ==
    ASSUME ReqCdc!HandshakeInv, NEW ready \in BOOLEAN, ReqCdc!DstEdge(ready)
    PROVE  ReqCdc!HandshakeInv'
<1>1. ReqProofs!DstEdge(ready)
  BY DEF ReqProofs!DstEdge, ReqProofs!DstConsume, ReqProofs!DstCapture, ReqProofs!DstSync, ReqProofs!DataSamples,
         ReqProofs!ReqSamples, ReqProofs!dst_valid_o, ReqProofs!dst_data_o, ReqProofs!srcRegs, ReqProofs!Flip,
         ReqCdc!DstEdge, ReqCdc!DstConsume, ReqCdc!DstCapture, ReqCdc!DstSync, ReqCdc!DataSamples,
         ReqCdc!ReqSamples, ReqCdc!dst_valid_o, ReqCdc!dst_data_o, ReqCdc!srcRegs, ReqCdc!Flip
<1> QED BY <1>1, WordTypes, SameRequests, SameRequestsNext, ReqProofs!DstEdgeKeeps
LEMMA SameResponses ==
    /\ RespProofs!HandshakeInv <=> RespCdc!HandshakeInv
    /\ RespProofs!Init <=> RespCdc!Init
BY DEF RespProofs!HandshakeInv, RespProofs!TypeOK, RespProofs!OneToggle, RespProofs!Ring, RespProofs!MovingIsNew,
       RespProofs!DataIntact, RespProofs!dst_valid_o, RespProofs!dst_data_o, RespProofs!Bit, RespProofs!Init,
       RespCdc!HandshakeInv, RespCdc!TypeOK, RespCdc!OneToggle, RespCdc!Ring, RespCdc!MovingIsNew,
       RespCdc!DataIntact, RespCdc!dst_valid_o, RespCdc!dst_data_o, RespCdc!Bit, RespCdc!Init

LEMMA SameResponsesNext == RespProofs!HandshakeInv' <=> RespCdc!HandshakeInv'
BY DEF RespProofs!HandshakeInv, RespProofs!TypeOK, RespProofs!OneToggle, RespProofs!Ring, RespProofs!MovingIsNew,
       RespProofs!DataIntact, RespProofs!dst_valid_o, RespProofs!dst_data_o, RespProofs!Bit,
       RespCdc!HandshakeInv, RespCdc!TypeOK, RespCdc!OneToggle, RespCdc!Ring, RespCdc!MovingIsNew,
       RespCdc!DataIntact, RespCdc!dst_valid_o, RespCdc!dst_data_o, RespCdc!Bit

LEMMA ResponseSrcEdge ==
    ASSUME RespCdc!HandshakeInv, NEW valid \in BOOLEAN, NEW data \in Word, RespCdc!SrcEdge(valid, data)
    PROVE  RespCdc!HandshakeInv'
<1>1. RespProofs!SrcEdge(valid, data)
  BY DEF RespProofs!SrcEdge, RespProofs!SrcAccept, RespProofs!SrcSync, RespProofs!AckSamples, RespProofs!src_ready_o,
         RespProofs!dstRegs, RespProofs!Flip,
         RespCdc!SrcEdge, RespCdc!SrcAccept, RespCdc!SrcSync, RespCdc!AckSamples, RespCdc!src_ready_o,
         RespCdc!dstRegs, RespCdc!Flip
<1> QED BY <1>1, WordTypes, SameResponses, SameResponsesNext, RespProofs!SrcEdgeKeeps

LEMMA ResponseDstEdge ==
    ASSUME RespCdc!HandshakeInv, NEW ready \in BOOLEAN, RespCdc!DstEdge(ready)
    PROVE  RespCdc!HandshakeInv'
<1>1. RespProofs!DstEdge(ready)
  BY DEF RespProofs!DstEdge, RespProofs!DstConsume, RespProofs!DstCapture, RespProofs!DstSync, RespProofs!DataSamples,
         RespProofs!ReqSamples, RespProofs!dst_valid_o, RespProofs!dst_data_o, RespProofs!srcRegs, RespProofs!Flip,
         RespCdc!DstEdge, RespCdc!DstConsume, RespCdc!DstCapture, RespCdc!DstSync, RespCdc!DataSamples,
         RespCdc!ReqSamples, RespCdc!dst_valid_o, RespCdc!dst_data_o, RespCdc!srcRegs, RespCdc!Flip
<1> QED BY <1>1, WordTypes, SameResponses, SameResponsesNext, RespProofs!DstEdgeKeeps
-----------------------------------------------------------------------------
(* The host's scans and the FSM keep the types. *)
LEMMA TckTypes == TypeOK /\ TckEdge => TypeOK'
<1> SUFFICES ASSUME TypeOK, TckEdge PROVE TypeOK'
  OBVIOUS
<1> USE DEF TypeOK
<1>1. dmi_req \in Word /\ dmi_req_valid \in BOOLEAN
  BY DEF Word, Ops, dmi_req, dmi_req_valid
<1>2. ReqCdc!HandshakeInv'
  BY <1>1, RequestSrcEdge DEF TckEdge
<1>3. RespCdc!HandshakeInv'
  BY ResponseDstEdge DEF TckEdge, dmi_resp_ready
<1>4. RespCdc!dst_data_o.id \in Ids
  BY DEF RespCdc!HandshakeInv, RespCdc!TypeOK, RespCdc!dst_data_o, Word
<1>5. tap' \in {"RunTestIdle", "SelectDrScan", "CaptureDr", "ShiftDr", "Exit1Dr", "UpdateDr"} /\ ir' \in {"dmi", "dtmcs"}
  BY DEF TckEdge, TapEdge, Rest, Select, Capture, Shift, Finish
<1>6. hostOp' \in Ops
  BY DEF TckEdge, TapEdge, Rest, Select, Capture, Shift, Finish, Ops
<1>7. dmireset' \in BOOLEAN
  <2>1. CASE Rest \/ Select \/ Finish
    BY <2>1 DEF Rest, Select, Finish
  <2>2. CASE Capture
    BY <2>2, Zenon DEF Capture
  <2>3. CASE Shift
    BY <2>3 DEF Shift
  <2> QED BY <2>1, <2>2, <2>3 DEF TckEdge, TapEdge
<1>8. n' \in Nat /\ (tap' = "ShiftDr" => n' < ShiftEdges[ir'])
  <2>1. ShiftEdges[ir] \in Nat \ {0}
    BY ConstantsAssumption
  <2> QED BY <2>1 DEF TckEdge, TapEdge, Rest, Select, Capture, Shift, Finish
<1>9. /\ last' \in Word /\ data_q' \in [from : {"host", "dm"}, id : Ids]
      /\ state_q' \in {"Idle", "Read", "WaitReadValid", "Write"}
  <2>1. CASE Accept
    <3>1. last' \in Word /\ last'.id \in Ids
      BY <2>1, WordTypes DEF Accept, Word
    <3> QED BY <2>1, <3>1 DEF Accept, Ops
  <2>2. CASE Launch
    BY <2>2 DEF Launch
  <2>3. CASE Answer
    BY <2>3, <1>4 DEF Answer
  <2>4. CASE Stay
    BY <2>4 DEF Stay
  <2> QED BY <2>1, <2>2, <2>3, <2>4 DEF TckEdge, FsmEdge
<1>10. error_q' \in {"ok", "busy"}
  BY DEF TckEdge, FsmEdge, StickyError
<1>11. dr' \in [status : {"ok", "busy"}, data : [from : {"host", "dm"}, id : Ids]]
  BY DEF TckEdge, FsmEdge, CaptureDmi
<1>12. lost' \in BOOLEAN
  BY Zenon DEF TckEdge, FsmEdge
<1>13. host' = host /\ fifo' = fifo /\ executed' = executed /\ gap' = gap
  BY DEF TckEdge
<1>14. tcks' \in 0 .. host.maxTckPerClk
  <2>1. host.maxTckPerClk \in Nat
    BY ConstantsAssumption DEF HostType
  <2> QED BY <2>1 DEF TckEdge
<1> QED BY <1>2, <1>3, <1>5, <1>6, <1>7, <1>8, <1>9, <1>10, <1>11, <1>12, <1>13, <1>14

(* So does the debug module's side. *)
LEMMA ClkTypes == TypeOK /\ ClkEdge => TypeOK'
<1> SUFFICES ASSUME TypeOK, ClkEdge PROVE TypeOK'
  OBVIOUS
<1> USE DEF TypeOK
<1>1. dmi_req_ready_o \in BOOLEAN /\ dmi_resp_valid_o \in BOOLEAN
  BY DEF dmi_req_ready_o, dmi_resp_valid_o
<1>2. (IF fifo = <<>> THEN NoWord ELSE Head(fifo)) \in Word
  BY WordTypes
<1>3. ReqCdc!HandshakeInv'
  BY <1>1, RequestDstEdge DEF ClkEdge
<1>4. RespCdc!HandshakeInv'
  BY <1>1, <1>2, ResponseSrcEdge DEF ClkEdge
<1>5. ReqCdc!dst_data_o \in Word /\ ReqCdc!dst_data_o.id \in Ids
  BY DEF ReqCdc!HandshakeInv, ReqCdc!TypeOK, ReqCdc!dst_data_o, Word
<1>6. fifo' \in Seq(Word) /\ Len(fifo') <= FifoDepth
  <2>1. Popped \in Seq(Word) /\ Len(Popped) <= Len(fifo)
    BY DEF Popped, resp_queue_pop, dmi_resp_valid_o
  <2>2. CASE resp_queue_push
    BY <1>5, <2>1, <2>2, ConstantsAssumption DEF ClkEdge, resp_queue_push, dmi_req_ready_o
  <2>3. CASE ~resp_queue_push
    BY <2>1, <2>3, ConstantsAssumption DEF ClkEdge
  <2> QED BY <2>2, <2>3
<1>7. executed' \in Ids
  BY <1>5 DEF ClkEdge
<1>8. gap' \in 0 .. DmiGap
  BY ConstantsAssumption DEF ClkEdge
<1>9. UNCHANGED <<host, tapVars, fsmVars>>
  BY DEF ClkEdge
<1>10. tcks' \in 0 .. host.maxTckPerClk
  <2>1. host.maxTckPerClk \in Nat
    BY ConstantsAssumption DEF HostType
  <2> QED BY <2>1 DEF ClkEdge
<1> QED BY <1>3, <1>4, <1>6, <1>7, <1>8, <1>9, <1>10 DEF tapVars, fsmVars

(* Every register holds a value of its type, and both crossings keep their *)
(* handshake, whatever the host does and however the clocks interleave.    *)
THEOREM TypesHold == Spec => []TypeOK
<1>1. Init => TypeOK
  <2> SUFFICES ASSUME Init PROVE TypeOK
    OBVIOUS
  <2>1. ReqCdc!HandshakeInv
    BY WordTypes, SameRequests, ReqProofs!InitHandshake DEF Init
  <2>2. RespCdc!HandshakeInv
    BY WordTypes, SameResponses, RespProofs!InitHandshake DEF Init
  <2>3. tcks \in 0 .. host.maxTckPerClk /\ gap \in 0 .. DmiGap /\ host \in Hosts
    BY ConstantsAssumption DEF Init, HostType
  <2>4. fifo \in Seq(Word) /\ Len(fifo) <= FifoDepth
    BY ConstantsAssumption DEF Init
  <2> QED BY <2>1, <2>2, <2>3, <2>4, WordTypes DEF Init, TypeOK, NoWord, Ops
<1>2. TypeOK /\ [Next]_vars => TypeOK'
  <2> SUFFICES ASSUME TypeOK, [Next]_vars PROVE TypeOK'
    OBVIOUS
  <2>1. CASE TckEdge
    BY <2>1, TckTypes
  <2>2. CASE ClkEdge
    BY <2>2, ClkTypes
  <2>3. CASE UNCHANGED vars
    BY <2>3 DEF TypeOK, vars, tapVars, fsmVars, reqVars, respVars,
       ReqCdc!HandshakeInv, ReqCdc!TypeOK, ReqCdc!OneToggle, ReqCdc!Ring, ReqCdc!MovingIsNew,
       ReqCdc!DataIntact, ReqCdc!dst_valid_o, ReqCdc!dst_data_o,
       RespCdc!HandshakeInv, RespCdc!TypeOK, RespCdc!OneToggle, RespCdc!Ring, RespCdc!MovingIsNew,
       RespCdc!DataIntact, RespCdc!dst_valid_o, RespCdc!dst_data_o
  <2> QED BY <2>1, <2>2, <2>3 DEF Next
<1> QED BY <1>1, <1>2, PTL DEF Spec

-----------------------------------------------------------------------------
(* A scan that finds the FSM at work is dropped and raises the busy error  *)
(* in the same edge; one that is dropped later finds it raised already.    *)
THEOREM DropsAreReported == Spec => []NoSilentDrop
<1>1. Init => NoSilentDrop
  BY DEF Init, NoSilentDrop
<1>2. TypeOK /\ NoSilentDrop /\ [Next]_vars => NoSilentDrop'
  <2> SUFFICES ASSUME TypeOK, NoSilentDrop, [Next]_vars, lost' PROVE error_q' = "busy"
    BY DEF NoSilentDrop
  <2>1. CASE TckEdge
    <3>1. ~Clearing /\ (lost \/ (Asked /\ ~(state_q = "Idle" /\ error_q = "ok")))
      BY <2>1 DEF TckEdge, FsmEdge
    <3>2. error_q' = IF error_dmi_busy THEN "busy" ELSE error_q
      BY <2>1, <3>1 DEF TckEdge, FsmEdge, StickyError
    <3>3. CASE lost
      BY <3>2, <3>3 DEF NoSilentDrop
    <3>4. CASE Asked /\ state_q # "Idle"
      BY <3>2, <3>4 DEF Asked, error_dmi_busy
    <3>5. CASE error_q # "ok"
      BY <3>2, <3>5 DEF TypeOK
    <3> QED BY <3>1, <3>3, <3>4, <3>5
  <2>2. CASE ClkEdge \/ UNCHANGED vars
    BY <2>2 DEF ClkEdge, NoSilentDrop, fsmVars, vars
  <2> QED BY <2>1, <2>2 DEF Next
<1> QED BY <1>1, <1>2, TypesHold, PTL DEF Spec

-----------------------------------------------------------------------------
(* An accepted request waits in the FSM, then travels, then is executed.   *)
Waiting    == state_q \in {"Read", "Write"}
Travelling == q_req # q_ad
Successor(id) == (id + 1) % NIds

(* The last accepted number is as far ahead of the last executed one as    *)
(* there are requests in between, and the one that travels is the next.    *)
OrderInv ==
    /\ last.id = CASE Waiting /\ Travelling -> Successor(Successor(executed))
                   [] ~Waiting /\ ~Travelling -> executed
                   [] OTHER -> Successor(executed)
    /\ Travelling => q_data.id = Successor(executed)

(* What the source's edge does to a request: it leaves only when no other  *)
(* one is travelling.                                                      *)
LEMMA LaunchFacts ==
    ASSUME TypeOK, ReqCdc!SrcEdge(dmi_req_valid, dmi_req)
    PROVE  /\ q_ad' = q_ad
           /\ dmi_req_valid /\ ReqCdc!src_ready_o
                => ~Travelling /\ Travelling' /\ q_data' = dmi_req
           /\ ~(dmi_req_valid /\ ReqCdc!src_ready_o)
                => q_req' = q_req /\ q_data' = q_data
<1>1. ReqProofs!ToggleAt
  BY SameRequests, WordTypes, ReqProofs!OneToggleBits DEF TypeOK, ReqProofs!HandshakeInv
<1> QED BY <1>1 DEF TypeOK, ReqCdc!HandshakeInv, ReqCdc!TypeOK, ReqCdc!Bit, ReqProofs!ToggleAt, ReqCdc!SrcEdge,
       ReqCdc!SrcAccept, ReqCdc!src_ready_o, ReqCdc!dstRegs, ReqCdc!Flip, Travelling

(* What is executed is the request that travels, and then none does.       *)
LEMMA ExecuteFacts ==
    ASSUME TypeOK, ReqCdc!DstEdge(dmi_req_ready_o)
    PROVE  /\ q_req' = q_req /\ q_data' = q_data
           /\ resp_queue_push => Travelling /\ ~Travelling' /\ ReqCdc!dst_data_o = q_data
           /\ ~resp_queue_push => q_ad' = q_ad
<1>1. ReqProofs!ToggleAt
  BY SameRequests, WordTypes, ReqProofs!OneToggleBits DEF TypeOK, ReqProofs!HandshakeInv
<1> QED BY <1>1 DEF TypeOK, ReqCdc!HandshakeInv, ReqCdc!TypeOK, ReqCdc!DataIntact, ReqCdc!Bit, ReqProofs!ToggleAt,
       ReqCdc!DstEdge, ReqCdc!DstConsume, ReqCdc!dst_valid_o, ReqCdc!srcRegs, ReqCdc!Flip, Travelling,
       resp_queue_push

LEMMA OrderKept == TypeOK /\ OrderInv /\ [Next]_vars => OrderInv'
<1> SUFFICES ASSUME TypeOK, OrderInv, [Next]_vars PROVE OrderInv'
  OBVIOUS
<1>1. CASE TckEdge
  <2>1. executed' = executed
    BY <1>1 DEF TckEdge
  <2>2. ReqCdc!SrcEdge(dmi_req_valid, dmi_req)
    BY <1>1 DEF TckEdge
  <2>3. CASE Accept
    <3>1. ~dmi_req_valid /\ ~Waiting
      BY <2>3 DEF Accept, dmi_req_valid, Waiting
    <3>2. Travelling' = Travelling /\ q_data' = q_data
      BY <2>2, <3>1, LaunchFacts DEF Travelling
    <3>3. CASE hostOp = "nop"
      BY <2>1, <2>3, <3>1, <3>2, <3>3 DEF Accept, OrderInv, Waiting
    <3>4. CASE hostOp # "nop"
      <4>1. Waiting' /\ last'.id = Successor(last.id)
        BY <2>3, <3>4 DEF Accept, Waiting, Successor, TypeOK, Ops
      <4> QED BY <2>1, <3>1, <3>2, <4>1 DEF OrderInv, Successor
    <3> QED BY <3>3, <3>4
  <2>4. CASE Launch
    <3>1. Waiting /\ ~Waiting' /\ last' = last
      BY <2>4 DEF Launch, dmi_req_valid, Waiting
    <3>2. ~Travelling /\ Travelling' /\ q_data'.id = last.id
      BY <2>2, <2>4, LaunchFacts DEF Launch, dmi_req
    <3> QED BY <2>1, <3>1, <3>2 DEF OrderInv, Successor
  <2>5. CASE Answer \/ Stay
    <3>1. Waiting' = Waiting /\ last' = last /\ ~(dmi_req_valid /\ ReqCdc!src_ready_o)
      BY <2>5 DEF Answer, Stay, dmi_req_valid, Waiting
    <3>2. Travelling' = Travelling /\ q_data' = q_data
      BY <2>2, <3>1, LaunchFacts DEF Travelling
    <3> QED BY <2>1, <3>1, <3>2 DEF OrderInv, Successor
  <2> QED BY <1>1, <2>3, <2>4, <2>5 DEF TckEdge, FsmEdge
<1>2. CASE ClkEdge
  <2>1. Waiting' = Waiting /\ last' = last
    BY <1>2 DEF ClkEdge, fsmVars, Waiting
  <2>2. ReqCdc!DstEdge(dmi_req_ready_o)
    BY <1>2 DEF ClkEdge
  <2>3. CASE resp_queue_push
    <3>1. executed' = Successor(executed) /\ Travelling /\ ~Travelling'
      BY <1>2, <2>2, <2>3, ExecuteFacts DEF ClkEdge, OrderInv
    <3> QED BY <2>1, <3>1 DEF OrderInv, Successor
  <2>4. CASE ~resp_queue_push
    <3>1. executed' = executed /\ Travelling' = Travelling /\ q_data' = q_data
      BY <1>2, <2>2, <2>4, ExecuteFacts DEF ClkEdge, Travelling
    <3> QED BY <2>1, <3>1 DEF OrderInv, Successor
  <2> QED BY <2>3, <2>4
<1>3. CASE UNCHANGED vars
  BY <1>3 DEF vars, fsmVars, reqVars, OrderInv, Waiting, Travelling, Successor
<1> QED BY <1>1, <1>2, <1>3 DEF Next

(* The debug module executes every accepted request, once and in order. *)
THEOREM RequestsKeepTheirOrder == Spec => []ExecutedInOrder
<1>1. Init => OrderInv
  BY DEF Init, OrderInv, Waiting, Travelling, NoWord, ReqCdc!Init
<1>2. TypeOK /\ OrderInv => ExecutedInOrder
  <2> SUFFICES ASSUME TypeOK, OrderInv, resp_queue_push
               PROVE  ReqCdc!dst_data_o.id = (executed + 1) % NIds
    BY DEF ExecutedInOrder
  <2>1. ReqProofs!ToggleAt
    BY SameRequests, WordTypes, ReqProofs!OneToggleBits DEF TypeOK, ReqProofs!HandshakeInv
  <2>2. Travelling /\ ReqCdc!dst_data_o = q_data
    BY <2>1 DEF TypeOK, ReqCdc!HandshakeInv, ReqCdc!TypeOK, ReqCdc!DataIntact, ReqCdc!Bit, ReqProofs!ToggleAt,
       ReqCdc!dst_valid_o, Travelling, resp_queue_push
  <2> QED BY <2>2 DEF OrderInv, Successor
<1> QED BY <1>1, <1>2, OrderKept, TypesHold, PTL DEF Spec
-----------------------------------------------------------------------------
(* The debug module has had as many edges since the last request as there  *)
(* are flip-flops of its synchroniser that a new toggle has passed.        *)
SpacingInv ==
    /\ q_rd # q_ad => gap = DmiGap \/ gap >= 1
    /\ q_r0 # q_ad => gap = DmiGap \/ gap >= 2
    /\ q_r1 # q_ad => gap = DmiGap \/ gap >= 3

LEMMA SpacingKept == TypeOK /\ SpacingInv /\ [Next]_vars => SpacingInv'
<1> SUFFICES ASSUME TypeOK, SpacingInv, [Next]_vars PROVE SpacingInv'
  OBVIOUS
<1>1. CASE ClkEdge
  <2>1. ReqCdc!DstEdge(dmi_req_ready_o)
    BY <1>1 DEF ClkEdge
  <2>2. ReqProofs!ToggleAt /\ ReqCdc!MovingIsNew
    BY SameRequests, WordTypes, ReqProofs!OneToggleBits
       DEF TypeOK, ReqProofs!HandshakeInv, ReqCdc!HandshakeInv
  <2>3. PICK r \in ReqCdc!ReqSamples : q_rd' = r /\ q_r0' = q_rd /\ q_r1' = q_r0
    BY <2>1 DEF ReqCdc!DstEdge, ReqCdc!DstSync
  <2>4. CASE resp_queue_push
    <3>1. q_rd' = q_ad' /\ q_r0' = q_ad' /\ q_r1' = q_ad'
      BY <2>1, <2>2, <2>3, <2>4 DEF TypeOK, ReqCdc!HandshakeInv, ReqCdc!TypeOK, ReqCdc!Bit, ReqProofs!ToggleAt,
         ReqCdc!MovingIsNew, ReqCdc!DstEdge, ReqCdc!DstConsume, ReqCdc!dst_valid_o, ReqCdc!ReqSamples,
         ReqCdc!Flip, resp_queue_push
    <3> QED BY <3>1 DEF SpacingInv
  <2>5. CASE ~resp_queue_push
    <3>1. q_ad' = q_ad
      BY <2>1, <2>5, ExecuteFacts
    <3>2. gap' = IF gap < DmiGap THEN gap + 1 ELSE gap
      BY <1>1, <2>5 DEF ClkEdge
    <3>3. gap \in Nat /\ DmiGap \in Nat /\ gap <= DmiGap
      BY ConstantsAssumption DEF TypeOK
    <3>4. q_r1 # q_ad => q_r0 # q_ad
      BY <2>2 DEF TypeOK, ReqCdc!HandshakeInv, ReqCdc!TypeOK, ReqCdc!Bit, ReqProofs!ToggleAt
    <3> QED BY <2>3, <3>1, <3>2, <3>3, <3>4 DEF SpacingInv
  <2> QED BY <2>4, <2>5
<1>2. CASE TckEdge
  <2>1. gap' = gap /\ ReqCdc!SrcEdge(dmi_req_valid, dmi_req)
    BY <1>2 DEF TckEdge
  <2> QED BY <2>1 DEF SpacingInv, ReqCdc!SrcEdge, ReqCdc!dstRegs
<1>3. CASE UNCHANGED vars
  BY <1>3 DEF vars, reqVars, SpacingInv
<1> QED BY <1>1, <1>2, <1>3 DEF Next

(* The crossing alone keeps requests apart: whatever the ratio of the      *)
(* clocks, the debug module has three edges between two of them.           *)
THEOREM CrossingSpacesRequests ==
    ASSUME DmiGap <= 3
    PROVE  Spec => []RequestsSpaced
<1>1. Init => SpacingInv
  BY DEF Init, SpacingInv
<1>2. TypeOK /\ SpacingInv => RequestsSpaced
  <2> SUFFICES ASSUME TypeOK, SpacingInv, resp_queue_push PROVE gap = DmiGap
    BY DEF RequestsSpaced
  <2>1. q_r1 # q_ad
    BY DEF resp_queue_push, ReqCdc!dst_valid_o
  <2>2. gap \in Nat /\ DmiGap \in Nat /\ gap <= DmiGap
    BY ConstantsAssumption DEF TypeOK
  <2> QED BY <2>1, <2>2 DEF SpacingInv
<1> QED BY <1>1, <1>2, SpacingKept, TypesHold, PTL DEF Spec
-----------------------------------------------------------------------------
(* Timing.  One scan of the dmi register has time for a whole transaction: *)
(* a request takes at most five edges of clk to be executed and answered,  *)
(* so its answer is back before the FSM launches the next request, if      *)
(* five periods of clk are shorter than the register.                      *)
T == host.maxTckPerClk
Idles == host.idleAfter[hostOp]
Returning == p_req # p_ad

CableInTime == \A h \in Hosts : 5 * h.maxTckPerClk < ShiftEdges["dmi"]

(* A lower bound on the edges of TCK since the FSM accepted a request; for *)
(* one that waits for its launch, since the one before was accepted.       *)
Scanned ==
    CASE tap = "RunTestIdle"  -> n
      [] tap = "SelectDrScan" -> IF Idles = 0 THEN 0 ELSE Idles + 1
      [] tap = "CaptureDr"    -> IF Idles = 0 THEN 1 ELSE Idles + 2
      [] tap = "ShiftDr"      -> IF Idles = 0 THEN n + 2 ELSE Idles + n + 3
      [] tap = "Exit1Dr"      -> ShiftEdges[ir] + 2
      [] tap = "UpdateDr"     -> ShiftEdges[ir] + 3
Elapsed == IF Waiting THEN ShiftEdges["dmi"] + 4 ELSE Scanned

(* A request is launched in the edge after its acceptance.                 *)
FreshlyAccepted ==
    Waiting => \/ tap = "RunTestIdle" /\ n = 0
               \/ tap = "SelectDrScan" /\ Idles = 0

(* How long a request may be where it is, place by place: on its way to    *)
(* the debug module, its acknowledgement on the way back, ...              *)
RequestPace ==
    /\ q_req # q_rd => Elapsed <= tcks + 1
    /\ q_req # q_rd /\ q_rm => Elapsed <= 1
    /\ q_rd # q_r0 => Elapsed <= tcks + T + 1
    /\ q_r0 # q_r1 => Elapsed <= tcks + 2 * T + 1
    /\ q_r1 # q_ad => Elapsed <= tcks + 3 * T + 1

AckPace ==
    /\ q_ad # q_as => Elapsed <= 4 * T + 2
    /\ q_ad # q_as /\ q_am => Elapsed <= 4 * T + 1
    /\ q_as # q_ack => Elapsed <= 4 * T + 3

(* ... its response in the queue and on its way to the FSM.                *)
QueuePace == fifo # <<>> => Elapsed <= tcks + 4 * T + 1

ResponsePace ==
    /\ p_req # p_rd => Elapsed <= 5 * T + 2
    /\ p_req # p_rd /\ p_rm => Elapsed <= 5 * T + 1
    /\ p_rd # p_r0 => Elapsed <= 5 * T + 3
    /\ p_r0 # p_r1 => Elapsed <= 5 * T + 4
    /\ p_r1 # p_ad => Elapsed <= 5 * T + 5

(* One request at a time is between its launch and its answer; the answer  *)
(* may be taken in the very edge that launches the next request.           *)
OneInFlight ==
    /\ Travelling => fifo = <<>> /\ ~Returning /\ ~Waiting
    /\ fifo # <<>> => ~Returning /\ ~Waiting
    /\ Waiting => p_req = p_r1

(* The acknowledgement of the last answer reaches the debug module before  *)
(* the next request does, so the next answer need not wait in the queue.   *)
AckAhead ==
    /\ q_rd # q_ad => ~p_am
    /\ q_r0 # q_ad => p_as = p_ad
    /\ q_r1 # q_ad => p_ack = p_ad
    /\ fifo # <<>> => p_ack = p_ad /\ Len(fifo) = 1

PaceInv ==
    /\ FreshlyAccepted
    /\ RequestPace /\ AckPace /\ QueuePace /\ ResponsePace
    /\ OneInFlight /\ AckAhead

LEMMA TimingTypes ==
    ASSUME TypeOK
    PROVE  /\ T \in Nat /\ T >= 1 /\ tcks \in Nat /\ tcks <= T
           /\ Idles \in Nat /\ ShiftEdges["dmi"] \in Nat /\ ShiftEdges[ir] \in Nat
           /\ Elapsed \in Nat
           /\ CableInTime => 5 * T < ShiftEdges["dmi"]
<1>1. host \in HostType /\ host \in Hosts
  BY ConstantsAssumption DEF TypeOK
<1>2. T \in Nat /\ T >= 1 /\ tcks \in Nat /\ tcks <= T /\ Idles \in Nat
  BY <1>1 DEF TypeOK, HostType, T, Idles
<1>3. ShiftEdges["dmi"] \in Nat /\ ShiftEdges[ir] \in Nat
  BY ConstantsAssumption DEF TypeOK
<1>4. Elapsed \in Nat
  <2>1. n \in Nat /\ tap \in {"RunTestIdle", "SelectDrScan", "CaptureDr", "ShiftDr", "Exit1Dr", "UpdateDr"}
    BY DEF TypeOK
  <2>2. Scanned \in Nat
    BY <1>2, <1>3, <2>1 DEF Scanned
  <2> QED BY <1>3, <2>2 DEF Elapsed
<1> QED BY <1>1, <1>2, <1>3, <1>4 DEF CableInTime, T

(* The bits of the two crossings, as the theorems about them leave them.   *)
LEMMA Toggles ==
    ASSUME TypeOK
    PROVE  /\ ReqProofs!ToggleAt /\ ReqCdc!MovingIsNew /\ ReqCdc!TypeOK
           /\ RespProofs!ToggleAt /\ RespCdc!MovingIsNew /\ RespCdc!TypeOK
BY SameRequests, SameResponses, WordTypes, ReqProofs!OneToggleBits, RespProofs!OneToggleBits
   DEF TypeOK, ReqProofs!HandshakeInv, RespProofs!HandshakeInv, ReqCdc!HandshakeInv, RespCdc!HandshakeInv

(* While a request waits for its launch, the crossing is ready for it.     *)
LEMMA ReadyToLaunch ==
    ASSUME CableInTime, TypeOK, PaceInv, Waiting
    PROVE  ReqCdc!src_ready_o /\ fifo = <<>> /\ ~Travelling
<1>1. Elapsed = ShiftEdges["dmi"] + 4
  BY DEF Elapsed
<1>2. q_ad = q_as /\ q_as = q_ack /\ q_req = q_ad
  BY <1>1, TimingTypes DEF PaceInv, AckPace, OneInFlight, Travelling
<1> QED BY <1>1, <1>2, TimingTypes DEF PaceInv, OneInFlight, ReqCdc!src_ready_o, Travelling

(* In an edge of TCK, at most one edge passes ...                          *)
LEMMA ScannedTck ==
    ASSUME TypeOK, TapEdge, host' = host
    PROVE  Scanned' \in Nat /\ Scanned' <= Scanned + 1
<1>1. /\ Idles \in Nat /\ n \in Nat /\ ShiftEdges[ir] \in Nat
      /\ tap = "ShiftDr" => n < ShiftEdges[ir]
  BY TimingTypes DEF TypeOK
<1>2. CASE Rest
  <2>1. Scanned = n /\ Scanned' = n'
    BY <1>2 DEF Rest, Scanned
  <2> QED BY <1>1, <1>2, <2>1 DEF Rest
<1>3. CASE Select
  <2>1. Scanned = n /\ n' = n /\ Idles' = Idles /\ n >= Idles
    BY <1>3 DEF Select, Scanned, Rested, Idles
  <2>2. Scanned' = n \/ Scanned' = IF Idles = 0 THEN 0 ELSE Idles + 1
    BY <1>3, <2>1 DEF Select, Scanned
  <2> QED BY <1>1, <2>1, <2>2
<1>4. CASE Capture
  <2>1. Idles' = Idles /\ n' = 0
    BY <1>4 DEF Capture, Idles
  <2>2. CASE tap = "SelectDrScan"
    BY <1>1, <1>4, <2>1, <2>2 DEF Capture, Scanned
  <2>3. CASE tap = "CaptureDr"
    BY <1>1, <1>4, <2>1, <2>3 DEF Capture, Scanned
  <2> QED BY <1>4, <2>2, <2>3 DEF Capture
<1>5. CASE Shift
  <2>1. Scanned = IF Idles = 0 THEN n + 2 ELSE Idles + n + 3
    BY <1>5 DEF Shift, Scanned
  <2>2. CASE n + 1 < ShiftEdges[ir]
    <3>1. Idles' = Idles /\ n' = n + 1 /\ tap' = "ShiftDr"
      BY <1>5, <2>2 DEF Shift, Idles
    <3>2. Scanned' = IF Idles = 0 THEN n + 3 ELSE Idles + n + 4
      BY <1>1, <3>1 DEF Scanned
    <3> QED BY <1>1, <2>1, <3>2
  <2>3. CASE ~(n + 1 < ShiftEdges[ir])
    <3>1. tap' = "Exit1Dr" /\ ShiftEdges[ir]' = ShiftEdges[ir] /\ n + 1 = ShiftEdges[ir]
      BY <1>1, <1>5, <2>3 DEF Shift
    <3>2. Scanned' = ShiftEdges[ir] + 2
      BY <3>1 DEF Scanned
    <3> QED BY <1>1, <2>1, <3>1, <3>2
  <2> QED BY <2>2, <2>3
<1>6. CASE Finish
  <2>1. CASE tap = "Exit1Dr"
    <3>1. Scanned = ShiftEdges[ir] + 2 /\ Scanned' = ShiftEdges[ir] + 3
      BY <1>6, <2>1 DEF Finish, Scanned
    <3> QED BY <1>1, <3>1
  <2>2. CASE tap = "UpdateDr"
    <3>1. Scanned = ShiftEdges[ir] + 3
      BY <2>2 DEF Scanned
    <3>2. Idles' = Idles /\ n' = 0 /\ (tap' = "RunTestIdle" \/ (tap' = "SelectDrScan" /\ Idles = 0))
      BY <1>6, <2>2 DEF Finish, Idles
    <3>3. Scanned' = 0
      BY <3>2 DEF Scanned
    <3> QED BY <1>1, <3>1, <3>3
  <2> QED BY <1>6, <2>1, <2>2 DEF Finish
<1> QED BY <1>2, <1>3, <1>4, <1>5, <1>6 DEF TapEdge

(* ... and a request is launched in the one after its acceptance.          *)
LEMMA ElapsedTck ==
    ASSUME CableInTime, TypeOK, PaceInv, TckEdge
    PROVE  /\ Elapsed' \in Nat /\ Elapsed' <= Elapsed + 1
           /\ Waiting => Launch /\ ~Waiting' /\ Elapsed' <= 1
           /\ Waiting' => Accept /\ Elapsed = ShiftEdges["dmi"] + 3
           /\ FreshlyAccepted'
<1>1. host' = host /\ TapEdge
  BY DEF TckEdge
<1>2. Idles \in Nat /\ ShiftEdges["dmi"] \in Nat /\ Elapsed \in Nat
  BY TimingTypes
<1>3. CASE Waiting
  <2>1. Launch /\ ~Waiting'
    BY <1>3, ReadyToLaunch DEF TckEdge, FsmEdge, Accept, Launch, Answer, Stay, Waiting, dmi_req_valid
  <2>2. (tap = "RunTestIdle" /\ n = 0) \/ (tap = "SelectDrScan" /\ Idles = 0)
    BY <1>3 DEF PaceInv, FreshlyAccepted
  <2>3. Scanned = 0
    BY <2>2 DEF Scanned
  <2>4. Scanned' \in Nat /\ Scanned' <= 1 /\ Elapsed' = Scanned'
    BY <1>1, <2>1, <2>3, ScannedTck DEF Elapsed
  <2> QED BY <1>2, <1>3, <2>1, <2>4 DEF FreshlyAccepted
<1>4. CASE ~Waiting /\ Waiting'
  <2>1. Accept
    BY <1>4 DEF TckEdge, FsmEdge, Launch, Answer, Stay, Waiting
  <2>2. tap = "UpdateDr" /\ ir = "dmi" /\ Finish
    BY <1>1, <2>1 DEF Accept, Asked, update_dr, dmi_access, TapEdge, Rest, Select, Capture, Shift, Finish
  <2>3. Scanned = ShiftEdges["dmi"] + 3
    BY <2>2 DEF Scanned
  <2>4. FreshlyAccepted'
    BY <1>1, <2>2 DEF Finish, FreshlyAccepted, Idles
  <2> QED BY <1>2, <1>4, <2>1, <2>3, <2>4 DEF Elapsed
<1>5. CASE ~Waiting /\ ~Waiting'
  BY <1>1, <1>5, ScannedTck DEF Elapsed, FreshlyAccepted
<1> QED BY <1>3, <1>4, <1>5

(* What an edge does to the bits of a crossing: a toggle leaves its place, *)
(* unless the wire it has to cross is still moving.                        *)
LEMMA TckSource ==
    ASSUME TypeOK, ReqCdc!SrcEdge(dmi_req_valid, dmi_req)
    PROVE  /\ q_rd' = q_rd /\ q_r0' = q_r0 /\ q_r1' = q_r1 /\ q_ad' = q_ad
           /\ ~q_am'
           /\ q_ad' # q_as' => q_ad # q_as /\ q_am
           /\ q_as' # q_ack' => q_ad # q_as
           /\ dmi_req_valid /\ ReqCdc!src_ready_o
                => q_rd = q_ad /\ q_r0 = q_ad /\ q_r1 = q_ad /\ q_req' # q_req
           /\ ~(dmi_req_valid /\ ReqCdc!src_ready_o) => q_req' = q_req /\ ~q_rm'
BY Toggles DEF ReqCdc!TypeOK, ReqCdc!Bit, ReqProofs!ToggleAt, ReqCdc!MovingIsNew, ReqCdc!SrcEdge, ReqCdc!SrcAccept,
   ReqCdc!SrcSync, ReqCdc!AckSamples, ReqCdc!src_ready_o, ReqCdc!dstRegs, ReqCdc!Flip

LEMMA ClkDestination ==
    ASSUME TypeOK, ReqCdc!DstEdge(dmi_req_ready_o)
    PROVE  /\ q_req' = q_req /\ q_as' = q_as /\ q_ack' = q_ack
           /\ ~q_rm'
           /\ q_req' # q_rd' => q_req # q_rd /\ q_rm
           /\ q_rd' # q_r0' => q_req # q_rd
           /\ q_r0' # q_r1' => q_rd # q_r0
           /\ q_r1' # q_ad' => q_r0 # q_r1 \/ (q_r1 # q_ad /\ ~resp_queue_push)
           /\ q_ad' # q_as' => resp_queue_push \/ q_ad # q_as
           /\ q_am' => resp_queue_push
           /\ resp_queue_push => q_r1 # q_ad /\ q_r0 # q_ad /\ q_as = q_ack
           /\ q_rd' # q_ad' => Travelling /\ ~resp_queue_push
           /\ q_r0' # q_ad' => q_rd # q_ad
           /\ q_r1' # q_ad' => q_r0 # q_ad
BY Toggles DEF ReqCdc!TypeOK, ReqCdc!Bit, ReqProofs!ToggleAt, ReqCdc!MovingIsNew, ReqCdc!DstEdge, ReqCdc!DstConsume,
   ReqCdc!DstSync, ReqCdc!ReqSamples, ReqCdc!dst_valid_o, ReqCdc!srcRegs, ReqCdc!Flip, resp_queue_push, Travelling

LEMMA ClkSource ==
    ASSUME TypeOK, RespCdc!SrcEdge(dmi_resp_valid_o, IF fifo = <<>> THEN NoWord ELSE Head(fifo))
    PROVE  /\ p_rd' = p_rd /\ p_r0' = p_r0 /\ p_r1' = p_r1 /\ p_ad' = p_ad
           /\ ~p_am'
           /\ p_ack' = p_as
           /\ p_as' # p_ad => p_as # p_ad /\ p_am
           /\ resp_queue_pop => ~Returning /\ p_rd = p_ad /\ p_r0 = p_ad /\ p_r1 = p_ad /\ p_req' # p_req
           /\ resp_queue_pop => p_data' = Head(fifo)
           /\ ~resp_queue_pop => p_req' = p_req /\ p_data' = p_data /\ ~p_rm'
<1>1. ~resp_queue_pop \/ fifo # <<>>
  BY DEF resp_queue_pop, dmi_resp_valid_o
<1> QED BY <1>1, Toggles DEF RespCdc!TypeOK, RespCdc!Bit, RespProofs!ToggleAt, RespCdc!MovingIsNew, RespCdc!SrcEdge,
       RespCdc!SrcAccept, RespCdc!SrcSync, RespCdc!AckSamples, RespCdc!src_ready_o, RespCdc!dstRegs, RespCdc!Flip,
       resp_queue_pop, Returning

LEMMA TckDestination ==
    ASSUME TypeOK, RespCdc!DstEdge(dmi_resp_ready)
    PROVE  /\ p_req' = p_req /\ p_as' = p_as /\ p_ack' = p_ack /\ p_data' = p_data
           /\ ~p_rm'
           /\ p_req' # p_rd' => p_req # p_rd /\ p_rm
           /\ p_rd' # p_r0' => p_req # p_rd
           /\ p_r0' # p_r1' => p_rd # p_r0
           /\ p_r1' # p_ad' => p_r0 # p_r1
           /\ p_r1' # p_req' => p_req # p_r0
           /\ p_am' => p_r1 # p_ad
           /\ p_ad' # p_ad <=> p_r1 # p_ad
           /\ p_r1 # p_ad => Returning /\ ~Returning'
BY Toggles DEF RespCdc!TypeOK, RespCdc!Bit, RespProofs!ToggleAt, RespCdc!MovingIsNew, RespCdc!DstEdge,
   RespCdc!DstConsume, RespCdc!DstSync, RespCdc!ReqSamples, RespCdc!dst_valid_o, RespCdc!srcRegs, RespCdc!Flip,
   dmi_resp_ready, Returning

LEMMA PaceTck == ASSUME CableInTime, TypeOK, PaceInv, TckEdge PROVE PaceInv'
<1>1. /\ ReqCdc!SrcEdge(dmi_req_valid, dmi_req) /\ RespCdc!DstEdge(dmi_resp_ready)
      /\ fifo' = fifo /\ tcks' = tcks + 1 /\ T' = T
  BY DEF TckEdge, T
<1>2. /\ T \in Nat /\ T >= 1 /\ tcks \in Nat /\ tcks + 1 <= T /\ Elapsed \in Nat
      /\ ShiftEdges["dmi"] \in Nat /\ 5 * T < ShiftEdges["dmi"]
  BY TimingTypes DEF TckEdge, T
<1>3. /\ Elapsed' \in Nat /\ Elapsed' <= Elapsed + 1
      /\ Waiting => Launch /\ ~Waiting' /\ Elapsed' <= 1
      /\ Waiting' => Accept /\ Elapsed = ShiftEdges["dmi"] + 3
      /\ FreshlyAccepted'
  BY ElapsedTck
<1>4. CASE Waiting
  <2>1. /\ dmi_req_valid /\ ReqCdc!src_ready_o /\ fifo = <<>> /\ p_req = p_r1
    BY <1>4, ReadyToLaunch DEF Waiting, dmi_req_valid, PaceInv, OneInFlight
  <2>2. RequestPace' /\ AckPace' /\ QueuePace' /\ ResponsePace'
    BY <1>1, <1>2, <1>3, <1>4, <2>1, TckSource DEF RequestPace, AckPace, QueuePace, ResponsePace
  <2>3. OneInFlight'
    BY <1>1, <1>3, <1>4, <2>1, TckDestination DEF OneInFlight, Returning
  <2>4. AckAhead'
    BY <1>1, <2>1, TckSource DEF AckAhead
  <2> QED BY <1>3, <2>2, <2>3, <2>4 DEF PaceInv
<1>5. CASE ~Waiting
  <2>1. q_req' = q_req /\ ~q_rm' /\ Travelling' = Travelling
    BY <1>1, <1>5, TckSource DEF Waiting, dmi_req_valid, Travelling
  <2>2. RequestPace'
    BY <1>1, <1>2, <1>3, <2>1, TckSource DEF PaceInv, RequestPace
  <2>3. AckPace'
    BY <1>1, <1>2, <1>3, TckSource DEF PaceInv, AckPace
  <2>4. QueuePace'
    BY <1>1, <1>2, <1>3 DEF PaceInv, QueuePace
  <2>5. ResponsePace'
    BY <1>1, <1>2, <1>3, TckDestination DEF PaceInv, ResponsePace
  <2>6. OneInFlight'
    <3>1. Returning' => Returning
      BY <1>1, TckDestination DEF Returning
    <3>2. CASE Waiting'
      <4>1. Elapsed = ShiftEdges["dmi"] + 3
        BY <1>3, <3>2
      <4>2. ~Travelling /\ fifo = <<>>
        BY <1>2, <4>1, TckSource DEF PaceInv, RequestPace, QueuePace, Travelling
      <4>3. p_req = p_r0
        BY <1>2, <4>1 DEF PaceInv, ResponsePace
      <4> QED BY <1>1, <2>1, <4>2, <4>3, TckDestination DEF OneInFlight
    <3> QED BY <1>1, <2>1, <3>1, <3>2 DEF PaceInv, OneInFlight
  <2>7. AckAhead'
    <3>1. Travelling \/ fifo # <<>> => p_r1 = p_ad
      BY Toggles DEF PaceInv, OneInFlight, Returning, RespProofs!ToggleAt
    <3>2. Travelling \/ (q_rd = q_ad /\ q_r0 = q_ad /\ q_r1 = q_ad)
      BY Toggles DEF Travelling, ReqProofs!ToggleAt, ReqCdc!TypeOK, ReqCdc!Bit
    <3> QED BY <1>1, <3>1, <3>2, TckSource, TckDestination DEF PaceInv, AckAhead
  <2> QED BY <1>3, <2>2, <2>3, <2>4, <2>5, <2>6, <2>7 DEF PaceInv
<1> QED BY <1>4, <1>5

LEMMA PaceClk == ASSUME CableInTime, TypeOK, PaceInv, ClkEdge PROVE PaceInv'
<1>1. /\ ReqCdc!DstEdge(dmi_req_ready_o)
      /\ RespCdc!SrcEdge(dmi_resp_valid_o, IF fifo = <<>> THEN NoWord ELSE Head(fifo))
      /\ tcks' = 0 /\ T' = T /\ Elapsed' = Elapsed /\ Waiting' = Waiting
  BY DEF ClkEdge, tapVars, fsmVars, T, Elapsed, Scanned, Waiting, Idles
<1>2. /\ T \in Nat /\ T >= 1 /\ tcks \in Nat /\ tcks <= T /\ Elapsed \in Nat
      /\ ShiftEdges["dmi"] \in Nat /\ 5 * T < ShiftEdges["dmi"]
  BY TimingTypes
<1>3. FreshlyAccepted'
  BY DEF ClkEdge, tapVars, fsmVars, PaceInv, FreshlyAccepted, Waiting, Idles
<1>4. resp_queue_push => Travelling /\ ~Travelling' /\ fifo = <<>>
  BY <1>1, ExecuteFacts DEF PaceInv, OneInFlight
<1>5. resp_queue_pop <=> fifo # <<>>
  BY Toggles DEF PaceInv, OneInFlight, AckAhead, Returning, resp_queue_pop, dmi_resp_valid_o, RespCdc!src_ready_o
<1>6. /\ resp_queue_push => Len(fifo') = 1
      /\ ~resp_queue_push => fifo' = <<>>
  BY <1>4, <1>5 DEF ClkEdge, Popped, PaceInv, AckAhead, TypeOK
<1>7. Travelling /\ fifo = <<>> /\ ReqCdc!dst_valid_o => resp_queue_push
  BY ConstantsAssumption DEF resp_queue_push, dmi_req_ready_o
<1>8. RequestPace'
  <2>1. q_r1' # q_ad' => q_r0 # q_r1
    <3>1. q_r1 # q_ad => Travelling /\ fifo = <<>> /\ ReqCdc!dst_valid_o
      BY Toggles DEF PaceInv, OneInFlight, ReqCdc!dst_valid_o, Travelling, ReqProofs!ToggleAt, ReqCdc!TypeOK, ReqCdc!Bit
    <3> QED BY <1>1, <1>7, <3>1, ClkDestination
  <2> QED BY <1>1, <1>2, <2>1, ClkDestination DEF PaceInv, RequestPace
<1>9. AckPace'
  BY <1>1, <1>2, ClkDestination DEF PaceInv, AckPace, RequestPace
<1>10. QueuePace'
  BY <1>1, <1>2, <1>6, ClkDestination DEF PaceInv, QueuePace, RequestPace
<1>11. ResponsePace'
  BY <1>1, <1>2, <1>5, ClkSource DEF PaceInv, QueuePace, ResponsePace
<1>12. OneInFlight'
  <2>1. Travelling' => Travelling /\ fifo' = <<>>
    BY <1>1, <1>4, <1>6, ExecuteFacts DEF Travelling
  <2>2. fifo = <<>> => Returning' = Returning /\ p_req' = p_req /\ p_r1' = p_r1
    BY <1>1, <1>5, ClkSource DEF Returning
  <2>3. Waiting' => Waiting /\ fifo = <<>> /\ fifo' = <<>>
    BY <1>1, <1>4, <1>6 DEF PaceInv, OneInFlight
  <2>4. fifo' # <<>> => Travelling /\ fifo = <<>>
    BY <1>4, <1>6
  <2> QED BY <2>1, <2>2, <2>3, <2>4 DEF PaceInv, OneInFlight
<1>13. AckAhead'
  BY <1>1, <1>6, ClkSource, ClkDestination DEF PaceInv, AckAhead
<1> QED BY <1>3, <1>8, <1>9, <1>10, <1>11, <1>12, <1>13 DEF PaceInv

LEMMA PaceHolds == ASSUME CableInTime PROVE Spec => []PaceInv
<1>1. Init => PaceInv
  BY DEF Init, PaceInv, FreshlyAccepted, RequestPace, AckPace, QueuePace, ResponsePace, OneInFlight, AckAhead,
     Waiting, Travelling, Returning, ReqCdc!Init, RespCdc!Init
<1>2. TypeOK /\ PaceInv /\ [Next]_vars => PaceInv'
  <2> SUFFICES ASSUME TypeOK, PaceInv, [Next]_vars PROVE PaceInv'
    OBVIOUS
  <2>1. CASE UNCHANGED vars
    <3>1. /\ UNCHANGED <<tap, n, tcks, fifo, reqVars, respVars>>
          /\ T' = T /\ Idles' = Idles /\ Elapsed' = Elapsed /\ Waiting' = Waiting
      BY <2>1 DEF vars, tapVars, fsmVars, T, Idles, Elapsed, Scanned, Waiting
    <3>2. Travelling' = Travelling /\ Returning' = Returning
      BY <3>1 DEF reqVars, respVars, Travelling, Returning
    <3>3. FreshlyAccepted' /\ QueuePace' /\ OneInFlight'
      BY <3>1, <3>2 DEF respVars, PaceInv, FreshlyAccepted, QueuePace, OneInFlight
    <3>4. RequestPace' /\ AckPace'
      BY <3>1 DEF reqVars, PaceInv, RequestPace, AckPace
    <3>5. ResponsePace' /\ AckAhead'
      BY <3>1 DEF reqVars, respVars, PaceInv, ResponsePace, AckAhead
    <3> QED BY <3>3, <3>4, <3>5 DEF PaceInv
  <2> QED BY <2>1, PaceTck, PaceClk DEF Next
<1> QED BY <1>1, <1>2, TypesHold, PTL DEF Spec

(* Old responses never hold up a request: one place would be too few, two  *)
(* are enough.                                                             *)
THEOREM QueueHasRoom ==
    ASSUME CableInTime, FifoDepth > 1
    PROVE  Spec => []QueueNeverFull
<1>1. TypeOK /\ PaceInv => QueueNeverFull
  <2>1. fifo = <<>> => Len(fifo) = 0
    OBVIOUS
  <2>2. TypeOK /\ PaceInv => Len(fifo) = 0 \/ Len(fifo) = 1
    BY <2>1 DEF PaceInv, AckAhead
  <2>3. FifoDepth \in Nat /\ 0 < FifoDepth /\ 1 < FifoDepth
    BY ConstantsAssumption
  <2> QED BY <2>2, <2>3 DEF QueueNeverFull
<1> QED BY <1>1, PaceHolds, TypesHold, PTL

-----------------------------------------------------------------------------
(* What travels in either direction, or waits in the queue, belongs to the *)
(* last request, and once the FSM is idle again its answer has come.       *)
OwnAnswerInv ==
    /\ Travelling => q_data.id = last.id
    /\ fifo # <<>> => Head(fifo).id = last.id
    /\ Returning /\ ~Waiting => p_data.id = last.id
    /\ state_q \in {"Read", "WaitReadValid"} => last.op = "read"
    /\ state_q = "Write" => last.op = "write"
    /\ state_q = "WaitReadValid" => Travelling \/ fifo # <<>> \/ Returning
    /\ state_q = "Idle" /\ last.op = "read" => data_q = [from |-> "dm", id |-> last.id]

LEMMA OwnAnswerTck ==
    ASSUME CableInTime, TypeOK, PaceInv, OwnAnswerInv, TckEdge
    PROVE  OwnAnswerInv'
<1>1. /\ ReqCdc!SrcEdge(dmi_req_valid, dmi_req) /\ RespCdc!DstEdge(dmi_resp_ready)
      /\ fifo' = fifo /\ (Accept \/ Launch \/ Answer \/ Stay)
  BY DEF TckEdge, FsmEdge
<1>2. PaceInv'
  BY PaceTck
<1>3. CASE Launch
  <2>1. Waiting /\ ~Waiting' /\ state_q' \in {"WaitReadValid", "Idle"} /\ last' = last
    BY <1>3 DEF Launch, Waiting, dmi_req_valid
  <2>2. Travelling' /\ q_data'.id = last.id
    BY <1>1, <1>3, LaunchFacts DEF Launch, dmi_req
  <2>3. fifo' = <<>> /\ ~Returning'
    BY <1>2, <2>2 DEF PaceInv, OneInFlight
  <2>4. state_q' = "WaitReadValid" <=> state_q = "Read"
    BY <1>3, <2>1 DEF Launch, Waiting
  <2>5. state_q' = "Idle" => last.op = "write"
    BY <2>1, <2>4 DEF Waiting, OwnAnswerInv
  <2> QED BY <2>1, <2>2, <2>3, <2>4, <2>5 DEF OwnAnswerInv
<1>4. CASE ~Launch
  <2>1. ~Waiting
    BY <1>4, ElapsedTck
  <2>2. /\ Travelling' = Travelling /\ q_data' = q_data /\ p_data' = p_data
        /\ Returning' => Returning
    BY <1>1, <2>1, LaunchFacts, TckDestination DEF Waiting, dmi_req_valid, Travelling, Returning
  <2>3. CASE Accept
    <3>1. CASE hostOp = "nop"
      BY <1>1, <2>1, <2>2, <2>3, <3>1 DEF Accept, OwnAnswerInv, Waiting
    <3>2. CASE hostOp # "nop"
      <4>1. /\ Waiting' /\ (state_q' = "Read" => last'.op = "read") /\ (state_q' = "Write" => last'.op = "write")
            /\ state_q' # "WaitReadValid"
        BY <2>3, <3>2 DEF Accept, Waiting, TypeOK, Ops
      <4>2. ~Travelling' /\ fifo' = <<>>
        BY <1>2, <4>1 DEF PaceInv, OneInFlight
      <4> QED BY <4>1, <4>2 DEF OwnAnswerInv, Waiting
    <3> QED BY <3>1, <3>2
  <2>4. CASE Answer
    <3>1. RespCdc!dst_data_o = p_data /\ p_r1 # p_ad
      BY <2>4 DEF Answer, TypeOK, RespCdc!HandshakeInv, RespCdc!DataIntact, RespCdc!dst_valid_o
    <3>2. Returning
      BY <1>1, <3>1, TckDestination
    <3>3. data_q' = [from |-> "dm", id |-> last.id] /\ state_q' = "Idle" /\ last' = last
      BY <2>1, <2>4, <3>1, <3>2 DEF Answer, OwnAnswerInv
    <3> QED BY <1>1, <2>1, <2>2, <3>3 DEF OwnAnswerInv
  <2>5. CASE Stay
    <3>1. UNCHANGED <<state_q, data_q, last>>
      BY <2>5 DEF Stay
    <3>2. state_q = "WaitReadValid" => Returning' = Returning
      BY <1>1, <2>5, TckDestination DEF Stay, RespCdc!dst_valid_o, Returning
    <3> QED BY <1>1, <2>1, <2>2, <3>1, <3>2 DEF OwnAnswerInv, Waiting
  <2> QED BY <1>1, <1>4, <2>3, <2>4, <2>5
<1> QED BY <1>3, <1>4

LEMMA OwnAnswerClk ==
    ASSUME CableInTime, TypeOK, PaceInv, OwnAnswerInv, ClkEdge
    PROVE  OwnAnswerInv'
<1>1. /\ ReqCdc!DstEdge(dmi_req_ready_o)
      /\ RespCdc!SrcEdge(dmi_resp_valid_o, IF fifo = <<>> THEN NoWord ELSE Head(fifo))
      /\ UNCHANGED <<state_q, data_q, last>> /\ Waiting' = Waiting
  BY DEF ClkEdge, fsmVars, Waiting
<1>2. resp_queue_pop <=> fifo # <<>>
  BY Toggles DEF PaceInv, OneInFlight, AckAhead, Returning, resp_queue_pop, dmi_resp_valid_o, RespCdc!src_ready_o
<1>3. CASE fifo # <<>>
  <2>1. ~Travelling /\ ~resp_queue_push /\ p_data' = Head(fifo) /\ Returning'
    BY <1>1, <1>2, <1>3, ClkSource, ExecuteFacts DEF PaceInv, OneInFlight, Returning
  <2>2. fifo' = <<>>
    BY <1>2, <1>3, <2>1 DEF ClkEdge, Popped, PaceInv, AckAhead, TypeOK
  <2>3. ~Travelling'
    BY <1>1, <2>1, ExecuteFacts DEF Travelling
  <2> QED BY <1>1, <1>3, <2>1, <2>2, <2>3 DEF OwnAnswerInv
<1>4. CASE fifo = <<>> /\ resp_queue_push
  <2>1. Travelling /\ ~Travelling' /\ ReqCdc!dst_data_o = q_data
    BY <1>1, <1>4, ExecuteFacts
  <2>2. fifo' = <<q_data>>
    BY <1>2, <1>4, <2>1 DEF ClkEdge, Popped
  <2>3. p_req' = p_req /\ p_data' = p_data /\ p_ad' = p_ad
    BY <1>1, <1>2, <1>4, ClkSource
  <2>4. Head(fifo') = q_data /\ fifo' # <<>>
    BY <2>2
  <2> QED BY <1>1, <2>1, <2>3, <2>4 DEF OwnAnswerInv, Returning
<1>5. CASE fifo = <<>> /\ ~resp_queue_push
  <2>1. fifo' = <<>> /\ Travelling' = Travelling /\ q_data' = q_data
    BY <1>1, <1>2, <1>5, ExecuteFacts DEF ClkEdge, Popped, Travelling
  <2>2. p_req' = p_req /\ p_data' = p_data /\ p_ad' = p_ad
    BY <1>1, <1>2, <1>5, ClkSource
  <2> QED BY <1>1, <1>5, <2>1, <2>2 DEF OwnAnswerInv, Returning
<1> QED BY <1>3, <1>4, <1>5

LEMMA OwnAnswerHolds == ASSUME CableInTime PROVE Spec => []OwnAnswerInv
<1>1. Init => OwnAnswerInv
  BY DEF Init, OwnAnswerInv, Travelling, Returning, NoWord, ReqCdc!Init, RespCdc!Init
<1>2. TypeOK /\ PaceInv /\ OwnAnswerInv /\ [Next]_vars => OwnAnswerInv'
  <2> SUFFICES ASSUME TypeOK, PaceInv, OwnAnswerInv, [Next]_vars PROVE OwnAnswerInv'
    OBVIOUS
  <2>1. CASE UNCHANGED vars
    BY <2>1 DEF vars, fsmVars, reqVars, respVars, OwnAnswerInv, Waiting, Travelling, Returning
  <2> QED BY <2>1, OwnAnswerTck, OwnAnswerClk DEF Next
<1> QED BY <1>1, <1>2, TypesHold, PaceHolds, PTL DEF Spec

(* A read that is not told to retry returns the answer to that very read,  *)
(* for every host whose cable is slow enough.                              *)
THEOREM ReadsReturnTheirAnswer ==
    ASSUME CableInTime
    PROVE  Spec => []ReadReturnsOwnAnswer
<1>1. Init => ReadReturnsOwnAnswer
  BY DEF Init, ReadReturnsOwnAnswer
<1>2. TypeOK /\ OwnAnswerInv /\ ReadReturnsOwnAnswer /\ [Next]_vars => ReadReturnsOwnAnswer'
  <2> SUFFICES ASSUME TypeOK, OwnAnswerInv, ReadReturnsOwnAnswer, [Next]_vars,
                      tap' = "ShiftDr", dmi_access', dr'.status = "ok", last'.op = "read"
               PROVE  dr'.data = [from |-> "dm", id |-> last'.id]
    BY DEF ReadReturnsOwnAnswer
  <2>1. CASE TckEdge
    <3>1. tap \in {"CaptureDr", "ShiftDr"} /\ dmi_access
      BY <2>1 DEF TckEdge, TapEdge, Rest, Select, Capture, Shift, Finish, dmi_access
    <3>2. last' = last
      BY <2>1, <3>1 DEF TckEdge, FsmEdge, Accept, Launch, Answer, Stay, Asked, update_dr
    <3>3. CASE tap = "CaptureDr"
      <4>1. dr'.data = data_q /\ state_q \notin {"Read", "WaitReadValid"}
        BY <2>1, <3>1, <3>3 DEF TckEdge, FsmEdge, CaptureDmi, capture_dr, error_dmi_busy
      <4>2. state_q = "Idle"
        BY <3>2, <4>1 DEF TypeOK, OwnAnswerInv
      <4> QED BY <3>2, <4>1, <4>2 DEF OwnAnswerInv
    <3>4. CASE tap = "ShiftDr"
      <4>1. dr' = dr
        BY <2>1, <3>4 DEF TckEdge, FsmEdge, CaptureDmi, capture_dr
      <4> QED BY <3>1, <3>2, <3>4, <4>1 DEF ReadReturnsOwnAnswer
    <3> QED BY <3>1, <3>3, <3>4
  <2>2. CASE ClkEdge \/ UNCHANGED vars
    <3>1. UNCHANGED <<tap, ir, dr, last>>
      BY <2>2 DEF ClkEdge, vars, tapVars, fsmVars
    <3> QED BY <3>1 DEF ReadReturnsOwnAnswer, dmi_access
  <2> QED BY <2>1, <2>2 DEF Next
<1> QED BY <1>1, <1>2, TypesHold, OwnAnswerHolds, PTL DEF Spec

-----------------------------------------------------------------------------
(* A patient host idles long enough after a read. *)
PatienceSuffices ==
    \A h \in Hosts : h.patient => h.idleAfter["read"] >= 5 * h.maxTckPerClk + 4

(* It has not begun to look at the result while the FSM waits for it.      *)
PatientInv ==
    host.patient /\ state_q \in {"Read", "WaitReadValid"}
        => tap \in {"RunTestIdle", "SelectDrScan"} /\ hostOp = "read"

LEMMA AnswerInTime ==
    ASSUME CableInTime, PatienceSuffices, TypeOK, PaceInv, OwnAnswerInv, PatientInv,
           host.patient, state_q = "WaitReadValid", tap = "SelectDrScan"
    PROVE  RespCdc!dst_valid_o
<1>1. Idles >= 5 * T + 4
  BY DEF PatientInv, PatienceSuffices, TypeOK, Idles, T
<1>2. T \in Nat /\ tcks \in Nat /\ tcks <= T /\ Idles \in Nat
  BY TimingTypes
<1>3. Elapsed >= 5 * T + 5
  BY <1>1, <1>2 DEF Elapsed, Scanned, Waiting
<1>4. Elapsed \in Nat
  BY TimingTypes
<1>5. fifo = <<>> /\ q_req = q_rd /\ q_rd = q_r0 /\ q_r0 = q_r1 /\ q_r1 = q_ad
  BY <1>2, <1>3, <1>4 DEF PaceInv, QueuePace, RequestPace
<1>6. p_req = p_rd /\ p_rd = p_r0 /\ p_r0 = p_r1
  BY <1>2, <1>3, <1>4 DEF PaceInv, ResponsePace
<1> QED BY <1>5, <1>6 DEF OwnAnswerInv, Travelling, Returning, RespCdc!dst_valid_o

LEMMA PatientTck ==
    ASSUME CableInTime, PatienceSuffices, TypeOK, PaceInv, OwnAnswerInv, PatientInv, TckEdge
    PROVE  PatientInv'
<1> SUFFICES ASSUME host.patient, state_q' \in {"Read", "WaitReadValid"}
             PROVE  tap' \in {"RunTestIdle", "SelectDrScan"} /\ hostOp' = "read"
  BY DEF PatientInv, TckEdge
<1>1. TapEdge /\ (Accept \/ Launch \/ Answer \/ Stay)
  BY DEF TckEdge, FsmEdge
<1>2. CASE Accept
  <2>1. hostOp = "read" /\ tap = "UpdateDr"
    BY <1>2 DEF Accept, Asked, update_dr, TypeOK, Ops
  <2> QED BY <1>1, <2>1 DEF TapEdge, Rest, Select, Capture, Shift, Finish
<1>3. CASE Launch
  <2>1. state_q = "Read" /\ Waiting
    BY <1>3 DEF Launch, dmi_req_valid, Waiting
  <2>2. hostOp = "read" /\ Idles > 0 /\ T \in Nat
    BY <2>1, TimingTypes DEF PatientInv, PatienceSuffices, TypeOK, Idles, T
  <2>3. tap = "RunTestIdle"
    BY <2>1, <2>2 DEF PaceInv, FreshlyAccepted
  <2> QED BY <1>1, <2>2, <2>3 DEF TapEdge, Rest, Select, Capture, Shift, Finish
<1>4. CASE Stay
  <2>1. state_q' = state_q
    BY <1>4 DEF Stay
  <2>2. state_q = "WaitReadValid" /\ hostOp = "read" /\ tap \in {"RunTestIdle", "SelectDrScan"}
    BY <1>4, <2>1, ElapsedTck DEF PatientInv, Waiting
  <2>3. tap = "RunTestIdle"
    BY <1>4, <2>2, AnswerInTime DEF Stay
  <2> QED BY <1>1, <2>2, <2>3 DEF TapEdge, Rest, Select, Capture, Shift, Finish
<1> QED BY <1>1, <1>2, <1>3, <1>4 DEF Answer

LEMMA PatientHolds == ASSUME CableInTime, PatienceSuffices PROVE Spec => []PatientInv
<1>1. Init => PatientInv
  BY DEF Init, PatientInv
<1>2. TypeOK /\ PaceInv /\ OwnAnswerInv /\ PatientInv /\ [Next]_vars => PatientInv'
  <2> SUFFICES ASSUME TypeOK, PaceInv, OwnAnswerInv, PatientInv, [Next]_vars PROVE PatientInv'
    OBVIOUS
  <2>1. CASE ClkEdge \/ UNCHANGED vars
    BY <2>1 DEF ClkEdge, vars, tapVars, fsmVars, PatientInv
  <2> QED BY <2>1, PatientTck DEF Next
<1> QED BY <1>1, <1>2, TypesHold, PaceHolds, OwnAnswerHolds, PTL DEF Spec

(* A patient host is never told to retry: it need not look at the status.  *)
THEOREM PatientHostsAreNeverBusy ==
    ASSUME CableInTime, PatienceSuffices
    PROVE  Spec => []NeverBusy
<1>1. Init => NeverBusy
  BY DEF Init, NeverBusy
<1>2. TypeOK /\ PaceInv /\ PatientInv /\ NeverBusy /\ [Next]_vars => NeverBusy'
  <2> SUFFICES ASSUME TypeOK, PaceInv, PatientInv, NeverBusy, [Next]_vars, host'.patient PROVE error_q' = "ok"
    BY DEF NeverBusy
  <2>1. CASE TckEdge
    <3>1. host' = host /\ error_q = "ok"
      BY <2>1 DEF TckEdge, NeverBusy
    <3>2. ~error_dmi_busy
      BY <3>1 DEF error_dmi_busy, update_dr, capture_dr, TypeOK, PaceInv, FreshlyAccepted, PatientInv, Waiting
    <3> QED BY <2>1, <3>1, <3>2 DEF TckEdge, FsmEdge, StickyError
  <2>2. CASE ClkEdge \/ UNCHANGED vars
    BY <2>2 DEF ClkEdge, vars, tapVars, fsmVars, NeverBusy
  <2> QED BY <2>1, <2>2 DEF Next
<1> QED BY <1>1, <1>2, TypesHold, PaceHolds, PatientHolds, PTL DEF Spec
=============================================================================
