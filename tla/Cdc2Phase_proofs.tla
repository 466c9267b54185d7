--------------------------- MODULE Cdc2Phase_proofs ---------------------------
(***************************************************************************)
(* Proofs about the clock domain crossing of Cdc2Phase, for any set of     *)
(* words, any interleaving of the two clocks and any outcome of sampling a *)
(* moving wire.                                                            *)
(***************************************************************************)
EXTENDS Cdc2Phase, TLAPS

(* OneToggle written out: past the place where a toggle stands, all bits agree. *)
ToggleAt ==
    /\ req_src_q # req_dst_q => req_dst_q = req_q0
    /\ req_src_q # req_dst_q \/ req_dst_q # req_q0 => req_q0 = req_q1
    /\ req_src_q # req_dst_q \/ req_dst_q # req_q0 \/ req_q0 # req_q1 => req_q1 = ack_dst_q
    /\ ack_dst_q # req_q1 \/ req_src_q # ack_dst_q => ack_dst_q = ack_src_q /\ ack_src_q = ack_q
    /\ ack_dst_q # ack_src_q => ack_src_q = ack_q

(* The pairwise and the written-out form of the ring invariant agree. *)
LEMMA OneToggleBits == TypeOK => (OneToggle <=> ToggleAt)
PROOF BY DEF OneToggle, ToggleAt, Ring, TypeOK, Bit

LEMMA OneToggleBitsNext == TypeOK' => (OneToggle' <=> ToggleAt')
PROOF BY DEF OneToggle, ToggleAt, Ring, TypeOK, Bit

(* The wires carry the new or the old bit, and the data wires some word. *)
LEMMA Samples ==
    TypeOK => ReqSamples \subseteq Bit /\ AckSamples \subseteq Bit /\ DataSamples \subseteq Data
PROOF BY DEF TypeOK, ReqSamples, AckSamples, DataSamples, Bit, Flip

(* An edge of the source clock keeps the handshake invariant. *)
LEMMA SrcEdgeKeeps ==
    ASSUME HandshakeInv, NEW valid \in BOOLEAN, NEW data \in Data, SrcEdge(valid, data)
    PROVE  HandshakeInv'
<1>1. PICK a \in AckSamples : ack_src_q' = a /\ ack_q' = ack_src_q
  BY DEF SrcEdge, SrcSync
<1>2. TypeOK'
  <2>1. reqMoving' \in BOOLEAN /\ ackMoving' \in BOOLEAN
    BY Zenon DEF SrcEdge, src_ready_o
  <2> QED BY <1>1, <2>1, Samples DEF HandshakeInv, TypeOK, SrcEdge, SrcAccept, dstRegs, Flip, Bit
<1>3. ToggleAt /\ MovingIsNew /\ DataIntact
  BY OneToggleBits DEF HandshakeInv
<1>4. ToggleAt'
  BY <1>1, <1>2, <1>3 DEF HandshakeInv, TypeOK, ToggleAt, MovingIsNew, AckSamples, SrcEdge,
     SrcAccept, src_ready_o, dstRegs, Flip, Bit
<1>5. MovingIsNew'
  BY <1>2, <1>3 DEF HandshakeInv, TypeOK, ToggleAt, MovingIsNew, SrcEdge, SrcAccept,
     src_ready_o, dstRegs, Flip, Bit
<1>6. DataIntact'
  BY <1>3 DEF HandshakeInv, TypeOK, ToggleAt, DataIntact, SrcEdge, SrcAccept, src_ready_o,
     dst_valid_o, dst_data_o, dstRegs, Bit
<1> QED BY <1>2, <1>4, <1>5, <1>6, OneToggleBitsNext DEF HandshakeInv

(* An edge of the destination clock keeps the handshake invariant. *)
LEMMA DstEdgeKeeps ==
    ASSUME HandshakeInv, NEW ready \in BOOLEAN, DstEdge(ready)
    PROVE  HandshakeInv'
<1>1. PICK r \in ReqSamples : req_dst_q' = r /\ req_q0' = req_dst_q /\ req_q1' = req_q0
  BY DEF DstEdge, DstSync
<1>2. data_dst_q' \in Data /\ out' \in {<<>>} \cup {<<d>> : d \in Data}
  BY Samples DEF HandshakeInv, TypeOK, DstEdge, DstCapture, DstConsume, dst_data_o
<1>3. TypeOK'
  <2>1. reqMoving' \in BOOLEAN /\ ackMoving' \in BOOLEAN
    BY Zenon DEF DstEdge, dst_valid_o
  <2> QED BY <1>1, <1>2, <2>1, Samples DEF HandshakeInv, TypeOK, DstEdge, DstConsume, srcRegs, Flip, Bit
<1>4. ToggleAt /\ MovingIsNew /\ DataIntact
  BY OneToggleBits DEF HandshakeInv
<1>5. ToggleAt'
  BY <1>1, <1>3, <1>4 DEF HandshakeInv, TypeOK, ToggleAt, MovingIsNew, ReqSamples, DstEdge,
     DstConsume, dst_valid_o, srcRegs, Flip, Bit
<1>6. MovingIsNew'
  BY <1>3, <1>4 DEF HandshakeInv, TypeOK, ToggleAt, MovingIsNew, DstEdge, DstConsume,
     dst_valid_o, srcRegs, Flip, Bit
<1>7. DataIntact'
  <2>1. CASE dst_valid_o
    BY <1>1, <1>4, <2>1 DEF HandshakeInv, TypeOK, ToggleAt, DataIntact, DstEdge, DstCapture,
       DstConsume, dst_valid_o, dst_data_o, srcRegs, Flip, Bit
  <2>2. CASE ~dst_valid_o /\ req_q0 # req_q1
    <3>1. ~reqMoving
      BY <1>4, <2>2 DEF ToggleAt, MovingIsNew
    <3>2. data_dst_q' = data_src_q
      BY <2>2, <3>1 DEF DstEdge, DstCapture, DataSamples
    <3> QED BY <3>2 DEF DataIntact, DstEdge, dst_data_o, srcRegs
  <2>3. CASE ~dst_valid_o /\ req_q0 = req_q1
    BY <1>1, <1>4, <2>3 DEF DataIntact, DstEdge, DstConsume, dst_valid_o, srcRegs
  <2> QED BY <2>1, <2>2, <2>3
<1> QED BY <1>3, <1>5, <1>6, <1>7, OneToggleBitsNext DEF HandshakeInv

LEMMA InitHandshake == Init => HandshakeInv
<1> SUFFICES ASSUME Init PROVE HandshakeInv
  OBVIOUS
<1>1. TypeOK
  BY ZeroAssumption DEF Init, TypeOK, Bit
<1>2. ToggleAt /\ MovingIsNew /\ DataIntact
  BY DEF Init, ToggleAt, MovingIsNew, DataIntact, dst_valid_o
<1> QED BY <1>1, <1>2, OneToggleBits DEF HandshakeInv

LEMMA ResetHandshake == Reset => HandshakeInv'
<1> SUFFICES ASSUME Reset PROVE HandshakeInv'
  OBVIOUS
<1>1. TypeOK'
  BY ZeroAssumption DEF Reset, TypeOK, Bit
<1>2. ToggleAt' /\ MovingIsNew' /\ DataIntact'
  BY DEF Reset, ToggleAt, MovingIsNew, DataIntact, dst_valid_o
<1> QED BY <1>1, <1>2, OneToggleBitsNext DEF HandshakeInv

(* Every reachable state of the crossing satisfies the handshake invariant: *)
(* at most one toggle is under way, and a word on offer is the word sent.   *)
THEOREM HandshakeIsInvariant == Spec => []HandshakeInv
<1>1. Init => HandshakeInv
  BY InitHandshake
<1>2. HandshakeInv /\ [Next]_cdcVars => HandshakeInv'
  <2> SUFFICES ASSUME HandshakeInv, [Next]_cdcVars PROVE HandshakeInv'
    OBVIOUS
  <2>1. CASE SrcClock
    BY <2>1, SrcEdgeKeeps DEF SrcClock
  <2>2. CASE DstClock
    BY <2>2, DstEdgeKeeps DEF DstClock
  <2>3. CASE Reset
    BY <2>3, ResetHandshake
  <2>4. CASE UNCHANGED cdcVars
    BY <2>4 DEF HandshakeInv, TypeOK, OneToggle, Ring, MovingIsNew, DataIntact, dst_valid_o,
       dst_data_o, cdcVars, srcRegs, dstRegs
  <2> QED BY <2>1, <2>2, <2>3, <2>4 DEF Next
<1> QED BY <1>1, <1>2, PTL DEF Spec

(* A source edge takes an item only when nothing is carried. *)
LEMMA SrcEdgeRefines ==
    ASSUME HandshakeInv, NEW valid \in BOOLEAN, NEW data \in Data, SrcEdge(valid, data)
    PROVE  [Link!Next]_Link!linkVars
<1>1. ToggleAt
  BY OneToggleBits DEF HandshakeInv
<1>2. CASE valid /\ src_ready_o
  <2>1. ~InFlight /\ InFlight' /\ data_src_q' = data /\ out' = out
    BY <1>1, <1>2 DEF HandshakeInv, TypeOK, ToggleAt, SrcEdge, SrcAccept, src_ready_o, InFlight,
       dstRegs, Flip, Bit
  <2> QED BY <2>1 DEF Link!Next, Link!Take
<1>3. CASE ~(valid /\ src_ready_o)
  BY <1>3 DEF SrcEdge, SrcAccept, InFlight, dstRegs, Link!linkVars
<1> QED BY <1>2, <1>3

(* A destination edge hands over exactly the item that is carried. *)
LEMMA DstEdgeRefines ==
    ASSUME HandshakeInv, NEW ready \in BOOLEAN, DstEdge(ready)
    PROVE  [Link!Next]_Link!linkVars
<1>1. ToggleAt /\ DataIntact
  BY OneToggleBits DEF HandshakeInv
<1>2. CASE dst_valid_o /\ ready
  <2>1. InFlight /\ ~InFlight'
    BY <1>1, <1>2 DEF HandshakeInv, TypeOK, ToggleAt, DstEdge, DstConsume, dst_valid_o, InFlight,
       srcRegs, Flip, Bit
  <2>2. out' = <<data_src_q>>
    BY <1>1, <1>2 DEF DataIntact, DstEdge, DstConsume
  <2> QED BY <2>1, <2>2 DEF Link!Next, Link!HandOver
<1>3. CASE ~(dst_valid_o /\ ready)
  BY <1>3 DEF DstEdge, DstConsume, InFlight, srcRegs, Link!linkVars
<1> QED BY <1>2, <1>3

(* The crossing implements the one-place link: it loses, repeats, reorders  *)
(* and invents nothing, in whatever way the clocks interleave.              *)
THEOREM ImplementsLink == Spec => LinkSpec
<1>1. Init => Link!Init
  BY DEF Init, InFlight, Link!Init
<1>2. HandshakeInv /\ [Next]_cdcVars => [Link!Next]_Link!linkVars
  <2> SUFFICES ASSUME HandshakeInv, [Next]_cdcVars PROVE [Link!Next]_Link!linkVars
    OBVIOUS
  <2>1. CASE SrcClock
    BY <2>1, SrcEdgeRefines DEF SrcClock
  <2>2. CASE DstClock
    BY <2>2, DstEdgeRefines DEF DstClock
  <2>3. CASE Reset
    BY <2>3 DEF Reset, InFlight, Link!Next, Link!Reset
  <2>4. CASE UNCHANGED cdcVars
    BY <2>4 DEF InFlight, cdcVars, srcRegs, dstRegs, Link!linkVars
  <2> QED BY <2>1, <2>2, <2>3, <2>4 DEF Next
<1> QED BY <1>1, <1>2, HandshakeIsInvariant, PTL DEF Spec, LinkSpec, Link!Spec

(* An item on offer stays on offer, unaltered, until it is taken. *)
THEOREM OfferStays == Spec => OfferIsStable
<1> DEFINE Stable == dst_valid_o /\ ~Reset => \/ dst_valid_o' /\ dst_data_o' = dst_data_o
                                            \/ out' = <<dst_data_o>>
<1>1. HandshakeInv /\ [Next]_cdcVars => [Stable]_cdcVars
  <2> SUFFICES ASSUME HandshakeInv, Next, dst_valid_o, ~Reset
               PROVE  \/ dst_valid_o' /\ dst_data_o' = dst_data_o
                      \/ out' = <<dst_data_o>>
    OBVIOUS
  <2>1. ToggleAt
    BY OneToggleBits DEF HandshakeInv
  <2>2. CASE SrcClock
    BY <2>2 DEF SrcClock, SrcEdge, dst_valid_o, dst_data_o, dstRegs
  <2>3. CASE DstClock
    <3> PICK ready \in BOOLEAN : DstEdge(ready)
      BY <2>3 DEF DstClock
    <3>1. req_q1' = req_q0 /\ data_dst_q' = data_dst_q
      BY DEF DstEdge, DstSync, DstCapture
    <3>2. CASE ready
      BY <3>2 DEF DstEdge, DstConsume
    <3>3. CASE ~ready
      BY <2>1, <3>1, <3>3 DEF HandshakeInv, TypeOK, ToggleAt, DstEdge, DstConsume, dst_valid_o,
         dst_data_o, Bit
    <3> QED BY <3>2, <3>3
  <2> QED BY <2>2, <2>3 DEF Next
<1> QED BY <1>1, HandshakeIsInvariant, PTL DEF Spec, OfferIsStable
===============================================================================
