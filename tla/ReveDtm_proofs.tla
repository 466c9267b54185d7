--------------------------- MODULE ReveDtm_proofs ---------------------------
(***************************************************************************)
(* Proofs about ReveDtm, for any addresses, any ratio of the two clocks,   *)
(* any bus latency and any pacing of the host.                             *)
(***************************************************************************)
EXTENDS ReveDtm, TLAPS

(* OneChange written out: behind the place where a level is changing, all agree. *)
RingBits ==
    /\ complete # complete_sync[1] => complete_sync[1] = complete_sync[2]
    /\ complete # complete_sync[2] => complete_sync[2] = complete_sync[3]
    /\ complete # complete_sync[3] => complete_sync[3] = complete_ack
    /\ complete # complete_ack => complete_ack = complete_ack_sync[1]
    /\ complete # complete_ack_sync[1] => complete_ack_sync[1] = complete_ack_sync[2]
    /\ complete # complete_ack_sync[2] => complete_ack_sync[2] = complete_ack_sync[3]

LEMMA RingWrittenOut ==
    TypeOK => ((\A i, j \in 1..7 : Ring[i] # Ring[i+1] /\ Ring[j] # Ring[j+1] => i = j) <=> RingBits)
BY DEF RingBits, Ring, TypeOK, Bit

LEMMA RingWrittenOutNext ==
    TypeOK' => ((\A i, j \in 1..7 : Ring[i] # Ring[i+1] /\ Ring[j] # Ring[j+1] => i = j)' <=> RingBits')
BY DEF RingBits, Ring, TypeOK, Bit

(* What a TCK edge changes, bit by bit. *)
LEMMA TckTypes ==
    ASSUME HandshakeInv, NEW act \in Acts, TckEdge(act)
    PROVE  TypeOK'
<1>1. PICK s \in Bit : ready_ack_sync' = <<s, ready_ack_sync[1], ready_ack_sync[2]>>
  BY DEF TckEdge, TckSync, Shift, Samples, HandshakeInv, TypeOK, Bit
<1>2. PICK t \in Bit : complete_sync' = <<t, complete_sync[1], complete_sync[2]>>
  BY DEF TckEdge, TckSync, Shift, Samples, HandshakeInv, TypeOK, Bit
<1>3. op_status' \in {0, 3}
  BY DEF TckEdge, OpStatus, HandshakeInv, TypeOK
<1>4. jtag_busy' \in BOOLEAN
  BY Zenon DEF TckEdge, Serve
<1>5. ready' \in Bit /\ complete_ack' \in Bit /\ request' \in Requests /\ last_read_data' \in Words
  BY DEF TckEdge, Serve, HandshakeInv, TypeOK, Accepts, Bit
<1>6. performed' \in 0..2
  BY DEF TckEdge, HandshakeInv, TypeOK
<1>7. ready_ack_sync' \in Bit \X Bit \X Bit /\ complete_sync' \in Bit \X Bit \X Bit
  BY <1>1, <1>2 DEF HandshakeInv, TypeOK, Bit
<1> QED BY <1>3, <1>4, <1>5, <1>6, <1>7 DEF TckEdge, apbRegs, HandshakeInv, TypeOK

(* The bits of the chains, one by one. *)
Bits ==
    /\ ready \in Bit /\ complete_ack \in Bit /\ ready_ack \in Bit /\ complete \in Bit
    /\ ready_ack_sync[1] \in Bit /\ ready_ack_sync[2] \in Bit /\ ready_ack_sync[3] \in Bit
    /\ complete_sync[1] \in Bit /\ complete_sync[2] \in Bit /\ complete_sync[3] \in Bit
    /\ ready_sync[1] \in Bit /\ ready_sync[2] \in Bit /\ ready_sync[3] \in Bit
    /\ complete_ack_sync[1] \in Bit /\ complete_ack_sync[2] \in Bit /\ complete_ack_sync[3] \in Bit
    /\ performed \in 0..2

LEMMA BitByBit == TypeOK => Bits
BY DEF TypeOK, Bits

LEMMA BitByBitNext == TypeOK' => Bits'
BY DEF TypeOK, Bits

(* The new values of the registers at a TCK edge. *)
TckValues(act) ==
    /\ ready_ack_sync'[1] = ready_ack \/ "ready_ack" \in moving
    /\ ready_ack_sync'[2] = ready_ack_sync[1] /\ ready_ack_sync'[3] = ready_ack_sync[2]
    /\ complete_sync'[1] = complete \/ "complete" \in moving
    /\ complete_sync'[2] = complete_sync[1] /\ complete_sync'[3] = complete_sync[2]
    /\ ready' = IF Accepts(act) THEN 1 ELSE IF jtag_busy /\ ready_ack_sync[3] = 1 THEN 0 ELSE ready
    /\ complete_ack' = complete_sync[3]
    /\ jtag_busy' <=> (Accepts(act) \/ (jtag_busy /\ ~Ends))
    /\ Accepts(act) => ~jtag_busy
    /\ request' = IF Accepts(act) THEN act ELSE request
    /\ performed' = IF Accepts(act) THEN 0 ELSE performed
    /\ Ends <=> (jtag_busy /\ complete_sync[3] = 0 /\ complete_ack = 1)
    /\ UNCHANGED <<apb_busy, access_in_progress, penable, apb_request, apb_last_read_data,
                   ready_ack, complete, ready_sync, complete_ack_sync>>
    /\ "ready" \in moving' <=> ready' # ready
    /\ "complete_ack" \in moving' <=> complete_ack' # complete_ack
    /\ "ready_ack" \notin moving' /\ "complete" \notin moving'

LEMMA TckNewValues ==
    ASSUME HandshakeInv, NEW act \in Acts, TckEdge(act)
    PROVE  TckValues(act)
<1>1. PICK s \in Bit : /\ ready_ack_sync' = <<s, ready_ack_sync[1], ready_ack_sync[2]>>
                       /\ s = ready_ack \/ "ready_ack" \in moving
  BY DEF TckEdge, TckSync, Shift, Samples, HandshakeInv, TypeOK, Bit
<1>2. PICK t \in Bit : /\ complete_sync' = <<t, complete_sync[1], complete_sync[2]>>
                       /\ t = complete \/ "complete" \in moving
  BY DEF TckEdge, TckSync, Shift, Samples, HandshakeInv, TypeOK, Bit
<1>3. ~jtag_busy => complete_ack = complete_sync[3]
  BY DEF HandshakeInv, Rest, Quiet
<1>4. complete_ack' = complete_sync[3]
  BY <1>3 DEF TckEdge, Serve
<1>5. moving' = Moves("ready", ready' # ready)
                    \cup Moves("complete_ack", complete_ack' # complete_ack)
  BY DEF TckEdge
<1>6. /\ "ready" \in moving' <=> ready' # ready
      /\ "complete_ack" \in moving' <=> complete_ack' # complete_ack
      /\ "ready_ack" \notin moving' /\ "complete" \notin moving'
  BY <1>5 DEF Moves
<1>7. UNCHANGED <<apb_busy, access_in_progress, penable, apb_request, apb_last_read_data,
                  ready_ack, complete, ready_sync, complete_ack_sync>>
  BY DEF TckEdge, apbRegs
<1>8. /\ ready' = IF Accepts(act) THEN 1 ELSE IF jtag_busy /\ ready_ack_sync[3] = 1 THEN 0 ELSE ready
      /\ request' = IF Accepts(act) THEN act ELSE request
      /\ performed' = IF Accepts(act) THEN 0 ELSE performed
  BY DEF TckEdge, Serve, sync_ready_ack
<1>9. /\ jtag_busy' <=> (Accepts(act) \/ (jtag_busy /\ ~Ends))
      /\ Accepts(act) => ~jtag_busy
  BY Zenon DEF TckEdge, Serve, Accepts
<1>10. Ends <=> (jtag_busy /\ complete_sync[3] = 0 /\ complete_ack = 1)
  BY DEF Ends, sync_complete, HandshakeInv, TypeOK, Bit
<1> QED BY <1>1, <1>2, <1>4, <1>6, <1>7, <1>8, <1>9, <1>10 DEF TckValues

LEMMA TckOneChange ==
    ASSUME HandshakeInv, NEW act \in Acts, TckEdge(act)
    PROVE  OneChange'
<1>1. TypeOK' /\ Bits /\ Bits' /\ TckValues(act)
  BY TckTypes, TckNewValues, BitByBit, BitByBitNext DEF HandshakeInv
<1>2. RingBits /\ ("complete" \in moving => complete # complete_sync[1])
  BY RingWrittenOut DEF HandshakeInv, OneChange
<1>3. RingBits'
  BY <1>1, <1>2 DEF RingBits, Bits, Bit, TckValues
<1>4. "complete_ack" \in moving' => complete_ack' # complete_ack_sync[1]'
  BY <1>1, <1>2 DEF RingBits, Bits, Bit, TckValues
<1> QED BY <1>1, <1>3, <1>4, RingWrittenOutNext DEF OneChange, TckValues

LEMMA TckKeeps ==
    ASSUME HandshakeInv, NEW act \in Acts, TckEdge(act)
    PROVE  HandshakeInv'
<1>1. TypeOK' /\ Bits /\ Bits' /\ TckValues(act)
  BY TckTypes, TckNewValues, BitByBit, BitByBitNext DEF HandshakeInv
<1>2. RingBits /\ ("complete" \in moving => complete # complete_sync[1])
               /\ ("complete_ack" \in moving => complete_ack # complete_ack_sync[1])
  BY RingWrittenOut DEF HandshakeInv, OneChange
<1> DEFINE Before == Rest /\ Stages /\ ReadyOnce /\ AckFirst /\ Drained
<1>3. Before BY DEF HandshakeInv
<1>4. CASE Accepts(act)
  <2>1. /\ ~jtag_busy /\ jtag_busy' /\ ready' = 1 /\ performed' = 0 /\ request' = act
    BY <1>1, <1>4 DEF TckValues
  <2>2. Rest' BY <2>1 DEF Rest
  <2>3. Stages' BY <1>1, <1>2, <1>3, <2>1 DEF TckValues, Rest, Stages, Quiet, Bits, Bit
  <2>4. ReadyOnce' BY <1>1, <1>2, <1>3, <2>1 DEF TckValues, Rest, ReadyOnce, Quiet, Bits, Bit
  <2>5. AckFirst' BY <1>1, <1>2, <1>3, <2>1 DEF TckValues, Rest, AckFirst, Quiet, Bits, Bit
  <2>6. Drained' BY <1>1, <1>2, <1>3, <2>1 DEF TckValues, Rest, ReadyOnce, Drained, Quiet, Bits, Bit
  <2> QED BY <2>2, <2>3, <2>4, <2>5, <2>6, <1>1, TckOneChange DEF HandshakeInv
<1>5. CASE ~Accepts(act) /\ jtag_busy /\ Ends
  <2>1. ~jtag_busy' /\ request' = request /\ performed' = performed
    BY <1>1, <1>5 DEF TckValues
  <2>2. Rest' BY <1>1, <1>2, <1>3, <1>5 DEF TckValues, Rest, Quiet, Bits, Bit, Stages, ReadyOnce, RingBits
  <2>3. Stages' BY <1>1, <1>2, <1>3, <1>5, <2>1, <2>2 DEF TckValues, Rest, Stages, Quiet, Bits, Bit
  <2>4. ReadyOnce' BY <1>1, <1>2, <1>3, <2>1, <2>2 DEF TckValues, Rest, ReadyOnce, Quiet, Bits, Bit
  <2>5. AckFirst' BY <1>1, <1>2, <1>3, <2>1, <2>2 DEF TckValues, Rest, AckFirst, Quiet, Bits, Bit
  <2>6. Drained' BY <2>1 DEF Drained
  <2> QED BY <2>2, <2>3, <2>4, <2>5, <2>6, <1>1, TckOneChange DEF HandshakeInv
<1>6. CASE ~Accepts(act) /\ jtag_busy /\ ~Ends
  <2>1. jtag_busy' /\ request' = request /\ performed' = performed
    BY <1>1, <1>6 DEF TckValues
  <2>2. Rest' BY <2>1 DEF Rest
  <2>3. Stages' BY <1>1, <1>2, <1>3, <1>6, <2>1 DEF TckValues, Stages, Quiet, Bits, Bit, RingBits
  <2>4. ReadyOnce' BY <1>1, <1>2, <1>3, <1>6, <2>1 DEF TckValues, Stages, AckFirst, ReadyOnce, Quiet, Bits, Bit, RingBits
  <2>5. AckFirst' BY <1>1, <1>2, <1>3, <1>6, <2>1 DEF TckValues, Stages, AckFirst, Quiet, Bits, Bit
  <2>6. Drained' BY <1>1, <1>2, <1>3, <1>6, <2>1 DEF TckValues, Stages, Drained, Quiet, Bits, Bit
  <2> QED BY <2>2, <2>3, <2>4, <2>5, <2>6, <1>1, TckOneChange DEF HandshakeInv
<1>7. CASE ~Accepts(act) /\ ~jtag_busy
  <2>1. ~jtag_busy' /\ request' = request /\ performed' = performed
    BY <1>1, <1>7 DEF TckValues
  <2>2. Rest' BY <1>1, <1>2, <1>3, <1>7 DEF TckValues, Rest, Quiet, Bits, Bit
  <2>3. Stages' BY <1>1, <1>3, <1>7, <2>1, <2>2 DEF TckValues, Rest, Stages
  <2>4. ReadyOnce' BY <1>1, <1>2, <1>3, <2>1, <2>2 DEF TckValues, Rest, ReadyOnce, Quiet, Bits, Bit
  <2>5. AckFirst' BY <2>1, <2>2 DEF Rest, AckFirst
  <2>6. Drained' BY <2>1 DEF Drained
  <2> QED BY <2>2, <2>3, <2>4, <2>5, <2>6, <1>1, TckOneChange DEF HandshakeInv
<1> QED BY <1>4, <1>5, <1>6, <1>7

-----------------------------------------------------------------------------
(* The new values of the registers at an APB edge. *)
ApbValues(pready) ==
    /\ ready_sync'[1] = ready \/ "ready" \in moving
    /\ ready_sync'[2] = ready_sync[1] /\ ready_sync'[3] = ready_sync[2]
    /\ complete_ack_sync'[1] = complete_ack \/ "complete_ack" \in moving
    /\ complete_ack_sync'[2] = complete_ack_sync[1] /\ complete_ack_sync'[3] = complete_ack_sync[2]
    /\ apb_busy' <=> (Starts \/ (apb_busy /\ ~Acknowledged))
    /\ access_in_progress' <=> (Starts \/ (access_in_progress /\ ~Access(pready)))
    /\ penable' <=> (~Starts /\ IF access_in_progress THEN ~Access(pready) ELSE penable)
    /\ apb_request' = IF Starts THEN request ELSE apb_request
    /\ apb_last_read_data' =
           IF ~Access(pready) THEN apb_last_read_data
           ELSE IF apb_request.op = "read" THEN Answer(apb_request) ELSE NoData
    /\ performed' = IF Access(pready) /\ performed < 2 THEN performed + 1 ELSE performed
    /\ ready_ack' = IF Starts THEN 1 ELSE IF Lowers THEN 0 ELSE ready_ack
    /\ complete' = IF Acknowledged THEN 0 ELSE IF Completes THEN 1 ELSE complete
    /\ Starts <=> (~apb_busy /\ ready_sync[3] = 1)
    /\ Access(pready) => access_in_progress /\ penable
    /\ Lowers <=> (apb_busy /\ ready_ack = 1 /\ ready_sync[3] = 0)
    /\ Acknowledged <=> (Completes /\ complete_ack_sync[3] = 1 /\ complete = 1)
    /\ UNCHANGED <<request, jtag_busy, ready, complete_ack, ready_ack_sync, complete_sync>>
    /\ "ready_ack" \in moving' <=> ready_ack' # ready_ack
    /\ "complete" \in moving' <=> complete' # complete
    /\ "ready" \notin moving' /\ "complete_ack" \notin moving'

LEMMA ApbNewValues ==
    ASSUME HandshakeInv, NEW pready \in BOOLEAN, ApbEdge(pready)
    PROVE  ApbValues(pready)
<1>1. PICK s \in Bit : /\ ready_sync' = <<s, ready_sync[1], ready_sync[2]>>
                       /\ s = ready \/ "ready" \in moving
  BY DEF ApbEdge, ApbSync, Shift, Samples, HandshakeInv, TypeOK, Bit
<1>2. PICK t \in Bit : /\ complete_ack_sync' = <<t, complete_ack_sync[1], complete_ack_sync[2]>>
                       /\ t = complete_ack \/ "complete_ack" \in moving
  BY DEF ApbEdge, ApbSync, Shift, Samples, HandshakeInv, TypeOK, Bit
<1>3. moving' = Moves("ready_ack", ready_ack' # ready_ack) \cup Moves("complete", complete' # complete)
  BY DEF ApbEdge
<1>4. /\ "ready_ack" \in moving' <=> ready_ack' # ready_ack
      /\ "complete" \in moving' <=> complete' # complete
      /\ "ready" \notin moving' /\ "complete_ack" \notin moving'
  BY <1>3 DEF Moves
<1>5. UNCHANGED <<request, jtag_busy, ready, complete_ack, ready_ack_sync, complete_sync>>
  BY DEF ApbEdge, tckRegs
<1>6. apb_busy' <=> (Starts \/ (apb_busy /\ ~Acknowledged))
  BY Zenon DEF ApbEdge, Acknowledge
<1>7. access_in_progress' <=> (Starts \/ (access_in_progress /\ ~Access(pready)))
  BY Zenon DEF ApbEdge, Bus
<1>8. penable' = IF Starts THEN FALSE ELSE IF access_in_progress THEN ~Access(pready) ELSE penable
  BY Zenon DEF ApbEdge, Bus
<1>9. penable' <=> (~Starts /\ IF access_in_progress THEN ~Access(pready) ELSE penable)
  BY <1>8, Zenon
<1>10. /\ apb_request' = IF Starts THEN request ELSE apb_request
       /\ apb_last_read_data' =
               IF ~Access(pready) THEN apb_last_read_data
               ELSE IF apb_request.op = "read" THEN Answer(apb_request) ELSE NoData
       /\ performed' = IF Access(pready) /\ performed < 2 THEN performed + 1 ELSE performed
  BY Zenon DEF ApbEdge, Bus
<1>11. /\ ready_ack' = IF Starts THEN 1 ELSE IF Lowers THEN 0 ELSE ready_ack
       /\ complete' = IF Acknowledged THEN 0 ELSE IF Completes THEN 1 ELSE complete
  BY Zenon DEF ApbEdge, Acknowledge
<1>12. /\ Starts <=> (~apb_busy /\ ready_sync[3] = 1)
       /\ Access(pready) => access_in_progress /\ penable
       /\ Lowers <=> (apb_busy /\ ready_ack = 1 /\ ready_sync[3] = 0)
       /\ Acknowledged <=> (Completes /\ complete_ack_sync[3] = 1 /\ complete = 1)
  BY DEF Starts, Access, Lowers, Acknowledged, sync_ready, sync_complete_ack, HandshakeInv, TypeOK, Bit
<1> QED BY <1>1, <1>2, <1>4, <1>5, <1>6, <1>7, <1>9, <1>10, <1>11, <1>12 DEF ApbValues

LEMMA ApbTypes ==
    ASSUME HandshakeInv, NEW pready \in BOOLEAN, ApbEdge(pready)
    PROVE  TypeOK'
<1>1. PICK s \in Bit : ready_sync' = <<s, ready_sync[1], ready_sync[2]>>
  BY DEF ApbEdge, ApbSync, Shift, Samples, HandshakeInv, TypeOK, Bit
<1>2. PICK t \in Bit : complete_ack_sync' = <<t, complete_ack_sync[1], complete_ack_sync[2]>>
  BY DEF ApbEdge, ApbSync, Shift, Samples, HandshakeInv, TypeOK, Bit
<1>3. apb_busy' \in BOOLEAN /\ access_in_progress' \in BOOLEAN
  BY Zenon DEF ApbEdge, Bus, Acknowledge
<1>4. penable' = IF Starts THEN FALSE ELSE IF access_in_progress THEN ~Access(pready) ELSE penable
  BY Zenon DEF ApbEdge, Bus
<1>5. penable \in BOOLEAN
  BY DEF HandshakeInv, TypeOK
<1>6. penable' \in BOOLEAN
  BY <1>4, <1>5, Zenon
<1>7. ready_ack' \in Bit /\ complete' \in Bit
  BY DEF ApbEdge, Acknowledge, HandshakeInv, TypeOK, Bit
<1>8. performed' \in 0..2
  BY DEF ApbEdge, Bus, HandshakeInv, TypeOK
<1>9. apb_request' \in Requests /\ apb_last_read_data' \in Words
  BY DEF ApbEdge, Bus, HandshakeInv, TypeOK, Words
<1>10. ready_sync' \in Bit \X Bit \X Bit /\ complete_ack_sync' \in Bit \X Bit \X Bit
  BY <1>1, <1>2 DEF HandshakeInv, TypeOK, Bit
<1> QED BY <1>3, <1>6, <1>7, <1>8, <1>9, <1>10 DEF ApbEdge, tckRegs, HandshakeInv, TypeOK

LEMMA ApbOneChange ==
    ASSUME HandshakeInv, NEW pready \in BOOLEAN, ApbEdge(pready)
    PROVE  OneChange'
<1>1. TypeOK' /\ Bits /\ Bits' /\ ApbValues(pready)
  BY ApbTypes, ApbNewValues, BitByBit, BitByBitNext DEF HandshakeInv
<1>2. RingBits /\ ("complete" \in moving => complete # complete_sync[1])
               /\ ("complete_ack" \in moving => complete_ack # complete_ack_sync[1])
  BY RingWrittenOut DEF HandshakeInv, OneChange
<1> DEFINE Before == Rest /\ Stages
<1>3. Before BY DEF HandshakeInv
<1>4. /\ Completes => apb_busy /\ ~access_in_progress
      /\ apb_busy /\ complete = 0 /\ ~access_in_progress =>
             Quiet(complete_sync) /\ complete_ack = 0 /\ Quiet(complete_ack_sync)
  BY <1>1, <1>3 DEF Completes, Stages, Bits, Bit, HandshakeInv, TypeOK
<1>5. RingBits'
  BY <1>1, <1>2, <1>4 DEF RingBits, Bits, Bit, ApbValues, Quiet
<1>6. "complete" \in moving' => complete' # complete_sync[1]'
  BY <1>1, <1>2, <1>4 DEF RingBits, Bits, Bit, ApbValues, Quiet
<1> QED BY <1>1, <1>5, <1>6, RingWrittenOutNext DEF OneChange, ApbValues

LEMMA ApbKeeps ==
    ASSUME HandshakeInv, NEW pready \in BOOLEAN, ApbEdge(pready)
    PROVE  HandshakeInv'
<1>1. TypeOK' /\ Bits /\ Bits' /\ ApbValues(pready)
  BY ApbTypes, ApbNewValues, BitByBit, BitByBitNext DEF HandshakeInv
<1>2. RingBits /\ ("complete" \in moving => complete # complete_sync[1])
               /\ ("complete_ack" \in moving => complete_ack # complete_ack_sync[1])
  BY RingWrittenOut DEF HandshakeInv, OneChange
<1> DEFINE Before == Rest /\ Stages /\ ReadyOnce /\ AckFirst /\ Drained
<1>3. Before BY DEF HandshakeInv
<1>4. CASE ~jtag_busy
  <2>1. ~jtag_busy' /\ ~Starts /\ ~apb_busy /\ ~access_in_progress /\ ~penable /\ ~Access(pready)
    BY <1>1, <1>3, <1>4 DEF ApbValues, Rest, Quiet, Stages, Bits, Bit
  <2>2. Rest' BY <1>1, <1>3, <1>4, <2>1 DEF ApbValues, Rest, Quiet, Bits, Bit, Completes
  <2>3. Stages' BY <1>1, <1>3, <2>1, <2>2 DEF ApbValues, Rest, Stages
  <2>4. ReadyOnce' BY <1>1, <1>3, <2>1, <2>2 DEF ApbValues, Rest, ReadyOnce, Quiet, Bits, Bit
  <2>5. AckFirst' BY <2>1, <2>2 DEF Rest, AckFirst
  <2>6. Drained' BY <2>1 DEF Drained
  <2> QED BY <2>2, <2>3, <2>4, <2>5, <2>6, <1>1, ApbOneChange DEF HandshakeInv
<1>5. CASE jtag_busy /\ Starts
  <2>1. jtag_busy' /\ apb_busy' /\ access_in_progress' /\ ~penable' /\ ~apb_busy
    BY <1>1, <1>5 DEF ApbValues
  <2>2. Rest' BY <2>1 DEF Rest
  <2>3. Stages' BY <1>1, <1>2, <1>3, <1>5, <2>1 DEF ApbValues, Stages, Quiet, Bits, Bit, ReadyOnce, Lowers, Completes
  <2>4. ReadyOnce' BY <1>1, <1>2, <1>3, <1>5, <2>1 DEF ApbValues, Stages, ReadyOnce, Quiet, Bits, Bit
  <2>5. AckFirst' BY <1>1, <1>2, <1>3, <1>5, <2>1 DEF ApbValues, Stages, AckFirst, Quiet, Bits, Bit
  <2>6. Drained' BY <1>1, <1>2, <1>3, <1>5, <2>1 DEF ApbValues, Stages, Drained, Quiet, Bits, Bit, RingBits
  <2> QED BY <2>2, <2>3, <2>4, <2>5, <2>6, <1>1, ApbOneChange DEF HandshakeInv
<1>6. CASE jtag_busy /\ ~Starts
  <2>1. jtag_busy' /\ request' = request /\ apb_request' = apb_request
    BY <1>1, <1>6 DEF ApbValues
  <2>2. Rest' BY <2>1 DEF Rest
  <2>3. Stages'
    <3>1. CASE access_in_progress
      <4>1. apb_busy /\ apb_busy' /\ performed = 0 /\ complete' = 0 /\ complete_ack = 0
        BY <1>1, <1>3, <1>6, <3>1 DEF ApbValues, Stages, Completes, Bits, Bit
      <4>2. Quiet(complete_sync) /\ Quiet(complete_ack_sync)
        BY <1>2, <1>1, <1>3, <1>6, <4>1 DEF Stages, Drained, RingBits, Quiet, Bits, Bit
      <4>3. Access(pready) /\ request.op = "read" => apb_last_read_data' = Answer(request)
        BY <1>1, <1>3, <4>1 DEF ApbValues, Stages
      <4>4. /\ access_in_progress' <=> ~Access(pready)
            /\ penable' <=> ~Access(pready)
            /\ performed' = IF Access(pready) THEN 1 ELSE 0
        BY <1>1, <1>6, <3>1, <4>1 DEF ApbValues
      <4> QED BY <1>1, <1>2, <1>3, <2>1, <4>1, <4>2, <4>3, <4>4 DEF ApbValues, Stages, Quiet, Bits, Bit
    <3>2. CASE ~access_in_progress /\ apb_busy
      <4>1. performed = 1 /\ performed' = 1 /\ ~access_in_progress' /\ ~penable'
        BY <1>1, <1>3, <1>6, <3>2 DEF ApbValues, Stages, Bits
      <4>2. CASE Acknowledged
        <5>1. complete_ack = 1 /\ complete_ack_sync[2] = 1 /\ complete_ack_sync[1] = 1
          BY <1>1, <1>2, <4>2 DEF ApbValues, RingBits, Bits, Bit
        <5> QED BY <1>1, <1>2, <1>3, <2>1, <4>1, <4>2, <5>1 DEF ApbValues, Stages, ReadyOnce, Quiet, Bits, Bit
      <4>3. CASE ~Acknowledged
        BY <1>1, <1>2, <1>3, <1>6, <2>1, <3>2, <4>1, <4>3 DEF ApbValues, Stages, Quiet, Bits, Bit
      <4> QED BY <4>2, <4>3
    <3>3. CASE ~apb_busy
      BY <1>1, <1>2, <1>3, <1>6, <2>1, <3>3 DEF ApbValues, Stages, ReadyOnce, RingBits, Quiet, Bits, Bit, Completes
    <3> QED BY <3>1, <3>2, <3>3
  <2>4. ReadyOnce' BY <1>1, <1>2, <1>3, <1>6, <2>1 DEF ApbValues, Stages, ReadyOnce, Quiet, Bits, Bit, RingBits
  <2>5. AckFirst' BY <1>1, <1>2, <1>3, <1>6, <2>1 DEF ApbValues, Stages, AckFirst, ReadyOnce, Quiet, Bits, Bit
  <2>6. Drained' BY <1>1, <1>2, <1>3, <1>6, <2>1 DEF ApbValues, Stages, Drained, Quiet, Bits, Bit, ReadyOnce, RingBits
  <2> QED BY <2>2, <2>3, <2>4, <2>5, <2>6, <1>1, ApbOneChange DEF HandshakeInv
<1> QED BY <1>4, <1>5, <1>6

-----------------------------------------------------------------------------
LEMMA HandshakeStarts == Init => HandshakeInv
<1> SUFFICES ASSUME Init PROVE HandshakeInv
  OBVIOUS
<1>1. TypeOK
  <2>1. request \in Requests /\ apb_request \in Requests /\ op_status \in {0, 3} /\ performed \in 0..2
    BY DEF Init
  <2>2. last_read_data \in Words /\ apb_last_read_data \in Words
    BY DEF Init, Words
  <2>3. {jtag_busy, apb_busy, access_in_progress, penable} \subseteq BOOLEAN
    BY Zenon DEF Init
  <2>4. {ready, complete_ack, ready_ack, complete} \subseteq Bit
    BY DEF Init, Bit
  <2>5. {ready_ack_sync, complete_sync, ready_sync, complete_ack_sync} \subseteq Bit \X Bit \X Bit
    BY DEF Init, Low, Bit
  <2> QED BY <2>1, <2>2, <2>3, <2>4, <2>5 DEF TypeOK
<1>2. Bits
  BY <1>1, BitByBit
<1>3. OneChange
  <2>1. RingBits BY DEF Init, RingBits, Low
  <2> QED BY <2>1, <1>1, RingWrittenOut DEF OneChange, Init
<1>4. Rest /\ Stages /\ ReadyOnce /\ AckFirst /\ Drained
  BY DEF Init, Rest, Stages, ReadyOnce, AckFirst, Drained, Low, Quiet
<1> QED BY <1>1, <1>3, <1>4 DEF HandshakeInv

LEMMA HandshakeStutters == HandshakeInv /\ UNCHANGED dtmVars => HandshakeInv'
<1> SUFFICES ASSUME HandshakeInv, UNCHANGED dtmVars PROVE HandshakeInv'
  OBVIOUS
<1>1. TypeOK' BY DEF dtmVars, tckRegs, apbRegs, HandshakeInv, TypeOK
<1>2. OneChange' BY DEF dtmVars, tckRegs, apbRegs, HandshakeInv, OneChange, Ring
<1>3. Rest' /\ Stages' BY DEF dtmVars, tckRegs, apbRegs, HandshakeInv, Rest, Stages, Quiet
<1>4. ReadyOnce' BY DEF dtmVars, tckRegs, apbRegs, HandshakeInv, ReadyOnce, Quiet
<1>5. AckFirst' /\ Drained' BY DEF dtmVars, tckRegs, apbRegs, HandshakeInv, AckFirst, Drained
<1> QED BY <1>1, <1>2, <1>3, <1>4, <1>5 DEF HandshakeInv

(* Whatever the two clocks and the bus do, the four-phase handshake keeps   *)
(* its phases: one change travels round the complete ring at a time, ready  *)
(* is raised and withdrawn once for a request, and what is left of one      *)
(* request when the next starts is never taken for an answer to it          *)
(* (riscv_jtag_apb_dm.v, both always blocks and the synchronizers).         *)
THEOREM HandshakeHolds == Spec => []HandshakeInv
<1>1. HandshakeInv /\ [Next]_dtmVars => HandshakeInv'
  BY TckKeeps, ApbKeeps, HandshakeStutters DEF Next, TckClock, ApbClock
<1> QED BY HandshakeStarts, <1>1, PTL DEF Spec

(* A request accepted is performed on the bus once, as asked, and a read    *)
(* brings back its own answer: the four-phase handshake implements remote   *)
(* access (riscv_jtag_apb_dm.v 279-450).                                    *)
THEOREM ImplementsRemote == Spec => RemoteSpec
<1>1. Init => Remote!Init
  BY DEF Init, Remote!Init, Stage, Requests
<1>2. HandshakeInv /\ [Next]_dtmVars => [Remote!Next]_Remote!remoteVars
  <2> SUFFICES ASSUME HandshakeInv, [Next]_dtmVars PROVE [Remote!Next]_Remote!remoteVars
    OBVIOUS
  <2>0. Bits /\ Stages /\ TypeOK
    BY BitByBit DEF HandshakeInv
  <2>1. ASSUME NEW act \in Acts, TckEdge(act) PROVE [Remote!Next]_Remote!remoteVars
    <3>1. TckValues(act) /\ last_read_data' = IF Ends /\ request.op = "read" THEN apb_last_read_data ELSE last_read_data
      BY <2>1, TckNewValues DEF TckEdge, Serve
    <3>2. CASE Accepts(act)
      <4>1. Stage = "idle" /\ Stage' = "asked" /\ request' = act /\ last_read_data' = last_read_data /\ act \in Requests
        BY <3>1, <3>2 DEF TckValues, Stage, Accepts
      <4> QED BY <4>1 DEF Remote!Next, Remote!Accept
    <3>3. CASE ~Accepts(act) /\ Ends
      <4>1. jtag_busy /\ complete_ack = 1 /\ ~jtag_busy' /\ request' = request
        BY <3>1, <3>3 DEF TckValues
      <4>2. performed = 1
        BY <2>0, <4>1 DEF Stages, Bits
      <4>3. last_read_data' = IF request.op = "read" THEN Answer(request) ELSE last_read_data
        BY <2>0, <3>1, <3>3, <4>1, <4>2 DEF Stages
      <4>4. Stage = "done" /\ Stage' = "idle"
        BY <4>1, <4>2 DEF Stage
      <4> QED BY <4>1, <4>3, <4>4 DEF Remote!Next, Remote!Finish, Remote!IsRead
    <3>4. CASE ~Accepts(act) /\ ~Ends
      <4>1. /\ jtag_busy' <=> jtag_busy
            /\ request' = request /\ performed' = performed /\ last_read_data' = last_read_data
        BY <3>1, <3>4 DEF TckValues
      <4>2. Stage' = Stage BY <4>1 DEF Stage
      <4> QED BY <4>1, <4>2 DEF Remote!remoteVars
    <3> QED BY <3>2, <3>3, <3>4
  <2>2. ASSUME NEW pready \in BOOLEAN, ApbEdge(pready) PROVE [Remote!Next]_Remote!remoteVars
    <3>1. ApbValues(pready) /\ last_read_data' = last_read_data
      BY <2>2, ApbNewValues DEF ApbEdge, tckRegs
    <3>2. (jtag_busy' <=> jtag_busy) /\ request' = request
      BY <3>1 DEF ApbValues
    <3>3. CASE Access(pready)
      <4>1. jtag_busy /\ performed = 0 /\ performed' = 1
        BY <2>0, <3>1, <3>3 DEF ApbValues, Stages
      <4>2. Stage = "asked" /\ Stage' = "done"
        BY <3>2, <4>1 DEF Stage
      <4> QED BY <3>1, <3>2, <4>2 DEF Remote!Next, Remote!Perform
    <3>4. CASE ~Access(pready)
      <4>1. performed' = performed BY <3>1, <3>4 DEF ApbValues
      <4>2. Stage' = Stage BY <3>2, <4>1 DEF Stage
      <4> QED BY <3>1, <3>2, <4>2 DEF Remote!remoteVars
    <3> QED BY <3>3, <3>4
  <2>3. CASE UNCHANGED dtmVars
    BY <2>3, Zenon DEF dtmVars, tckRegs, Remote!remoteVars, Stage
  <2> QED BY <2>1, <2>2, <2>3 DEF Next, TckClock, ApbClock
<1> QED BY <1>1, <1>2, HandshakeHolds, PTL DEF Spec, RemoteSpec, Remote!Spec
-----------------------------------------------------------------------------
(* How long a request takes, in edges of TCK, with at least two of APB      *)
(* between them.  Besides the wait of the bus nine edges of APB pass at     *)
(* most until complete has risen and come to rest, and six from the rise of *)
(* complete_ack until complete has fallen and come to rest; in each an edge *)
(* may be spent on lowering ready_ack.  The other eight edges of TCK are    *)
(* those of the synchronizers and of the registers behind them.             *)
Rising  == (MaxWait + 9) \div MinApbPerTck
Falling == 6 \div MinApbPerTck
Latency == Rising + Falling + 8

(* The waits of a paced host leave room for it: from a read to its fetch,   *)
(* and from a write to the update after the next.                           *)
WaitsSuffice ==
    /\ MinApbPerTck >= 2
    /\ Latency <= ReadGap /\ Latency <= WriteGap + ScanGap + 1

(* What APB edges have passed at least after e edges of TCK. *)
Time(e) == MinApbPerTck * e

(* How many places a level still has to go before it is used. *)
ToGo(chain) == IF chain[3] = 1 THEN 1 ELSE IF chain[2] = 1 THEN 2 ELSE 3

(* A level that has just changed, e edges of TCK after the request, is      *)
(* sampled by the second APB edge at the latest.                            *)
JustChanged(name) == apbEdges <= 1 /\ (apbEdges = 0 \/ name \notin moving)

(* The stages of a request, and how long they may last: e edges of TCK have *)
(* passed since it was accepted, or more.                                   *)
Asked(e) ==
    performed = 0 /\ ~apb_busy =>
        IF Quiet(ready_sync) THEN e = 0 /\ ready = 1 /\ JustChanged("ready")
        ELSE Time(e) + apbEdges + ToGo(ready_sync) <= 5
Accessing(e) ==
    performed = 0 /\ apb_busy =>
        Time(e) + apbEdges + (IF penable THEN MaxWait + 1 - waited ELSE MaxWait + 2) <= MaxWait + 7
Performed(e) ==
    performed = 1 /\ apb_busy /\ complete = 0 => Time(e) + apbEdges + ready_ack <= MaxWait + 8
Completed(e) ==
    complete = 1 /\ complete_ack = 0 =>
        /\ complete_sync[1] = 0 => Time(e) <= MaxWait + 9
        /\ "complete" \in moving => Time(e) + apbEdges <= MaxWait + 9
        /\ e <= Rising + complete_sync[1] + complete_sync[2] + complete_sync[3]
Acknowledging(e) ==
    complete = 1 /\ complete_ack = 1 =>
        IF Quiet(complete_ack_sync) THEN e <= Rising + 4 /\ JustChanged("complete_ack")
        ELSE Time(e) + apbEdges + ToGo(complete_ack_sync) + ready_ack <= Time(Rising + 4) + 6
Ending(e) ==
    performed = 1 /\ ~apb_busy =>
        /\ complete_sync[1] = 1 => Time(e) <= Time(Rising + 4) + 6
        /\ "complete" \in moving => Time(e) + apbEdges <= Time(Rising + 4) + 6
        /\ e <= Rising + Falling + 7 - complete_sync[1] - complete_sync[2] - complete_sync[3]

Paced(e) ==
    jtag_busy => Asked(e) /\ Accessing(e) /\ Performed(e) /\ Completed(e) /\ Acknowledging(e) /\ Ending(e)

(* Facts about products and quotients of constants. *)
LEMMA ProductNext == \A m, k \in Nat : m * (k + 1) = m * k + m
OBVIOUS

LEMMA ProductGrows ==
    ASSUME NEW m \in Nat, NEW j \in Nat, NEW k \in Nat, j <= k
    PROVE  m * j <= m * k
<1>1. PICK x \in Nat : k = j + x
  OBVIOUS
<1>2. m * k = m * j + m * x
  BY <1>1
<1>3. m * x \in Nat /\ m * j \in Nat
  OBVIOUS
<1> QED BY <1>2, <1>3

LEMMA QuotientFits ==
    ASSUME NEW m \in Nat \ {0}, NEW n \in Nat
    PROVE  n \div m \in Nat /\ n < m * ((n \div m) + 1)
OBVIOUS

(* No more edges of TCK fit into n edges of APB than the quotient.          *)
LEMMA EdgesThatFit ==
    ASSUME NEW m \in Nat \ {0}, NEW k \in Nat, NEW n \in Nat, m * k <= n
    PROVE  k <= n \div m
<1> DEFINE q == n \div m
<1>1. q \in Nat /\ n < m * (q + 1)
  BY QuotientFits
<1> HIDE DEF q
<1>2. ASSUME q < k PROVE FALSE
  <2>1. m * (q + 1) <= m * k
    BY <1>1, <1>2, ProductGrows
  <2> QED BY <2>1, <1>1
<1>3. k <= q
  BY <1>1, <1>2
<1> QED BY <1>3 DEF q

(* The constants of a paced host, and time counted by them. *)
Clocks == MinApbPerTck \in Nat /\ MinApbPerTck >= 2 /\ MaxWait \in Nat /\ Rising \in Nat /\ Falling \in Nat

LEMMA ClocksHold == MinApbPerTck >= 2 => Clocks
<1> SUFFICES ASSUME MinApbPerTck >= 2 PROVE Clocks
  OBVIOUS
<1>1. MinApbPerTck \in Nat \ {0} /\ MaxWait \in Nat
  BY ReveDtmAssumption
<1>2. MaxWait + 9 \in Nat /\ 6 \in Nat
  BY <1>1
<1> QED BY <1>1, <1>2, QuotientFits DEF Clocks, Rising, Falling

LEMMA TimePasses ==
    ASSUME Clocks, NEW e \in Nat
    PROVE  /\ Time(e) \in Nat /\ Time(e + 1) = Time(e) + MinApbPerTck /\ Time(0) = 0
           /\ Time(e) <= MaxWait + 9 => e <= Rising
           /\ Time(e) <= Time(Rising + 4) + 6 => e <= Rising + 4 + Falling
           /\ e <= Rising + 4 => Time(e) <= Time(Rising + 4)
<1>1. MinApbPerTck \in Nat \ {0} /\ MaxWait + 9 \in Nat /\ 6 \in Nat /\ Rising \in Nat /\ Falling \in Nat
  BY DEF Clocks
<1>2. Time(e) \in Nat /\ Time(e + 1) = Time(e) + MinApbPerTck /\ Time(0) = 0
  BY <1>1, ProductNext DEF Time
<1>3. Time(e) <= MaxWait + 9 => e <= Rising
  BY <1>1, EdgesThatFit DEF Time, Rising
<1>4. e <= Rising + 4 => Time(e) <= Time(Rising + 4)
  <2>1. Rising + 4 \in Nat
    BY <1>1
  <2> QED BY <1>1, <2>1, ProductGrows DEF Time
<1>5. ASSUME Time(e) <= Time(Rising + 4) + 6 PROVE e <= Rising + 4 + Falling
  <2>1. CASE e <= Rising + 4
    BY <1>1, <2>1
  <2>2. CASE e > Rising + 4
    <3>1. PICK x \in Nat : e = Rising + 4 + x
      BY <1>1, <2>2
    <3>2. Time(e) = Time(Rising + 4) + MinApbPerTck * x
      <4> DEFINE r == Rising + 4
      <4>1. r \in Nat /\ e = r + x
        BY <1>1, <3>1
      <4> HIDE DEF r
      <4>2. MinApbPerTck * (r + x) = MinApbPerTck * r + MinApbPerTck * x
        BY <1>1, <4>1
      <4> QED BY <4>1, <4>2 DEF Time, r
    <3>3. MinApbPerTck * x \in Nat /\ Time(Rising + 4) \in Nat
      BY <1>1 DEF Time
    <3>4. MinApbPerTck * x <= 6
      BY <1>5, <3>2, <3>3
    <3>5. x <= Falling
      BY <1>1, <3>4, EdgesThatFit DEF Falling
    <3> QED BY <1>1, <3>1, <3>5
  <2> QED BY <1>1, <2>1, <2>2
<1> QED BY <1>2, <1>3, <1>4, <1>5

(* What the handshake says of the levels, bit by bit. *)
Phases ==
    /\ Bits /\ RingBits /\ Rest /\ Stages /\ ReadyOnce
    /\ "complete" \in moving => complete # complete_sync[1]
    /\ "complete_ack" \in moving => complete_ack # complete_ack_sync[1]

LEMMA HandshakePhases == HandshakeInv => Phases
BY BitByBit, RingWrittenOut DEF HandshakeInv, OneChange, Phases

(* The edges since the last TCK edge, and the state of the access. *)
Counts == apbEdges \in 0..MinApbPerTck /\ waited \in 0..MaxWait

LEMMA ToGoIsSmall == ToGo(ready_sync) \in 1..3 /\ ToGo(complete_ack_sync) \in 1..3
BY DEF ToGo

(* A busy request has not yet taken as long as it may.                      *)
LEMMA PacedEnds ==
    ASSUME HandshakeInv, Clocks, Counts, jtag_busy, NEW e \in Nat, Paced(e)
    PROVE  e < Latency
<1>1. Phases
  BY HandshakePhases
<1>2. /\ Time(e) \in Nat
      /\ Time(e) <= MaxWait + 9 => e <= Rising
      /\ Time(e) <= Time(Rising + 4) + 6 => e <= Rising + 4 + Falling
  BY TimePasses
<1>3. Rising \in Nat /\ Falling \in Nat /\ MaxWait \in Nat /\ Time(Rising + 4) \in Nat
  BY DEF Clocks, Time
<1>4. apbEdges \in Nat /\ waited \in Nat /\ waited <= MaxWait /\ ready_ack \in {0, 1}
  BY <1>1, <1>3 DEF Counts, Clocks, Phases, Bits, Bit
<1>5. CASE performed = 0 /\ ~apb_busy
  BY <1>2, <1>3, <1>4, <1>5, ToGoIsSmall DEF Paced, Asked, Latency
<1>6. CASE performed = 0 /\ apb_busy
  BY <1>2, <1>3, <1>4, <1>6 DEF Paced, Accessing, Latency
<1>7. CASE performed = 1 /\ apb_busy /\ complete = 0
  BY <1>2, <1>3, <1>4, <1>7 DEF Paced, Performed, Latency
<1>8. CASE complete = 1 /\ complete_ack = 0
  BY <1>1, <1>2, <1>3, <1>4, <1>8 DEF Paced, Completed, Latency, Phases, Bits, Bit
<1>9. CASE complete = 1 /\ complete_ack = 1
  BY <1>1, <1>2, <1>3, <1>4, <1>9, ToGoIsSmall DEF Paced, Acknowledging, Latency
<1>10. CASE performed = 1 /\ ~apb_busy
  BY <1>1, <1>2, <1>3, <1>4, <1>10 DEF Paced, Ending, Latency, Phases, Bits, Bit
<1> QED BY <1>1, <1>5, <1>6, <1>7, <1>8, <1>9, <1>10 DEF Phases, Bits, Bit, Stages

(* A request that has just been accepted. *)
LEMMA PacedAccept ==
    ASSUME HandshakeInv, Clocks, Counts, NEW act \in Acts, TckEdge(act), Accepts(act)
    PROVE  Paced(0)'
<1>1. Phases /\ TckValues(act) /\ apbEdges' = 0
  BY HandshakePhases, TckNewValues DEF TckEdge
<1>2. /\ ~jtag_busy /\ performed' = 0 /\ ~apb_busy' /\ ready' = 1 /\ complete' = 0
      /\ ready_sync[1] = 0 /\ ready_sync[2] = 0 /\ ready_sync[3] = 0 /\ ready_sync' = ready_sync
  BY <1>1 DEF TckValues, Phases, Rest, Quiet
<1>3. Asked(0)'
  BY <1>1, <1>2 DEF Asked, Quiet, JustChanged
<1>4. Accessing(0)' /\ Performed(0)' /\ Completed(0)' /\ Acknowledging(0)' /\ Ending(0)'
  BY <1>2 DEF Accessing, Performed, Completed, Acknowledging, Ending
<1> QED BY <1>3, <1>4 DEF Paced

(* An edge of TCK: the request is d edges old after it. *)
LEMMA PacedTck ==
    ASSUME HandshakeInv, Clocks, Counts, NEW act \in Acts, TckEdge(act), jtag_busy, ~Ends,
           NEW e \in Nat, NEW d \in {e, e + 1}, Paced(e)
    PROVE  Paced(d)'
<1>1. Phases /\ TckValues(act) /\ apbEdges' = 0 /\ waited' = waited
  BY HandshakePhases, TckNewValues DEF TckEdge
<1>2. apbEdges = MinApbPerTck /\ MinApbPerTck \in Nat /\ MinApbPerTck >= 2
  BY DEF TckEdge, Counts, Clocks
<1>3. d \in Nat /\ d <= e + 1 /\ Time(e) \in Nat /\ Time(d) \in Nat /\ Time(d) <= Time(e) + MinApbPerTck
  BY <1>2, TimePasses
<1>4. /\ Time(d) <= MaxWait + 9 => d <= Rising
      /\ Time(d) <= Time(Rising + 4) + 6 => d <= Rising + 4 + Falling
  BY <1>3, TimePasses
<1>5. Rising \in Nat /\ Falling \in Nat /\ MaxWait \in Nat /\ Time(Rising + 4) \in Nat
  BY DEF Clocks, Time
<1>6. /\ jtag_busy' /\ performed' = performed /\ (apb_busy' <=> apb_busy) /\ (penable' <=> penable)
      /\ complete' = complete /\ ready_ack' = ready_ack
      /\ ready_sync' = ready_sync /\ complete_ack_sync' = complete_ack_sync
  BY <1>1 DEF TckValues
<1>7. Bits' /\ RingBits' /\ Stages'
  BY TckKeeps, BitByBitNext, RingWrittenOutNext DEF HandshakeInv, OneChange
<1>8. Asked(d)'
  <2> SUFFICES ASSUME performed' = 0, ~apb_busy' PROVE Asked(d)'
    BY DEF Asked
  <2>1. ~Quiet(ready_sync) /\ Time(e) + apbEdges + ToGo(ready_sync) <= 5
    BY <1>2, <1>6 DEF Paced, Asked, JustChanged
  <2>2. ~Quiet(ready_sync)' /\ ToGo(ready_sync)' = ToGo(ready_sync)
    BY <1>6, <2>1 DEF Quiet, ToGo
  <2> QED BY <1>1, <1>2, <1>3, <2>1, <2>2, ToGoIsSmall DEF Asked
<1>9. Accessing(d)'
  <2> SUFFICES ASSUME performed' = 0, apb_busy' PROVE Accessing(d)'
    BY DEF Accessing
  <2>1. Time(e) + apbEdges + (IF penable THEN MaxWait + 1 - waited ELSE MaxWait + 2) <= MaxWait + 7
    BY <1>6 DEF Paced, Accessing
  <2>2. waited \in Nat /\ waited <= MaxWait
    BY <1>5 DEF Counts
  <2> QED BY <1>1, <1>2, <1>3, <1>5, <1>6, <2>1, <2>2 DEF Accessing
<1>10. Performed(d)'
  BY <1>1, <1>2, <1>3, <1>5, <1>6 DEF Paced, Performed, Phases, Bits, Bit
<1>11. Completed(d)'
  <2> SUFFICES ASSUME complete' = 1, complete_ack' = 0 PROVE Completed(d)'
    BY DEF Completed
  <2>1. complete = 1 /\ complete_sync[3] = 0 /\ complete_ack = 0 /\ "complete" \notin moving'
    BY <1>1, <1>6 DEF TckValues, Phases, RingBits, Bits, Bit
  <2>2. /\ complete_sync[1] = 0 => Time(e) <= MaxWait + 9
        /\ "complete" \in moving => Time(e) + apbEdges <= MaxWait + 9
        /\ e <= Rising + complete_sync[1] + complete_sync[2] + complete_sync[3]
    BY <2>1 DEF Paced, Completed
  <2>3. complete_sync'[2] = complete_sync[1] /\ complete_sync'[3] = complete_sync[2]
    BY <1>1 DEF TckValues
  <2>4. CASE complete_sync'[1] = 0
    <3>1. "complete" \in moving /\ complete_sync[1] = 0 /\ complete_sync[2] = 0
      BY <1>1, <1>7, <2>1, <2>4 DEF TckValues, Phases, RingBits, Bits, Bit
    <3>2. Time(d) <= MaxWait + 9
      BY <1>2, <1>3, <1>5, <2>2, <3>1
    <3>3. d <= Rising
      BY <1>4, <3>2
    <3> QED BY <2>1, <2>3, <2>4, <3>1, <3>2, <3>3, <1>5, <1>3 DEF Completed
  <2>5. CASE complete_sync'[1] = 1
    <3>1. complete_sync[1] \in {0, 1} /\ complete_sync[2] \in {0, 1}
      BY <1>1 DEF Phases, Bits, Bit
    <3>2. d <= Rising + complete_sync'[1] + complete_sync'[2] + complete_sync'[3]
      BY <1>3, <1>5, <2>1, <2>2, <2>3, <2>5, <3>1
    <3> QED BY <2>1, <2>5, <3>2 DEF Completed
  <2> QED BY <2>4, <2>5, <1>7 DEF Bits, Bit
<1>12. Acknowledging(d)'
  <2> SUFFICES ASSUME complete' = 1, complete_ack' = 1 PROVE Acknowledging(d)'
    BY DEF Acknowledging
  <2>1. CASE complete_ack = 0
    <3>1. complete = 1 /\ complete_sync[1] = 1 /\ complete_sync[2] = 1 /\ complete_sync[3] = 1
      BY <1>1, <1>6, <2>1 DEF TckValues, Phases, RingBits, Bits, Bit
    <3>2. Quiet(complete_ack_sync)
      BY <1>1, <2>1, <3>1 DEF Phases, RingBits, Bits, Bit, Quiet
    <3>3. Quiet(complete_ack_sync)'
      BY <1>6, <3>2 DEF Quiet
    <3>4. d <= Rising + 4
      BY <1>3, <1>5, <2>1, <3>1 DEF Paced, Completed
    <3> QED BY <1>1, <3>3, <3>4 DEF Acknowledging, JustChanged
  <2>2. CASE complete_ack = 1
    <3>1. ~Quiet(complete_ack_sync) /\ Time(e) + apbEdges + ToGo(complete_ack_sync) + ready_ack <= Time(Rising + 4) + 6
      BY <1>2, <1>6, <2>2 DEF Paced, Acknowledging, JustChanged
    <3>2. ~Quiet(complete_ack_sync)' /\ ToGo(complete_ack_sync)' = ToGo(complete_ack_sync)
      BY <1>6, <3>1 DEF Quiet, ToGo
    <3>3. ready_ack \in {0, 1}
      BY <1>1 DEF Phases, Bits, Bit
    <3> QED BY <1>1, <1>2, <1>3, <1>5, <1>6, <3>1, <3>2, <3>3, ToGoIsSmall DEF Acknowledging
  <2> QED BY <2>1, <2>2, <1>1 DEF Phases, Bits, Bit
<1>13. Ending(d)'
  <2> SUFFICES ASSUME performed' = 1, ~apb_busy' PROVE Ending(d)'
    BY DEF Ending
  <2>1. complete = 0 /\ complete_ack = 1 /\ "complete" \notin moving' /\ complete_sync[3] = 1
    BY <1>1, <1>6 DEF TckValues, Phases, Stages, Bits, Bit
  <2>2. /\ complete_sync[1] = 1 => Time(e) <= Time(Rising + 4) + 6
        /\ "complete" \in moving => Time(e) + apbEdges <= Time(Rising + 4) + 6
        /\ e <= Rising + Falling + 7 - complete_sync[1] - complete_sync[2] - complete_sync[3]
    BY <1>6 DEF Paced, Ending
  <2>3. complete_sync'[2] = complete_sync[1] /\ complete_sync'[3] = complete_sync[2]
    BY <1>1 DEF TckValues
  <2>4. CASE complete_sync'[1] = 1
    <3>1. "complete" \in moving /\ complete_sync[1] = 1 /\ complete_sync[2] = 1
      BY <1>1, <1>7, <2>1, <2>4 DEF TckValues, Phases, RingBits, Bits, Bit
    <3>2. Time(d) <= Time(Rising + 4) + 6
      BY <1>2, <1>3, <1>5, <2>2, <3>1
    <3>3. d <= Rising + 4 + Falling
      BY <1>4, <3>2
    <3> QED BY <2>1, <2>3, <2>4, <3>1, <3>2, <3>3, <1>5, <1>3 DEF Ending
  <2>5. CASE complete_sync'[1] = 0
    <3>1. complete_sync[1] \in {0, 1} /\ complete_sync[2] \in {0, 1}
      BY <1>1 DEF Phases, Bits, Bit
    <3>2. d <= Rising + Falling + 7 - complete_sync'[1] - complete_sync'[2] - complete_sync'[3]
      BY <1>3, <1>5, <2>1, <2>2, <2>3, <2>5, <3>1
    <3> QED BY <2>1, <2>5, <3>2 DEF Ending
  <2> QED BY <2>4, <2>5, <1>7 DEF Bits, Bit
<1> QED BY <1>8, <1>9, <1>10, <1>11, <1>12, <1>13 DEF Paced

(* An edge of APB. *)
LEMMA PacedApb ==
    ASSUME HandshakeInv, Clocks, Counts, NEW pready \in BOOLEAN, ApbEdge(pready), jtag_busy,
           NEW e \in Nat, Paced(e)
    PROVE  Paced(e)'
<1>1. Phases /\ ApbValues(pready)
  BY HandshakePhases, ApbNewValues
<1>2. /\ apbEdges \in Nat /\ apbEdges <= MinApbPerTck /\ MinApbPerTck \in Nat /\ MinApbPerTck >= 2
      /\ apbEdges' = IF apbEdges < MinApbPerTck THEN apbEdges + 1 ELSE apbEdges
      /\ waited' = IF pready \/ ~penable THEN 0 ELSE waited + 1
      /\ pready \/ waited < MaxWait
      /\ waited \in Nat /\ waited <= MaxWait
  BY DEF ApbEdge, Counts, Clocks
<1>3. Time(e) \in Nat
  BY TimePasses
<1>4. Rising \in Nat /\ Falling \in Nat /\ MaxWait \in Nat /\ Time(Rising + 4) \in Nat
  BY DEF Clocks, Time
<1>5. /\ jtag_busy' /\ request' = request /\ ready' = ready /\ complete_ack' = complete_ack
      /\ complete_sync' = complete_sync
  BY <1>1 DEF ApbValues
<1>6. Bits' /\ RingBits' /\ Stages' /\ Rest'
  BY ApbKeeps, BitByBitNext, RingWrittenOutNext DEF HandshakeInv, OneChange
<1>7. apbEdges' \in Nat /\ apbEdges' <= apbEdges + 1 /\ apbEdges' >= 1
  BY <1>2
<1>8. Asked(e)'
  <2> SUFFICES ASSUME performed' = 0, ~apb_busy' PROVE Asked(e)'
    BY DEF Asked
  <2>1. performed = 0 /\ ~apb_busy /\ ready_sync[3] = 0
    BY <1>1, <1>6 DEF ApbValues, Phases, Stages, Bits, Bit
  <2>2. CASE Quiet(ready_sync)
    <3>1. e = 0 /\ ready = 1 /\ JustChanged("ready")
      BY <2>1, <2>2 DEF Paced, Asked
    <3>2. CASE ready_sync'[1] = 0
      <4>1. "ready" \in moving /\ apbEdges = 0
        BY <1>1, <3>1, <3>2 DEF ApbValues, JustChanged
      <4>2. Quiet(ready_sync)'
        BY <1>1, <2>2, <3>2 DEF ApbValues, Quiet
      <4> QED BY <1>1, <1>2, <1>5, <3>1, <4>1, <4>2 DEF Asked, JustChanged, ApbValues
    <3>3. CASE ready_sync'[1] = 1
      <4>1. ~Quiet(ready_sync)' /\ ToGo(ready_sync)' = 3
        BY <1>1, <2>2, <3>3 DEF ApbValues, Quiet, ToGo
      <4>2. Time(e) = 0 /\ apbEdges <= 1
        BY <3>1, TimePasses DEF JustChanged
      <4> QED BY <1>2, <1>7, <4>1, <4>2 DEF Asked
    <3> QED BY <3>2, <3>3, <1>6 DEF Bits, Bit
  <2>3. CASE ~Quiet(ready_sync)
    <3>1. Time(e) + apbEdges + ToGo(ready_sync) <= 5
      BY <2>1, <2>3 DEF Paced, Asked
    <3>2. ~Quiet(ready_sync)' /\ ToGo(ready_sync)' + 1 = ToGo(ready_sync)
      BY <1>1, <2>1, <2>3 DEF ApbValues, Quiet, ToGo, Phases, Bits, Bit
    <3>3. ToGo(ready_sync)' \in Nat
      BY DEF ToGo
    <3> QED BY <1>3, <1>7, <1>2, <3>1, <3>2, <3>3 DEF Asked
  <2> QED BY <2>2, <2>3
<1>9. Accessing(e)'
  <2> SUFFICES ASSUME performed' = 0, apb_busy' PROVE Accessing(e)'
    BY DEF Accessing
  <2>1. performed = 0 /\ ~Access(pready)
    BY <1>1 DEF ApbValues, Phases, Bits
  <2>2. CASE Starts
    <3>1. ~apb_busy /\ ready_sync[3] = 1 /\ ~penable'
      BY <1>1, <2>2 DEF ApbValues
    <3>2. Time(e) + apbEdges + 1 <= 5
      BY <2>1, <3>1 DEF Paced, Asked, Quiet, ToGo
    <3> QED BY <1>2, <1>3, <1>4, <1>7, <3>1, <3>2 DEF Accessing
  <2>3. CASE ~Starts
    <3>1. apb_busy /\ access_in_progress /\ penable'
      BY <1>1, <2>1, <2>3 DEF ApbValues, Phases, Stages
    <3>2. Time(e) + apbEdges + (IF penable THEN MaxWait + 1 - waited ELSE MaxWait + 2) <= MaxWait + 7
      BY <2>1, <3>1 DEF Paced, Accessing
    <3>3. CASE penable
      <4>1. waited' = waited + 1
        BY <1>2, <2>1, <3>1, <3>3 DEF Access
      <4> QED BY <1>2, <1>3, <1>4, <1>7, <3>1, <3>2, <3>3, <4>1 DEF Accessing
    <3>4. CASE ~penable
      BY <1>2, <1>3, <1>4, <1>7, <3>1, <3>2, <3>4 DEF Accessing
    <3> QED BY <3>3, <3>4
  <2> QED BY <2>2, <2>3
<1>10. Performed(e)'
  <2> SUFFICES ASSUME performed' = 1, apb_busy', complete' = 0 PROVE Performed(e)'
    BY DEF Performed
  <2>1. ready_ack \in {0, 1} /\ ready_ack' \in {0, 1}
    BY <1>1, <1>6 DEF Phases, Bits, Bit
  <2>2. CASE Access(pready)
    <3>1. apb_busy /\ penable /\ performed = 0
      BY <1>1, <2>2 DEF Phases, Stages, Access, ApbValues
    <3>2. Time(e) + apbEdges + (MaxWait + 1 - waited) <= MaxWait + 7
      BY <3>1 DEF Paced, Accessing
    <3> QED BY <1>2, <1>3, <1>4, <1>7, <2>1, <3>2 DEF Performed
  <2>3. CASE ~Access(pready)
    <3>1. performed = 1 /\ ~Starts /\ apb_busy /\ complete = 0 /\ ~access_in_progress
      BY <1>1, <1>6, <2>3 DEF ApbValues, Phases, Stages, Bits, Bit, Acknowledged
    <3>2. Lowers /\ ready_ack = 1 /\ ready_ack' = 0
      BY <1>1, <3>1 DEF ApbValues, Completes
    <3>3. Time(e) + apbEdges + ready_ack <= MaxWait + 8
      BY <3>1 DEF Paced, Performed
    <3> QED BY <1>2, <1>3, <1>4, <1>7, <3>2, <3>3 DEF Performed
  <2> QED BY <2>2, <2>3
<1>11. Completed(e)'
  <2> SUFFICES ASSUME complete' = 1, complete_ack' = 0 PROVE Completed(e)'
    BY DEF Completed
  <2>1. CASE complete = 1
    <3>1. "complete" \notin moving'
      BY <1>1, <2>1 DEF ApbValues
    <3> QED BY <1>5, <2>1, <3>1 DEF Paced, Completed
  <2>2. CASE complete = 0
    <3>1. Completes /\ apb_busy /\ performed = 1 /\ Quiet(complete_sync)
      BY <1>1, <2>2 DEF ApbValues, Completes, Phases, Stages, Bits, Bit
    <3>2. Time(e) + apbEdges + ready_ack <= MaxWait + 8 /\ ready_ack \in {0, 1}
      BY <1>1, <2>2, <3>1 DEF Paced, Performed, Phases, Bits, Bit
    <3>3. Time(e) + apbEdges' <= MaxWait + 9
      BY <1>2, <1>3, <1>4, <1>7, <3>2
    <3>4. Time(e) <= MaxWait + 9
      BY <1>3, <1>4, <1>7, <3>3
    <3>5. e <= Rising
      BY <3>4, TimePasses
    <3> QED BY <1>4, <1>5, <3>1, <3>3, <3>4, <3>5 DEF Completed, Quiet
  <2> QED BY <2>1, <2>2, <1>1 DEF Phases, Bits, Bit
<1>12. Acknowledging(e)'
  <2> SUFFICES ASSUME complete' = 1, complete_ack' = 1 PROVE Acknowledging(e)'
    BY DEF Acknowledging
  <2>1. complete = 1 /\ complete_ack = 1 /\ ~Acknowledged
    BY <1>1, <1>5 DEF ApbValues, Completes, Phases, Stages, Bits, Bit, Rest
  <2>2. apb_busy /\ performed = 1 /\ ~access_in_progress /\ ~Starts
    BY <1>1, <2>1 DEF ApbValues, Phases, Stages, Bits, Bit, Rest
  <2>3. /\ ready_ack \in {0, 1} /\ ready_ack' = IF Lowers THEN 0 ELSE ready_ack
        /\ Lowers => ready_ack = 1
    BY <1>1, <2>2 DEF ApbValues, Phases, Bits, Bit
  <2>4. CASE Quiet(complete_ack_sync)
    <3>1. e <= Rising + 4 /\ JustChanged("complete_ack")
      BY <2>1, <2>4 DEF Paced, Acknowledging
    <3>2. CASE complete_ack_sync'[1] = 0
      <4>1. "complete_ack" \in moving /\ apbEdges = 0
        BY <1>1, <2>1, <3>1, <3>2 DEF ApbValues, JustChanged
      <4>2. Quiet(complete_ack_sync)'
        BY <1>1, <2>4, <3>2 DEF ApbValues, Quiet
      <4> QED BY <1>1, <1>2, <3>1, <4>1, <4>2 DEF Acknowledging, JustChanged, ApbValues
    <3>3. CASE complete_ack_sync'[1] = 1
      <4>1. ~Quiet(complete_ack_sync)' /\ ToGo(complete_ack_sync)' = 3
        BY <1>1, <2>4, <3>3 DEF ApbValues, Quiet, ToGo
      <4>2. Time(e) <= Time(Rising + 4) /\ apbEdges <= 1
        BY <3>1, TimePasses DEF JustChanged
      <4> QED BY <1>2, <1>3, <1>4, <1>7, <2>3, <4>1, <4>2 DEF Acknowledging
    <3> QED BY <3>2, <3>3, <1>6 DEF Bits, Bit
  <2>5. CASE ~Quiet(complete_ack_sync) /\ complete_ack_sync[3] = 0
    <3>1. Time(e) + apbEdges + ToGo(complete_ack_sync) + ready_ack <= Time(Rising + 4) + 6
      BY <2>1, <2>5 DEF Paced, Acknowledging
    <3>2. ~Quiet(complete_ack_sync)' /\ ToGo(complete_ack_sync)' + 1 = ToGo(complete_ack_sync)
      BY <1>1, <2>5 DEF ApbValues, Quiet, ToGo, Phases, Bits, Bit
    <3>3. ToGo(complete_ack_sync)' \in Nat
      BY DEF ToGo
    <3> QED BY <1>2, <1>3, <1>4, <1>7, <2>3, <3>1, <3>2, <3>3 DEF Acknowledging
  <2>6. CASE complete_ack_sync[3] = 1
    <3>1. Lowers /\ ready_ack = 1 /\ ready_ack' = 0
      BY <1>1, <2>1, <2>2, <2>3, <2>6 DEF ApbValues, Completes
    <3>2. complete_ack_sync[2] = 1 /\ ~Quiet(complete_ack_sync)
      BY <1>1, <2>1, <2>6 DEF Phases, RingBits, Bits, Bit, Quiet
    <3>3. ~Quiet(complete_ack_sync)' /\ ToGo(complete_ack_sync)' = 1 /\ ToGo(complete_ack_sync) = 1
      BY <1>1, <2>6, <3>2 DEF ApbValues, Quiet, ToGo
    <3>4. Time(e) + apbEdges + ToGo(complete_ack_sync) + ready_ack <= Time(Rising + 4) + 6
      BY <2>1, <3>2 DEF Paced, Acknowledging
    <3> QED BY <1>2, <1>3, <1>4, <1>7, <3>1, <3>3, <3>4 DEF Acknowledging
  <2> QED BY <2>4, <2>5, <2>6, <1>1 DEF Phases, Bits, Bit
<1>13. Ending(e)'
  <2> SUFFICES ASSUME performed' = 1, ~apb_busy' PROVE Ending(e)'
    BY DEF Ending
  <2>1. CASE apb_busy
    <3>1. Acknowledged /\ complete = 1 /\ complete_ack_sync[3] = 1 /\ ~Lowers /\ complete' = 0
      BY <1>1, <2>1 DEF ApbValues, Completes
    <3>2. complete_ack = 1 /\ complete_sync[1] = 1 /\ complete_sync[2] = 1 /\ complete_sync[3] = 1
      BY <1>1, <3>1 DEF Phases, RingBits, Bits, Bit
    <3>3. Time(e) + apbEdges + 1 + ready_ack <= Time(Rising + 4) + 6 /\ ready_ack \in {0, 1}
      BY <1>1, <3>1, <3>2 DEF Paced, Acknowledging, Quiet, ToGo, Phases, Bits, Bit
    <3>4. Time(e) + apbEdges' <= Time(Rising + 4) + 6
      BY <1>2, <1>3, <1>4, <1>7, <3>3
    <3>5. Time(e) <= Time(Rising + 4) + 6
      BY <1>3, <1>4, <1>7, <3>4
    <3>6. e <= Rising + 4 + Falling
      BY <3>5, TimePasses
    <3> QED BY <1>4, <1>5, <3>2, <3>4, <3>5, <3>6 DEF Ending
  <2>2. CASE ~apb_busy
    <3>1. performed = 1 /\ complete = 0 /\ complete' = 0
      BY <1>1, <2>2 DEF ApbValues, Phases, Stages, Bits, Bit, Completes, Access, Acknowledged
    <3>2. "complete" \notin moving'
      BY <1>1, <3>1 DEF ApbValues
    <3> QED BY <1>5, <2>2, <3>1, <3>2 DEF Paced, Ending
  <2> QED BY <2>1, <2>2
<1> QED BY <1>8, <1>9, <1>10, <1>11, <1>12, <1>13 DEF Paced

-----------------------------------------------------------------------------
(* A paced host: what it asked for last, and the edges of TCK since then.  *)
Hosts == [paced : BOOLEAN, next : {"capture", "update", "fetch", "drop"}, in : Nat]
Waiting ==
    \/ request.op = "read" /\ host.next = "fetch" /\ host.in <= ReadGap
    \/ request.op = "write" /\ host.next = "capture" /\ host.in <= WriteGap
    \/ request.op = "write" /\ host.next = "update" /\ host.in <= ScanGap
Elapsed ==
    IF host.next = "fetch" THEN ReadGap - host.in
    ELSE IF host.next = "capture" THEN WriteGap - host.in
    ELSE WriteGap + 1 + ScanGap - host.in
InTime ==
    /\ op_status = 0
    /\ jtag_busy => Waiting /\ \A e \in Nat : e = Elapsed => Paced(e)

PaceInv == HandshakeInv /\ Counts /\ host \in Hosts /\ (host.paced => InTime)

Gaps == Clocks /\ WaitsSuffice /\ WriteGap \in Nat /\ ReadGap \in Nat /\ ScanGap \in Nat

LEMMA GapsHold == WaitsSuffice => Gaps
BY ClocksHold, ReveDtmAssumption DEF Gaps, WaitsSuffice

LEMMA ElapsedIsNat == Gaps /\ host \in Hosts /\ Waiting => Elapsed \in Nat
BY DEF Gaps, Hosts, Waiting, Elapsed

(* The host and the counters keep their types. *)
LEMMA CountsTck ==
    ASSUME Clocks, Counts, NEW act \in Acts, TckEdge(act)
    PROVE  Counts'
BY DEF TckEdge, Counts, Clocks

LEMMA CountsApb ==
    ASSUME Clocks, Counts, NEW pready \in BOOLEAN, ApbEdge(pready)
    PROVE  Counts'
<1>1. apbEdges' \in 0..MinApbPerTck
  BY DEF ApbEdge, Counts, Clocks
<1>2. waited' \in 0..MaxWait
  BY DEF ApbEdge, Counts, Clocks
<1> QED BY <1>1, <1>2 DEF Counts

(* What a paced host does at an edge of TCK. *)
LEMMA HostMoves ==
    ASSUME Gaps, host \in Hosts, NEW act \in Acts, HostAct(act), host.paced
    PROVE  /\ host' \in Hosts /\ host'.paced
           /\ \/ act.op = "none" /\ host'.next = host.next /\ host'.in \in {host.in, host.in - 1}
              \/ host.in = 0 /\ host.next = "capture" /\ act.op = "capture"
                     /\ host'.next = "update" /\ host'.in = ScanGap
              \/ host.in = 0 /\ host.next = "update" /\ act \in Requests
                     /\ host'.next = (IF act.op = "write" THEN "capture" ELSE "fetch")
                     /\ host'.in = (IF act.op = "write" THEN WriteGap ELSE ReadGap)
              \/ host.in = 0 /\ host.next = "fetch" /\ act.op = "capture"
                     /\ host'.next = "drop" /\ host'.in = ScanGap
              \/ host.in = 0 /\ host.next = "drop" /\ act.op = "nop"
                     /\ host'.next = "capture" /\ host'.in = WriteGap
<1>1. host = [paced |-> host.paced, next |-> host.next, in |-> host.in] /\ host.in \in Nat
      /\ host.next \in {"capture", "update", "fetch", "drop"}
  BY DEF Hosts
<1>2. WriteGap \in Nat /\ ReadGap \in Nat /\ ScanGap \in Nat
  BY DEF Gaps
<1>3. CASE host.in > 0
  <2>1. act.op = "none" /\ host' = [host EXCEPT !.next = host.next, !.in = host.in - 1]
    BY <1>3 DEF HostAct, Then
  <2>2. host.in - 1 \in Nat
    BY <1>1, <1>3
  <2> QED BY <1>1, <2>1, <2>2 DEF Hosts
<1>4. CASE host.in = 0
  <2>1. CASE act.op = "none" /\ host' = host
    BY <1>1, <2>1
  <2>2. CASE host.next = "capture" /\ act.op = "capture" /\ Then("update", ScanGap)
    BY <1>1, <1>2, <1>4, <2>2 DEF Then, Hosts
  <2>3. CASE host.next = "update" /\ act \in Requests
               /\ IF act.op = "write" THEN Then("capture", WriteGap) ELSE Then("fetch", ReadGap)
    BY <1>1, <1>2, <1>4, <2>3 DEF Then, Hosts
  <2>4. CASE host.next = "fetch" /\ act.op = "capture" /\ Then("drop", ScanGap)
    BY <1>1, <1>2, <1>4, <2>4 DEF Then, Hosts
  <2>5. CASE host.next = "drop" /\ act.op = "nop" /\ Then("capture", WriteGap)
    BY <1>1, <1>2, <1>4, <2>5 DEF Then, Hosts
  <2> QED BY <1>1, <1>4, <2>1, <2>2, <2>3, <2>4, <2>5 DEF HostAct
<1> QED BY <1>1, <1>3, <1>4

LEMMA HostStaysTyped ==
    ASSUME Gaps, host \in Hosts, NEW act \in Acts, TckEdge(act)
    PROVE  host' \in Hosts /\ (host'.paced <=> host.paced)
<1>1. HostAct(act)
  BY DEF TckEdge
<1>2. CASE host.paced
  BY <1>1, <1>2, HostMoves
<1>3. CASE ~host.paced
  BY <1>1, <1>3 DEF HostAct
<1> QED BY <1>2, <1>3

(* A request of a host that waits has ended when it fetches or goes on.    *)
LEMMA WaitedLongEnough ==
    ASSUME Gaps, PaceInv, host.paced, host.in = 0, host.next \in {"fetch", "update"}
    PROVE  ~jtag_busy
<1> SUFFICES ASSUME jtag_busy PROVE FALSE
  OBVIOUS
<1>1. Waiting /\ host \in Hosts /\ HandshakeInv /\ Counts /\ Clocks
  BY DEF PaceInv, InTime, Gaps
<1>2. Elapsed \in Nat
  BY <1>1, ElapsedIsNat
<1>3. PICK e \in Nat : e = Elapsed
  BY <1>2
<1>4. Paced(e)
  BY <1>3 DEF PaceInv, InTime
<1>5. e < Latency
  BY <1>1, <1>4, PacedEnds
<1>6. e = ReadGap \/ e = WriteGap + ScanGap + 1
  BY <1>1, <1>3 DEF Elapsed, Gaps
<1>7. Latency \in Nat
  BY DEF Gaps, Clocks, Latency
<1> QED BY <1>5, <1>6, <1>7 DEF Gaps, WaitsSuffice

LEMMA PaceTck ==
    ASSUME Gaps, PaceInv, NEW act \in Acts, TckEdge(act)
    PROVE  PaceInv'
<1>1. HandshakeInv /\ Counts /\ host \in Hosts /\ Clocks
  BY DEF PaceInv, Gaps
<1>2. HandshakeInv' /\ Counts' /\ host' \in Hosts /\ (host'.paced <=> host.paced)
  BY <1>1, TckKeeps, CountsTck, HostStaysTyped
<1> SUFFICES ASSUME host.paced PROVE InTime'
  BY <1>2 DEF PaceInv
<1>3. InTime
  BY DEF PaceInv
<1>4. TckValues(act) /\ HostAct(act) /\ OpStatus(act)
  BY <1>1, TckNewValues DEF TckEdge
<1>5. act \in Requests => Accepts(act) /\ host.in = 0 /\ host.next = "update"
  <2> SUFFICES ASSUME act \in Requests PROVE Accepts(act) /\ host.in = 0 /\ host.next = "update"
    OBVIOUS
  <2>1. host.in = 0 /\ host.next = "update"
    BY <1>1, <1>4, HostMoves DEF Requests
  <2>2. ~jtag_busy
    BY <2>1, WaitedLongEnough
  <2> QED BY <1>3, <2>1, <2>2, Zenon DEF Accepts, InTime
<1>6. ~(act.op = "capture" /\ jtag_busy /\ request.op = "read")
  <2> SUFFICES ASSUME act.op = "capture", jtag_busy, request.op = "read" PROVE FALSE
    OBVIOUS
  <2>1. host.next = "fetch"
    BY <1>3 DEF InTime, Waiting
  <2>2. host.in = 0
    BY <1>1, <1>4, <2>1, HostMoves DEF Requests
  <2> QED BY <2>1, <2>2, WaitedLongEnough
<1>7. op_status' = 0
  BY <1>3, <1>4, <1>5, <1>6 DEF OpStatus, InTime
<1> SUFFICES ASSUME jtag_busy' PROVE Waiting' /\ \A e \in Nat : e = Elapsed' => Paced(e)'
  BY <1>7 DEF InTime
<1>8. CASE Accepts(act)
  <2>1. act \in Requests /\ request' = act
    BY <1>4, <1>8 DEF Accepts, TckValues
  <2>2. act.op \in {"read", "write"}
    BY <2>1 DEF Requests
  <2>3. /\ host'.next = (IF act.op = "write" THEN "capture" ELSE "fetch")
        /\ host'.in = (IF act.op = "write" THEN WriteGap ELSE ReadGap)
    BY <1>1, <1>4, <1>5, <2>1, <2>2, HostMoves
  <2>4. Waiting' /\ Elapsed' = 0
    BY <2>1, <2>2, <2>3 DEF Waiting, Elapsed, Gaps
  <2>5. Paced(0)'
    BY <1>1, <1>8, PacedAccept
  <2> QED BY <2>4, <2>5
<1>9. CASE ~Accepts(act)
  <2>1. jtag_busy /\ ~Ends /\ request' = request /\ act \notin Requests
    BY <1>4, <1>5, <1>9 DEF TckValues
  <2>2. Waiting /\ Elapsed \in Nat
    BY <1>1, <1>3, <2>1, ElapsedIsNat DEF InTime
  <2>3. PICK e \in Nat : e = Elapsed
    BY <2>2
  <2>4. Paced(e)
    BY <1>3, <2>1, <2>3 DEF InTime
  <2>5. Waiting' /\ Elapsed' \in {e, e + 1}
    <3>1. \/ host'.next = host.next /\ host'.in \in {host.in, host.in - 1}
          \/ host.in = 0 /\ host.next = "capture" /\ host'.next = "update" /\ host'.in = ScanGap
          \/ host.in = 0 /\ host.next \in {"fetch", "drop"}
      BY <1>1, <1>4, <2>1, HostMoves
    <3>2. ~(host.in = 0 /\ host.next \in {"fetch", "drop"})
      BY <2>1, <2>2, WaitedLongEnough DEF Waiting
    <3>3. host.in \in Nat /\ host'.in \in Nat
      BY <1>1, <1>2 DEF Hosts
    <3>4. WriteGap \in Nat /\ ReadGap \in Nat /\ ScanGap \in Nat
      BY DEF Gaps
    <3> QED BY <2>1, <2>2, <2>3, <3>1, <3>2, <3>3, <3>4 DEF Waiting, Elapsed
  <2>6. ASSUME NEW d \in Nat, d = Elapsed' PROVE Paced(d)'
    <3>1. d \in {e, e + 1}
      BY <2>5, <2>6
    <3> QED BY <1>1, <2>1, <2>4, <3>1, PacedTck
  <2> QED BY <2>5, <2>6
<1> QED BY <1>8, <1>9

LEMMA PaceApb ==
    ASSUME Gaps, PaceInv, NEW pready \in BOOLEAN, ApbEdge(pready)
    PROVE  PaceInv'
<1>1. HandshakeInv /\ Counts /\ host \in Hosts /\ Clocks
  BY DEF PaceInv, Gaps
<1>2. HandshakeInv' /\ Counts' /\ host' = host
  BY <1>1, ApbKeeps, CountsApb DEF ApbEdge
<1>3. /\ op_status' = op_status /\ request' = request
      /\ jtag_busy' => jtag_busy
  BY DEF ApbEdge, tckRegs
<1> SUFFICES ASSUME host.paced PROVE InTime'
  BY <1>1, <1>2 DEF PaceInv
<1>4. InTime
  BY DEF PaceInv
<1> SUFFICES ASSUME jtag_busy' PROVE Waiting' /\ \A e \in Nat : e = Elapsed' => Paced(e)'
  BY <1>3, <1>4 DEF InTime
<1>5. Waiting'
  BY <1>2, <1>3, <1>4 DEF InTime, Waiting
<1>6. ASSUME NEW e \in Nat, e = Elapsed' PROVE Paced(e)'
  <2>1. e = Elapsed
    BY <1>2, <1>6 DEF Elapsed
  <2>2. jtag_busy /\ Paced(e)
    BY <1>3, <1>4, <2>1 DEF InTime
  <2> QED BY <1>1, <2>2, PacedApb
<1> QED BY <1>5, <1>6

LEMMA PaceStarts == Gaps /\ Init => PaceInv
<1> SUFFICES ASSUME Gaps, Init PROVE PaceInv
  OBVIOUS
<1>1. HandshakeInv
  BY HandshakeStarts
<1>2. Counts
  BY DEF Init, Counts, Gaps, Clocks
<1>3. host \in Hosts
  BY DEF Init, Hosts
<1>4. InTime
  BY DEF Init, InTime
<1> QED BY <1>1, <1>2, <1>3, <1>4 DEF PaceInv

LEMMA PaceStutters == PaceInv /\ UNCHANGED dtmVars => PaceInv'
<1> SUFFICES ASSUME PaceInv, UNCHANGED dtmVars PROVE PaceInv'
  OBVIOUS
<1>1. HandshakeInv'
  BY HandshakeStutters DEF PaceInv
<1>2. /\ UNCHANGED <<apbEdges, waited, host, op_status, jtag_busy, request, performed, apb_busy>>
      /\ UNCHANGED <<ready_sync, ready, moving, penable, ready_ack, complete, complete_ack>>
      /\ UNCHANGED <<complete_sync, complete_ack_sync>>
  BY DEF dtmVars, tckRegs, apbRegs
<1>3. \A e : Paced(e) => Paced(e)'
  BY <1>2 DEF Paced, Asked, Accessing, Performed, Completed, Acknowledging, Ending, Quiet, ToGo, JustChanged
<1>4. Counts' /\ host' \in Hosts
  BY <1>2 DEF PaceInv, Counts
<1>5. InTime => InTime'
  BY <1>2, <1>3 DEF InTime, Waiting, Elapsed
<1> QED BY <1>1, <1>2, <1>4, <1>5 DEF PaceInv

(* The fixed waits of ReveOCD suffice: a host whose waits are as long as    *)
(* the slowest access takes, and who makes an edge of TCK no more often     *)
(* than every second edge of APB, is never refused a request and never      *)
(* reads that one is still under way (reve/ocd.py:57-79,                    *)
(* riscv_jtag_apb_dm.v:307-351).                                            *)
THEOREM FixedWaitsSuffice ==
    ASSUME WaitsSuffice PROVE Spec => []NeverBusy
<1>1. Gaps
  BY GapsHold
<1>2. Init => PaceInv
  BY <1>1, PaceStarts
<1>3. PaceInv /\ [Next]_dtmVars => PaceInv'
  BY <1>1, PaceTck, PaceApb, PaceStutters DEF Next, TckClock, ApbClock
<1>4. PaceInv => NeverBusy
  BY DEF PaceInv, InTime, NeverBusy
<1> QED BY <1>2, <1>3, <1>4, PTL DEF Spec
=============================================================================
