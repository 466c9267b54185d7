----------------------------- MODULE Fifo_proofs -----------------------------
(***************************************************************************)
(* Proofs about Fifo for any depth, any words and both modes: the three    *)
(* registers agree, and the ring implements the bounded queue.             *)
(***************************************************************************)
EXTENDS Fifo, TLAPS

(* Remainders of numbers no larger than the divisor. *)
LEMMA SmallRemainder ==
    ASSUME NEW n \in Nat, n > 0, NEW k \in 0 .. n - 1 PROVE k % n = k
BY Z3

LEMMA FullRemainder == ASSUME NEW n \in Nat, n > 0 PROVE n % n = 0
BY Z3

(* Advance goes to the next slot and wraps behind the last one, whichever  *)
(* of its two ways of wrapping applies.                                    *)
LEMMA AdvanceWraps ==
    ASSUME NEW p \in Slots
    PROVE  Advance(p) = IF p + 1 = FIFO_DEPTH THEN 0 ELSE p + 1
<1>1. FIFO_DEPTH \in Nat /\ FIFO_DEPTH > 0 /\ FIFO_DEPTH <= POINTERS /\ POINTERS \in Nat
  BY FifoAssumption, SMT DEF FIFO_DEPTH
<1>2. p \in Int /\ 0 <= p /\ p < FIFO_DEPTH
  BY <1>1, SMT DEF Slots
<1>3. CASE FIFO_DEPTH = POINTERS
  <2>1. FIFO_DEPTH % POINTERS = 0
    BY <1>1, <1>3, FullRemainder
  <2>2. Advance(p) = (p + 1) % POINTERS
    BY <2>1, <1>2, SMT DEF Advance
  <2>3. CASE p + 1 = POINTERS
    BY <2>2, <2>3, <1>1, <1>3, FullRemainder
  <2>4. CASE p + 1 # POINTERS
    <3>1. p + 1 \in 0 .. POINTERS - 1
      BY <2>4, <1>1, <1>2, <1>3, SMT
    <3> QED BY <3>1, <2>2, <2>4, <1>1, <1>3, SmallRemainder
  <2> QED BY <2>3, <2>4
<1>4. CASE FIFO_DEPTH # POINTERS
  <2>1. FIFO_DEPTH \in 0 .. POINTERS - 1 /\ p + 1 \in 0 .. POINTERS - 1 /\ POINTERS > 0
    BY <1>1, <1>2, <1>4, SMT
  <2>2. FIFO_DEPTH % POINTERS = FIFO_DEPTH /\ (p + 1) % POINTERS = p + 1
    BY <2>1, <1>1, SmallRemainder
  <2> QED BY <2>2, <1>1, <1>2, SMT DEF Advance
<1> QED BY <1>3, <1>4

-----------------------------------------------------------------------------
(* The words that wait, as a function of the read pointer, the count and   *)
(* the memory.                                                             *)

LEMMA DepthFacts == /\ FIFO_DEPTH \in Nat /\ FIFO_DEPTH > 0 /\ FIFO_DEPTH >= DEPTH /\ DEPTH \in Nat
                    /\ (DEPTH > 0 => FIFO_DEPTH = DEPTH) /\ (DEPTH = 0 => FIFO_DEPTH = 1)
BY FifoAssumption, SMT DEF FIFO_DEPTH

LEMMA PlaceIsSlot ==
    ASSUME NEW p \in Slots, NEW k \in 0 .. FIFO_DEPTH PROVE Place(p, k) \in Slots
BY DepthFacts, SMT DEF Place, Slots

(* Distinct distances below the depth are distinct slots. *)
LEMMA PlacesDiffer ==
    ASSUME NEW p \in Slots, NEW k \in 0 .. FIFO_DEPTH - 1, NEW j \in 0 .. FIFO_DEPTH - 1, k # j
    PROVE  Place(p, k) # Place(p, j)
BY DepthFacts, SMT DEF Place, Slots

(* One step round the ring adds one to the distance. *)
LEMMA PlaceAdvances ==
    ASSUME NEW p \in Slots, NEW k \in 0 .. FIFO_DEPTH - 1
    PROVE  /\ Advance(p) \in Slots
           /\ Advance(Place(p, k)) = Place(p, k + 1)
           /\ Place(Advance(p), k) = Place(p, k + 1)
<1>1. Place(p, k) \in Slots
  <2>1. k \in 0 .. FIFO_DEPTH
    BY DepthFacts, SMT
  <2> QED BY <2>1, PlaceIsSlot
<1>2. /\ Advance(p) = IF p + 1 = FIFO_DEPTH THEN 0 ELSE p + 1
      /\ Advance(Place(p, k)) = IF Place(p, k) + 1 = FIFO_DEPTH THEN 0 ELSE Place(p, k) + 1
  BY <1>1, AdvanceWraps
<1> QED BY <1>1, <1>2, DepthFacts, SMT DEF Place, Slots

LEMMA WordsIsSeq ==
    ASSUME NEW p \in Slots, NEW n \in 0 .. FIFO_DEPTH, NEW m \in [Slots -> Data]
    PROVE  Words(p, n, m) \in Seq(Data) /\ Len(Words(p, n, m)) = n
<1>1. n \in Nat
  BY DepthFacts, SMT
<1>2. ASSUME NEW i \in 1 .. n PROVE m[Place(p, i - 1)] \in Data
  <2>1. i - 1 \in 0 .. FIFO_DEPTH
    BY <1>1, DepthFacts, SMT
  <2> QED BY <2>1, PlaceIsSlot
<1>3. Words(p, n, m) \in [1 .. n -> Data]
  BY <1>2 DEF Words
<1> QED BY <1>1, <1>3, SMT

LEMMA WordsPush ==
    ASSUME NEW p \in Slots, NEW n \in 0 .. FIFO_DEPTH - 1, NEW m \in [Slots -> Data], NEW d \in Data
    PROVE  Words(p, n + 1, [m EXCEPT ![Place(p, n)] = d]) = Append(Words(p, n, m), d)
<1> DEFINE w == [m EXCEPT ![Place(p, n)] = d]
<1>1. n \in Nat /\ n \in 0 .. FIFO_DEPTH /\ n + 1 \in 0 .. FIFO_DEPTH
  BY DepthFacts, SMT
<1>2. Place(p, n) \in Slots /\ w \in [Slots -> Data]
  BY <1>1, PlaceIsSlot
<1>3. ASSUME NEW i \in 1 .. n PROVE w[Place(p, i - 1)] = m[Place(p, i - 1)]
  <2>1. i - 1 \in 0 .. FIFO_DEPTH - 1 /\ i - 1 \in 0 .. FIFO_DEPTH /\ i - 1 # n
    BY <1>1, DepthFacts, SMT
  <2>2. Place(p, i - 1) # Place(p, n) /\ Place(p, i - 1) \in Slots
    BY <2>1, PlacesDiffer, PlaceIsSlot
  <2> QED BY <2>2
<1>4. w[Place(p, n)] = d
  BY <1>2
<1>5. Words(p, n, m) \in Seq(Data) /\ Len(Words(p, n, m)) = n
  BY <1>1, WordsIsSeq
<1>6. \A i \in 1 .. n + 1 : Words(p, n + 1, w)[i] = Append(Words(p, n, m), d)[i]
  <2> TAKE i \in 1 .. n + 1
  <2>1. Words(p, n + 1, w)[i] = w[Place(p, i - 1)]
    BY DEF Words
  <2>2. CASE i = n + 1
    <3>1. i - 1 = n
      BY <2>2, <1>1, SMT
    <3> HIDE DEF w
    <3> QED BY <2>1, <2>2, <3>1, <1>4, <1>5, <1>1, SMT
  <2>3. CASE i # n + 1
    <3>1. i \in 1 .. n
      BY <2>3, <1>1, SMT
    <3>2. Words(p, n, m)[i] = m[Place(p, i - 1)]
      BY <3>1 DEF Words
    <3>3. Append(Words(p, n, m), d)[i] = Words(p, n, m)[i]
      BY <3>1, <1>5, <1>1, SMT
    <3> QED BY <2>1, <3>1, <3>2, <3>3, <1>3
  <2> QED BY <2>2, <2>3
<1>7. Words(p, n + 1, w) \in Seq(Data) /\ Len(Words(p, n + 1, w)) = n + 1
  BY <1>1, <1>2, WordsIsSeq
<1> HIDE DEF w
<1>8. Append(Words(p, n, m), d) \in Seq(Data) /\ Len(Append(Words(p, n, m), d)) = n + 1
  BY <1>5, <1>1, SMT
<1>9. Words(p, n + 1, w) = Append(Words(p, n, m), d)
  BY <1>6, <1>7, <1>8, <1>1, SMT
<1> QED BY <1>9 DEF w

LEMMA WordsPop ==
    ASSUME NEW p \in Slots, NEW n \in 1 .. FIFO_DEPTH, NEW m \in [Slots -> Data]
    PROVE  /\ Words(p, n, m) # <<>> /\ Head(Words(p, n, m)) = m[p]
           /\ Words(Advance(p), n - 1, m) = Tail(Words(p, n, m))
<1>1. n \in Nat /\ n \in 0 .. FIFO_DEPTH /\ n - 1 \in 0 .. FIFO_DEPTH /\ n > 0 /\ p \in Int
  BY DepthFacts, SMT DEF Slots
<1>2. Advance(p) \in Slots
  <2>1. 0 \in 0 .. FIFO_DEPTH - 1
    BY DepthFacts, SMT
  <2> QED BY <2>1, PlaceAdvances
<1>3. /\ Words(p, n, m) \in Seq(Data) /\ Len(Words(p, n, m)) = n
      /\ Words(Advance(p), n - 1, m) \in Seq(Data) /\ Len(Words(Advance(p), n - 1, m)) = n - 1
  BY <1>1, <1>2, WordsIsSeq
<1>4. \A i \in 1 .. n - 1 : Words(Advance(p), n - 1, m)[i] = Words(p, n, m)[i + 1]
  <2> TAKE i \in 1 .. n - 1
  <2>1. i - 1 \in 0 .. FIFO_DEPTH - 1 /\ i + 1 \in 1 .. n /\ (i - 1) + 1 = (i + 1) - 1
    BY <1>1, DepthFacts, SMT
  <2>2. Place(Advance(p), i - 1) = Place(p, (i - 1) + 1)
    BY <2>1, PlaceAdvances
  <2>3. Words(Advance(p), n - 1, m)[i] = m[Place(Advance(p), i - 1)]
    BY DEF Words
  <2>4. Words(p, n, m)[i + 1] = m[Place(p, (i + 1) - 1)]
    BY <2>1 DEF Words
  <2> QED BY <2>1, <2>2, <2>3, <2>4
<1>5. Words(p, n, m)[1] = m[p]
  <2>1. 1 \in 1 .. n /\ Place(p, 1 - 1) = p
    BY <1>1, DepthFacts, SMT DEF Place, Slots
  <2> QED BY <2>1 DEF Words
<1>6. Words(p, n, m) # <<>> /\ Head(Words(p, n, m)) = Words(p, n, m)[1]
  BY <1>1, <1>3, SMT
<1>7. /\ Tail(Words(p, n, m)) \in Seq(Data) /\ Len(Tail(Words(p, n, m))) = n - 1
      /\ \A i \in 1 .. n - 1 : Tail(Words(p, n, m))[i] = Words(p, n, m)[i + 1]
  BY <1>1, <1>3, SMT
<1>8. Words(Advance(p), n - 1, m) = Tail(Words(p, n, m))
  BY <1>3, <1>4, <1>7, <1>1, SMT
<1> QED BY <1>5, <1>6, <1>8

-----------------------------------------------------------------------------
(* What one clock edge does, by what is pushed and popped. *)

Idles    == UNCHANGED fifoVars
Pushes1(d) == /\ status_cnt_q < DEPTH
              /\ read_pointer_q' = read_pointer_q /\ write_pointer_q' = Advance(write_pointer_q)
              /\ status_cnt_q' = status_cnt_q + 1
              /\ mem_q' = [mem_q EXCEPT ![write_pointer_q] = d] /\ out' = out
Pops1    == /\ status_cnt_q > 0
            /\ read_pointer_q' = Advance(read_pointer_q) /\ write_pointer_q' = write_pointer_q
            /\ status_cnt_q' = status_cnt_q - 1
            /\ mem_q' = mem_q /\ out' = <<mem_q[read_pointer_q]>>
Both(d)  == /\ status_cnt_q > 0 /\ status_cnt_q < DEPTH
            /\ read_pointer_q' = Advance(read_pointer_q) /\ write_pointer_q' = Advance(write_pointer_q)
            /\ status_cnt_q' = status_cnt_q
            /\ mem_q' = [mem_q EXCEPT ![write_pointer_q] = d] /\ out' = <<mem_q[read_pointer_q]>>
PassesBy(d) == /\ DEPTH = 0 \/ FALL_THROUGH
               /\ status_cnt_q = 0
               /\ read_pointer_q' = read_pointer_q /\ write_pointer_q' = write_pointer_q
               /\ status_cnt_q' = status_cnt_q
               /\ mem_q' = [mem_q EXCEPT ![write_pointer_q] = d] /\ out' = <<d>>

(* Every clock edge without a flush is one of the five. *)
LEMMA ShiftCases ==
    ASSUME RingInv, NEW push \in BOOLEAN, NEW pop \in BOOLEAN, NEW d \in Data, Shift(push, pop, d)
    PROVE  Idles \/ Pushes1(d) \/ Pops1 \/ Both(d) \/ PassesBy(d)
<1>1. /\ status_cnt_q \in 0 .. DEPTH /\ DEPTH \in Nat /\ FALL_THROUGH \in BOOLEAN
      /\ Place(read_pointer_q, status_cnt_q) = write_pointer_q
      /\ read_pointer_q \in Slots /\ write_pointer_q \in Slots
  BY FifoAssumption DEF RingInv, TypeOK
<1> DEFINE shifts == /\ ReadSide(push, pop) /\ WriteSide(push, pop) /\ Count(push, pop)
                     /\ Memory(push, pop, d) /\ HandOver(push, pop, d)
<1>2. shifts
  BY DEF Shift
<1> USE DEF ReadSide, WriteSide, Count, Memory, HandOver
<1>3. CASE DEPTH = 0
  <2>1. status_cnt_q = 0 /\ read_pointer_q = 0 /\ write_pointer_q = 0 /\ Advance(0) = 0
    <3>1. FIFO_DEPTH = 1
      BY <1>3, SMT DEF FIFO_DEPTH
    <3>2. 0 \in Slots /\ read_pointer_q = 0 /\ write_pointer_q = 0
      BY <3>1, <1>1, SMT DEF Slots
    <3>3. Advance(0) = 0
      BY <3>1, <3>2, AdvanceWraps, SMT
    <3> QED BY <3>2, <3>3, <1>1, <1>3, SMT
  <2>2. full(pop) = ~pop /\ empty(push) = ~push
    BY <1>3 DEF full, empty
  <2>3. CASE push /\ pop
    <3>1. Pushes(push, pop) /\ Pops(push, pop) /\ data_o(push, d) = d
      BY <2>2, <2>3, <1>3 DEF Pushes, Pops, data_o
    <3> QED BY <3>1, <2>1, <1>2, <1>3, Zenon DEF PassesBy
  <2>4. CASE ~(push /\ pop)
    <3>1. ~Pushes(push, pop) /\ ~Pops(push, pop) /\ ~Passes(push, pop)
      BY <2>2, <2>4 DEF Pushes, Pops, Passes, Through
    <3> QED BY <3>1, <1>2, Zenon DEF Idles, fifoVars
  <2> QED BY <2>3, <2>4
<1>4. CASE DEPTH # 0
  <2>1. full(pop) <=> status_cnt_q = DEPTH
    BY <1>4, <1>1, SMT DEF full, FIFO_DEPTH
  <2>2. empty(push) <=> status_cnt_q = 0 /\ ~(FALL_THROUGH /\ push)
    BY <1>4 DEF empty
  <2>3. \/ status_cnt_q = 0 /\ status_cnt_q < DEPTH /\ status_cnt_q # DEPTH /\ ~(status_cnt_q > 0)
        \/ status_cnt_q # 0 /\ status_cnt_q > 0 /\ status_cnt_q = DEPTH /\ ~(status_cnt_q < DEPTH)
        \/ status_cnt_q # 0 /\ status_cnt_q > 0 /\ status_cnt_q < DEPTH /\ status_cnt_q # DEPTH
    BY <1>1, <1>4, SMT
  <2>4. CASE Passes(push, pop)
    <3>1. Pushes(push, pop) /\ Pops(push, pop) /\ data_o(push, d) = d /\ status_cnt_q = 0 /\ FALL_THROUGH
      BY <2>1, <2>2, <2>3, <2>4 DEF Passes, Through, Pushes, Pops, data_o
    <3> QED BY <3>1, <2>4, <1>2, Zenon DEF PassesBy
  <2>5. CASE ~Passes(push, pop) /\ Pushes(push, pop) /\ Pops(push, pop)
    <3>1. status_cnt_q > 0 /\ status_cnt_q < DEPTH /\ data_o(push, d) = mem_q[read_pointer_q]
      BY <2>1, <2>2, <2>3, <2>5, <1>4 DEF Passes, Through, Pushes, Pops, data_o
    <3> QED BY <3>1, <2>5, <1>2, Zenon DEF Both
  <2>6. CASE ~Passes(push, pop) /\ Pushes(push, pop) /\ ~Pops(push, pop)
    <3>1. status_cnt_q < DEPTH
      BY <2>1, <2>3, <2>6 DEF Pushes
    <3> QED BY <3>1, <2>6, <1>2, Zenon DEF Pushes1
  <2>7. CASE ~Passes(push, pop) /\ ~Pushes(push, pop) /\ Pops(push, pop)
    <3>1. status_cnt_q > 0 /\ data_o(push, d) = mem_q[read_pointer_q]
      BY <2>1, <2>2, <2>3, <2>7, <1>4 DEF Passes, Through, Pushes, Pops, data_o
    <3> QED BY <3>1, <2>7, <1>2, Zenon DEF Pops1
  <2>8. CASE ~Passes(push, pop) /\ ~Pushes(push, pop) /\ ~Pops(push, pop)
    BY <2>8, <1>2, Zenon DEF Idles, fifoVars
  <2> QED BY <2>4, <2>5, <2>6, <2>7, <2>8
<1> QED BY <1>3, <1>4

-----------------------------------------------------------------------------
(* Each of the five keeps the registers in step and does what the bounded  *)
(* queue does.                                                             *)

Q == Words(read_pointer_q, status_cnt_q, mem_q)

LEMMA Here ==
    ASSUME RingInv
    PROVE  /\ read_pointer_q \in Slots /\ write_pointer_q \in Slots
           /\ status_cnt_q \in 0 .. DEPTH /\ status_cnt_q \in 0 .. FIFO_DEPTH
           /\ status_cnt_q \in Nat
           /\ mem_q \in [Slots -> Data]
           /\ write_pointer_q = Place(read_pointer_q, status_cnt_q)
           /\ Q \in Seq(Data) /\ Len(Q) = status_cnt_q
<1>1. status_cnt_q \in 0 .. DEPTH => status_cnt_q \in 0 .. FIFO_DEPTH /\ status_cnt_q \in Nat
  BY DepthFacts, SMT
<1> QED BY <1>1, WordsIsSeq DEF RingInv, TypeOK, Q

LEMMA PushStep ==
    ASSUME RingInv, NEW d \in Data, Pushes1(d)
    PROVE  RingInv' /\ Queue!Push(d)
<1>1. PICK n \in Nat : n = status_cnt_q /\ n < DEPTH
  BY Here DEF Pushes1
<1>2. PICK p \in Slots : p = read_pointer_q
  BY Here
<1>3. n \in 0 .. FIFO_DEPTH - 1 /\ n + 1 \in 0 .. DEPTH
  BY <1>1, DepthFacts, SMT
<1>4. /\ Advance(write_pointer_q) = Place(p, n + 1)
      /\ Advance(write_pointer_q) \in Slots
  BY <1>1, <1>2, <1>3, Here, PlaceAdvances
<1>5. status_cnt_q' = n + 1 /\ read_pointer_q' = p /\ write_pointer_q' = Place(p, n + 1) /\ out' = out
  BY <1>1, <1>2, <1>4 DEF Pushes1
<1>6. mem_q' = [mem_q EXCEPT ![Place(p, n)] = d] /\ mem_q' \in [Slots -> Data]
  BY <1>1, <1>2, Here DEF Pushes1
<1>7. RingInv'
  BY <1>3, <1>4, <1>5, <1>6, Zenon DEF RingInv, TypeOK, Pushes1
<1>8. Words(p, n + 1, [mem_q EXCEPT ![Place(p, n)] = d]) = Append(Words(p, n, mem_q), d)
  BY <1>3, Here, WordsPush
<1>9. Q' = Append(Q, d)
  BY <1>1, <1>2, <1>5, <1>6, <1>8, Zenon DEF Q
<1>10. Len(Q) < DEPTH
  BY <1>1, Here
<1> QED BY <1>5, <1>7, <1>9, <1>10 DEF Queue!Push, Q

LEMMA PopStep ==
    ASSUME RingInv, Pops1
    PROVE  RingInv' /\ Queue!Pop
<1>1. PICK n \in Nat : n = status_cnt_q /\ n > 0
  BY Here DEF Pops1
<1>2. PICK p \in Slots : p = read_pointer_q
  BY Here
<1>3. n \in 1 .. FIFO_DEPTH /\ n - 1 \in 0 .. FIFO_DEPTH - 1 /\ n - 1 \in 0 .. DEPTH /\ (n - 1) + 1 = n
  BY <1>1, Here, DepthFacts, SMT
<1>4. Advance(p) \in Slots /\ Place(Advance(p), n - 1) = Place(p, n) /\ Place(p, n) \in Slots
  BY <1>1, <1>2, <1>3, Here, PlaceAdvances
<1>5. /\ status_cnt_q' = n - 1 /\ read_pointer_q' = Advance(p) /\ write_pointer_q' = Place(p, n)
      /\ mem_q' = mem_q /\ out' = <<mem_q[p]>>
  BY <1>1, <1>2, Here DEF Pops1
<1>6. RingInv'
  BY <1>3, <1>4, <1>5, Here, Zenon DEF RingInv, TypeOK
<1>7. /\ Words(p, n, mem_q) # <<>> /\ Head(Words(p, n, mem_q)) = mem_q[p]
      /\ Words(Advance(p), n - 1, mem_q) = Tail(Words(p, n, mem_q))
  BY <1>3, Here, WordsPop
<1>8. Q = Words(p, n, mem_q) /\ Q' = Words(Advance(p), n - 1, mem_q)
  BY <1>1, <1>2, <1>5, Zenon DEF Q
<1> QED BY <1>5, <1>6, <1>7, <1>8, Zenon DEF Queue!Pop, Q

LEMMA PushPopStep ==
    ASSUME RingInv, NEW d \in Data, Both(d)
    PROVE  RingInv' /\ Queue!PushPop(d)
<1>1. PICK n \in Nat : n = status_cnt_q /\ n > 0 /\ n < DEPTH
  BY Here DEF Both
<1>2. PICK p \in Slots : p = read_pointer_q
  BY Here
<1> DEFINE w == [mem_q EXCEPT ![Place(p, n)] = d]
<1>3. /\ n \in 0 .. FIFO_DEPTH - 1 /\ n \in 0 .. DEPTH /\ n + 1 \in 1 .. FIFO_DEPTH /\ (n + 1) - 1 = n
      /\ n \in 1 .. FIFO_DEPTH
  BY <1>1, DepthFacts, SMT
<1>4. Advance(p) \in Slots /\ Place(Advance(p), n) = Place(p, n + 1) /\ Advance(Place(p, n)) = Place(p, n + 1)
  BY <1>3, PlaceAdvances
<1>5. w \in [Slots -> Data]
  BY Here
<1>6. /\ status_cnt_q' = n /\ read_pointer_q' = Advance(p)
      /\ write_pointer_q' = Place(Advance(p), n)
      /\ mem_q' = w /\ out' = <<mem_q[p]>>
  BY <1>1, <1>2, <1>4, Here DEF Both
<1> HIDE DEF w
<1>7. Advance(p) \in Slots /\ Place(Advance(p), n) \in Slots
  <2>1. n \in 0 .. FIFO_DEPTH
    BY <1>3, DepthFacts, SMT
  <2> QED BY <1>4, <2>1, PlaceIsSlot
<1>8. RingInv'
  BY <1>3, <1>5, <1>6, <1>7, Zenon DEF RingInv, TypeOK
<1>9. Words(p, n + 1, w) = Append(Words(p, n, mem_q), d)
  BY <1>3, Here, WordsPush DEF w
<1>10. Words(Advance(p), n, w) = Tail(Words(p, n + 1, w))
  BY <1>3, <1>5, WordsPop
<1>11. /\ Words(p, n, mem_q) # <<>> /\ Head(Words(p, n, mem_q)) = mem_q[p]
       /\ Words(p, n, mem_q) = Q /\ Len(Q) = n /\ Q \in Seq(Data)
  BY <1>1, <1>2, <1>3, Here, WordsPop DEF Q
<1>12. Tail(Append(Q, d)) = Append(Tail(Q), d)
  BY <1>11, <1>1, SMT
<1>13. Q' = Words(Advance(p), n, w)
  BY <1>6, Zenon DEF Q
<1>14. Len(Q) < DEPTH /\ Q # <<>> /\ Q' = Append(Tail(Q), d) /\ out' = <<Head(Q)>>
  BY <1>1, <1>6, <1>9, <1>10, <1>11, <1>12, <1>13
<1> QED BY <1>8, <1>14, Zenon DEF Queue!PushPop, Q

LEMMA PassStep ==
    ASSUME RingInv, NEW d \in Data, PassesBy(d)
    PROVE  RingInv' /\ Queue!Pass(d)
<1>1. mem_q' \in [Slots -> Data]
  BY Here DEF PassesBy
<1>2. RingInv'
  BY <1>1, Zenon DEF RingInv, TypeOK, PassesBy
<1>3. Q = <<>> /\ Q' = <<>>
  <2>1. \A p, m : Words(p, 0, m) = <<>>
    BY SMT DEF Words
  <2> QED BY <2>1, Zenon DEF Q, PassesBy
<1> QED BY <1>2, <1>3, Zenon DEF Queue!Pass, Q, PassesBy

(* A flush hands over what a pop at the same edge would have been given. *)
LEMMA FlushStep ==
    ASSUME RingInv, NEW push \in BOOLEAN, NEW pop \in BOOLEAN, NEW d \in Data, Flush(push, pop, d)
    PROVE  RingInv' /\ Queue!Flush
<1>1. 0 \in Slots /\ 0 \in 0 .. DEPTH /\ Place(0, 0) = 0
  BY DepthFacts, SMT DEF Slots, Place
<1>2. read_pointer_q' = 0 /\ write_pointer_q' = 0 /\ status_cnt_q' = 0
  BY DEF Flush
<1>3. mem_q' \in [Slots -> Data]
  BY Here DEF Flush, Memory
<1>4. RingInv'
  BY <1>1, <1>2, <1>3, Zenon DEF RingInv, TypeOK
<1>5. Q' = <<>>
  <2>1. \A p, m : Words(p, 0, m) = <<>>
    BY SMT DEF Words
  <2> QED BY <1>2, <2>1, Zenon DEF Q
<1>6. CASE ~Pops(push, pop)
  BY <1>4, <1>5, <1>6, Zenon DEF Flush, HandOver, Queue!Flush, Q
<1>7. CASE Pops(push, pop)
  <2>1. out' = <<data_o(push, d)>>
    BY <1>7 DEF Flush, HandOver
  <2>2. CASE DEPTH = 0 \/ Through(push)
    <3>1. Q = <<>> /\ data_o(push, d) = d /\ (DEPTH = 0 \/ FALL_THROUGH)
      <4>1. status_cnt_q = 0
        BY <2>2, Here, SMT DEF Through
      <4>2. \A p, m : Words(p, 0, m) = <<>>
        BY SMT DEF Words
      <4> QED BY <2>2, <4>1, <4>2 DEF Q, data_o, Through
    <3> QED BY <1>4, <1>5, <2>1, <3>1, Zenon DEF Queue!Flush, Q
  <2>3. CASE DEPTH # 0 /\ ~Through(push)
    <3>1. status_cnt_q # 0
      BY <1>7, <2>3 DEF Pops, empty, Through
    <3>2. status_cnt_q \in 1 .. FIFO_DEPTH
      BY <3>1, Here, SMT
    <3>3. Q # <<>> /\ Head(Q) = mem_q[read_pointer_q]
      BY <3>2, Here, WordsPop DEF Q
    <3>4. data_o(push, d) = mem_q[read_pointer_q]
      BY <2>3 DEF data_o
    <3> QED BY <1>4, <1>5, <2>1, <3>3, <3>4, Zenon DEF Queue!Flush, Q
  <2> QED BY <2>2, <2>3
<1> QED BY <1>6, <1>7

LEMMA ResetStep ==
    ASSUME Reset
    PROVE  RingInv' /\ Queue!Reset
<1>1. 0 \in Slots /\ 0 \in 0 .. DEPTH /\ Place(0, 0) = 0
  BY DepthFacts, SMT DEF Slots, Place
<1>2. [s \in Slots |-> Zero] \in [Slots -> Data]
  BY FifoAssumption
<1>3. RingInv'
  BY <1>1, <1>2, Zenon DEF RingInv, TypeOK, Reset
<1>4. \A p, m : Words(p, 0, m) = <<>>
  BY SMT DEF Words
<1> QED BY <1>3, <1>4, Zenon DEF Reset, Queue!Reset

LEMMA InitFacts ==
    ASSUME Init
    PROVE  RingInv /\ Queue!Init
<1>1. 0 \in Slots /\ 0 \in 0 .. DEPTH /\ Place(0, 0) = 0
  BY DepthFacts, SMT DEF Slots, Place
<1>2. [s \in Slots |-> Zero] \in [Slots -> Data]
  BY FifoAssumption
<1>3. \A p, m : Words(p, 0, m) = <<>>
  BY SMT DEF Words
<1> QED BY <1>1, <1>2, <1>3, Zenon DEF RingInv, TypeOK, Init, Queue!Init

(* A step of the ring keeps the invariant and is a step of the queue. *)
LEMMA StepFacts ==
    ASSUME RingInv, [Next]_fifoVars
    PROVE  RingInv' /\ [Queue!Next]_<<Q, out>>
<1>1. ASSUME UNCHANGED fifoVars PROVE RingInv' /\ UNCHANGED <<Q, out>>
  BY <1>1, Zenon DEF RingInv, TypeOK, Q, fifoVars
<1>2. ASSUME NEW push \in BOOLEAN, NEW pop \in BOOLEAN, NEW d \in Data, Shift(push, pop, d)
      PROVE  RingInv' /\ [Queue!Next]_<<Q, out>>
  <2>1. Idles \/ Pushes1(d) \/ Pops1 \/ Both(d) \/ PassesBy(d)
    BY <1>2, ShiftCases
  <2>2. CASE Idles
    BY <2>2, <1>1 DEF Idles
  <2>3. CASE Pushes1(d)
    BY <2>3, PushStep DEF Queue!Next
  <2>4. CASE Pops1
    BY <2>4, PopStep DEF Queue!Next
  <2>5. CASE Both(d)
    BY <2>5, PushPopStep DEF Queue!Next
  <2>6. CASE PassesBy(d)
    BY <2>6, PassStep DEF Queue!Next
  <2> QED BY <2>1, <2>2, <2>3, <2>4, <2>5, <2>6
<1>3. ASSUME NEW push \in BOOLEAN, NEW pop \in BOOLEAN, NEW d \in Data, Flush(push, pop, d)
      PROVE  RingInv' /\ [Queue!Next]_<<Q, out>>
  BY <1>3, FlushStep DEF Queue!Next
<1>4. CASE Reset
  BY <1>4, ResetStep DEF Queue!Next
<1> QED BY <1>1, <1>2, <1>3, <1>4 DEF Next, ClkEdge

-----------------------------------------------------------------------------
(* The pointers and the count always agree, for every depth and mode of    *)
(* fifo_v3.sv, whatever is pushed and popped.                              *)
THEOREM RingStaysWhole == Spec => []RingInv
<1>1. Init => RingInv
  BY InitFacts
<1>2. RingInv /\ [Next]_fifoVars => RingInv'
  BY StepFacts
<1> QED BY <1>1, <1>2, PTL DEF Spec

(* fifo_v3.sv implements a bounded queue of its DEPTH, for every depth,    *)
(* any words and both modes.                                               *)
THEOREM ImplementsQueue == Spec => QueueSpec
<1>1. Init => Queue!Init
  BY InitFacts
<1>2. RingInv /\ [Next]_fifoVars => [Queue!Next]_Queue!queueVars
  BY StepFacts DEF Queue!queueVars, Q
<1> QED BY <1>1, <1>2, RingStaysWhole, PTL DEF Spec, QueueSpec, Queue!Spec
=============================================================================
