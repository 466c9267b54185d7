-------------------------------- MODULE Fifo --------------------------------
(***************************************************************************)
(* The queue of pulp/verilator-model/fifo_v3.sv: a ring of slots with a    *)
(* read pointer, a write pointer and a count, all of bounded width.        *)
(* dm_csrs.sv holds the answers of the debug module in one of two slots.   *)
(*                                                                         *)
(* ClkEdge is one rising edge of clk_i with any inputs: also those the     *)
(* assertions of the source (lines 145-152) forbid, a push when the queue  *)
(* is full and a pop when it is empty, which the code ignores.             *)
(*                                                                         *)
(* A definition named D_X is D with the fault X; it is not used.           *)
(***************************************************************************)
EXTENDS Integers, Sequences

CONSTANTS Data,          \* the words
          Zero,          \* the word the slots hold after a reset
          DEPTH,         \* slots asked for; 0 is a queue without slots
          FALL_THROUGH,  \* a word pushed into the empty queue shows at the output at once
          POINTERS       \* 2^ADDR_DEPTH: how many values a pointer can take

ASSUME FifoAssumption ==
    /\ Zero \in Data
    /\ DEPTH \in Nat
    /\ FALL_THROUGH \in BOOLEAN
    /\ POINTERS \in Nat /\ POINTERS >= 2 /\ POINTERS >= DEPTH

VARIABLES read_pointer_q, write_pointer_q, status_cnt_q, mem_q,
          out            \* history: the last word handed over, <<d>> or <<>>

fifoVars == <<read_pointer_q, write_pointer_q, status_cnt_q, mem_q, out>>

FIFO_DEPTH == IF DEPTH > 0 THEN DEPTH ELSE 1
Slots == 0 .. FIFO_DEPTH - 1

\* The comparison is with FIFO_DEPTH cut to the width of a pointer, minus one.  When
\* FIFO_DEPTH is 2^ADDR_DEPTH that is never equal, and the pointer wraps by overflowing.
Advance_Overflowing(p) == (p + 1) % POINTERS
Advance(p) ==
    IF p = (FIFO_DEPTH % POINTERS) - 1 THEN 0 ELSE (p + 1) % POINTERS

full(pop) == IF DEPTH = 0 THEN ~pop ELSE status_cnt_q = FIFO_DEPTH
empty_FallingThrough(push) == DEPTH # 0 /\ status_cnt_q = 0 /\ ~push
empty(push) ==
    IF DEPTH = 0 THEN ~push ELSE status_cnt_q = 0 /\ ~(FALL_THROUGH /\ push)

\* A word is pushed into an empty queue whose output shows it: data_o is data_i.
Through(push) == FALL_THROUGH /\ status_cnt_q = 0 /\ push
data_o(push, data) ==
    IF DEPTH = 0 \/ Through(push) THEN data ELSE mem_q[read_pointer_q]

Pushes(push, pop) == push /\ ~full(pop)
Pops(push, pop)   == pop /\ ~empty(push)
Passes(push, pop) == Through(push) /\ pop

Init ==
    /\ read_pointer_q = 0 /\ write_pointer_q = 0 /\ status_cnt_q = 0
    /\ mem_q = [s \in Slots |-> Zero]
    /\ out = <<>>

ReadSide_Passing(push, pop) ==
    read_pointer_q' = IF Pops(push, pop) THEN Advance(read_pointer_q) ELSE read_pointer_q

ReadSide(push, pop) ==
    read_pointer_q' = IF Pops(push, pop) /\ ~Passes(push, pop)
                      THEN Advance(read_pointer_q) ELSE read_pointer_q

WriteSide(push, pop) ==
    write_pointer_q' = IF Pushes(push, pop) /\ ~Passes(push, pop)
                       THEN Advance(write_pointer_q) ELSE write_pointer_q

Count(push, pop) ==
    status_cnt_q' = IF \/ Passes(push, pop)
                       \/ Pushes(push, pop) /\ Pops(push, pop) THEN status_cnt_q
                    ELSE IF Pops(push, pop) THEN status_cnt_q - 1
                    ELSE IF Pushes(push, pop) THEN status_cnt_q + 1
                    ELSE status_cnt_q

\* The memory is written even when the word passes through and even in a flush.
Memory(push, pop, data) ==
    mem_q' = IF Pushes(push, pop) THEN [mem_q EXCEPT ![write_pointer_q] = data] ELSE mem_q

HandOver(push, pop, data) ==
    out' = IF Pops(push, pop) THEN <<data_o(push, data)>> ELSE out

Shift(push, pop, data) ==
    /\ ReadSide(push, pop) /\ WriteSide(push, pop) /\ Count(push, pop)
    /\ Memory(push, pop, data)
    /\ HandOver(push, pop, data)

Flush(push, pop, data) ==
    /\ read_pointer_q' = 0 /\ write_pointer_q' = 0 /\ status_cnt_q' = 0
    /\ Memory(push, pop, data)
    /\ HandOver(push, pop, data)

Reset ==
    /\ read_pointer_q' = 0 /\ write_pointer_q' = 0 /\ status_cnt_q' = 0
    /\ mem_q' = [s \in Slots |-> Zero]
    /\ out' = <<>>

ClkEdge(push, pop, data) == Shift(push, pop, data) \/ Flush(push, pop, data)

Next == (\E push, pop \in BOOLEAN, data \in Data : ClkEdge(push, pop, data)) \/ Reset

Spec == Init /\ [][Next]_fifoVars

-----------------------------------------------------------------------------
TypeOK ==
    /\ read_pointer_q \in Slots /\ write_pointer_q \in Slots
    /\ status_cnt_q \in 0 .. DEPTH
    /\ mem_q \in [Slots -> Data]

\* The slot k places behind slot p, round the ring, and the n words from p on.
Place(p, k) == IF p + k < FIFO_DEPTH THEN p + k ELSE p + k - FIFO_DEPTH
Words(p, n, mem) == [i \in 1 .. n |-> mem[Place(p, i - 1)]]

(* The three registers agree: the write pointer is the first slot behind   *)
(* the status_cnt_q words that wait.  All three wrap at different widths.  *)
RingInv ==
    /\ TypeOK
    /\ write_pointer_q = Place(read_pointer_q, status_cnt_q)

(* fifo_v3 is a bounded queue for every depth, a power of two or not, and  *)
(* in every mode: nothing is lost, repeated or overtaken when pushes and   *)
(* pops meet at the full queue, at the empty one or in a pass-through.     *)
Queue == INSTANCE BoundedQueue
           WITH Capacity <- DEPTH, PassThrough <- (DEPTH = 0 \/ FALL_THROUGH),
                items <- Words(read_pointer_q, status_cnt_q, mem_q)
QueueSpec == Queue!Spec
=============================================================================
