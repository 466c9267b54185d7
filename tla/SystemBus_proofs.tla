--------------------------- MODULE SystemBus_proofs ---------------------------
(***************************************************************************)
(* Proofs about the system bus, for any size of the memory and of the      *)
(* address space and any latency of the bus: first that a slow enough      *)
(* debugger never meets a busy bus master, then what the calls of PulpOCD  *)
(* do to the memory, at any pace of the debugger.                          *)
(***************************************************************************)
EXTENDS SystemBus, TLAPS

(* An access under way has used up as many edges as have passed since its  *)
(* request, and is completed in time.                                      *)
PaceInv ==
    /\ state_q \in {"Idle", "Read", "Write", "WaitRead", "WaitWrite"}
    /\ gap \in Nat /\ latency \in Nat /\ maxLatency \in Latencies
    /\ Granting => latency + 2 <= maxLatency
    /\ Answering => latency + 1 <= maxLatency
    /\ sbbusy => gap + latency >= DmiGap

(* A step that adds one to l and takes at most one from g keeps their sum. *)
LEMMA SumKept ==
    ASSUME NEW g \in Nat, NEW l \in Nat, NEW h \in Nat, NEW m \in Nat, NEW d \in Nat,
           m = l + 1, g + l >= d, h + 1 >= g
    PROVE  h + m >= d
OBVIOUS

LEMMA ZeroAdded ==
    ASSUME NEW h \in Nat, NEW d \in Nat, h >= d PROVE h + 0 >= d
OBVIOUS

(* An edge without a request gives the access as much as it takes from the *)
(* gap before the next one.                                                *)
LEMMA PaceKept ==
    ASSUME gap \in Nat, latency \in Nat, gap + latency >= DmiGap,
           gap' \in Nat, gap' + 1 >= gap, latency' = latency + 1
    PROVE  gap' + latency' >= DmiGap
<1>1. PICK h \in Nat : h = gap'
  OBVIOUS
<1>2. latency' \in Nat
  OBVIOUS
<1>3. PICK m \in Nat : m = latency'
  BY <1>2
<1>4. h + 1 >= gap /\ m = latency + 1
  BY <1>1, <1>3
<1>5. h + m >= DmiGap
  BY <1>4, SumKept, ConstantsAssumption
<1> QED BY <1>1, <1>3, <1>5, Zenon

(* An edge of clk, with a request only when the bus master is idle. *)
LEMMA EdgeKeepsPace ==
    ASSUME PaceInv, NEW req, NEW b \in BusDoes, ClkEdge(req, b), gap' \in Nat,
           req # NoReq => ~sbbusy /\ gap' >= DmiGap,
           req = NoReq => gap' + 1 >= gap
    PROVE  PaceInv'
<1>1. b \in {"serves", "nothing"} /\ (b = "nothing" /\ Granting => latency + 2 < maxLatency)
        /\ (b = "nothing" /\ Answering => latency + 1 < maxLatency)
  BY ConstantsAssumption DEF BusDoes, PaceInv, Granting, Answering, sbbusy
<1>a. maxLatency \in Nat /\ maxLatency >= 2 /\ DmiGap \in Nat
  BY ConstantsAssumption DEF PaceInv
<1>b. maxLatency' = maxLatency /\ maxLatency \in Latencies
  BY DEF ClkEdge, PaceInv
<1>2. latency' = IF sbbusy /\ ~sbdata_valid(b) THEN latency + 1 ELSE 0
  BY DEF ClkEdge
<1>3. CASE state_q = "Idle"
  <2>1. state_q' \in {"Idle", "Read", "Write"} /\ latency' = 0 /\ ~Answering'
    BY <1>2, <1>3 DEF ClkEdge, FsmNext, sbbusy, Answering
  <2>2. state_q' # "Idle" => req # NoReq
    BY <1>3 DEF ClkEdge, FsmNext, Taken, NoReq
  <2>3. latency' \in Nat /\ 0 + 2 <= maxLatency
    BY <1>a, <2>1
  <2>4. ASSUME sbbusy' PROVE gap' + latency' >= DmiGap
    <3>1. req # NoReq
      BY <2>2, <2>4 DEF sbbusy
    <3>2. gap' >= DmiGap
      BY <3>1
    <3> QED BY <1>a, <2>1, <3>2, ZeroAdded
  <2> QED BY <1>b, <2>1, <2>3, <2>4 DEF PaceInv, Granting, Answering
<1>4. CASE Granting
  <2>1. req = NoReq /\ latency' = latency + 1
    BY <1>2, <1>4 DEF Granting, Answering, sbbusy, sbdata_valid
  <2>2. state_q' = IF b = "serves"
                   THEN IF state_q = "Read" THEN "WaitRead" ELSE "WaitWrite" ELSE state_q
    BY <1>4 DEF ClkEdge, FsmNext, Granting, Answering, gnt
  <2>3. gap' + latency' >= DmiGap
    <3>1. gap' + 1 >= gap
      BY <2>1
    <3>2. gap \in Nat /\ latency \in Nat /\ gap + latency >= DmiGap
      BY <1>4 DEF PaceInv, Granting, sbbusy
    <3> QED BY <2>1, <3>1, <3>2, PaceKept
  <2>4. IF b = "serves" THEN latency' + 1 <= maxLatency ELSE latency' + 2 <= maxLatency
    BY <1>a, <1>1, <1>4, <2>1 DEF PaceInv
  <2> QED BY <1>b, <1>4, <2>1, <2>2, <2>3, <2>4 DEF PaceInv, Granting, Answering, sbbusy
<1>5. CASE Answering
  <2>1. req = NoReq
    BY <1>5 DEF Answering, sbbusy
  <2>2. CASE b = "serves"
    <3>1. state_q' = "Idle" /\ latency' = 0
      BY <1>2, <1>5, <2>2 DEF ClkEdge, FsmNext, Answering, sbdata_valid, sbbusy
    <3> QED BY <1>b, <3>1 DEF PaceInv, Granting, Answering, sbbusy
  <2>3. CASE b = "nothing"
    <3>1. state_q' = state_q /\ latency' = latency + 1
      BY <1>2, <1>5, <2>3 DEF ClkEdge, FsmNext, Answering, sbdata_valid, sbbusy
    <3>2. gap' + 1 >= gap
      BY <2>1
    <3>3. gap \in Nat /\ latency \in Nat /\ gap + latency >= DmiGap
      BY <1>5 DEF PaceInv, Answering, sbbusy
    <3>4. gap' + latency' >= DmiGap
      BY <3>1, <3>2, <3>3, PaceKept
    <3>5. latency' + 1 <= maxLatency
      BY <1>a, <1>1, <1>5, <2>3, <3>1, <3>3
    <3> QED BY <1>b, <1>5, <3>1, <3>3, <3>4, <3>5 DEF PaceInv, Granting, Answering, sbbusy
  <2> QED BY <1>1, <2>2, <2>3
<1> QED BY <1>3, <1>4, <1>5 DEF PaceInv, Granting, Answering

(* The bus is one the debugger needs not wait for. *)
Patient == maxLatency <= DmiGap /\ DmiGap <= ReadWait

(* No step lets such a debugger meet a busy bus. *)
LEMMA NextKeepsPace ==
    ASSUME Patient, PaceInv, ~busyerror, [Next]_vars
    PROVE  PaceInv' /\ ~busyerror'
<1>1. CASE Request
  <2>1. ~sbbusy
    BY <1>1, ConstantsAssumption DEF Request, PaceInv, Patient, Granting, Answering, sbbusy
  <2>2. PICK b \in BusDoes : ClkEdge(Head(todo), b)
    BY <1>1 DEF Request
  <2>3. gap' \in Nat /\ gap' >= DmiGap
    BY <1>1, ConstantsAssumption DEF Request, Wait, Patient
  <2>4. ~busyerror'
    BY <2>1, <2>2 DEF ClkEdge, CsrEdge, Active, Inactive, BusyErrorNext, NoReq
  <2>5. gap' + 1 >= gap
    BY <1>1, <2>3 DEF Request
  <2> QED BY <2>1, <2>2, <2>3, <2>4, <2>5, EdgeKeepsPace
<1>2. CASE Tick
  <2>1. PICK b \in BusDoes : ClkEdge(NoReq, b)
    BY <1>2 DEF Tick
  <2>2. gap' \in Nat /\ gap' + 1 >= gap
    BY <1>2 DEF Tick, PaceInv
  <2>3. ~busyerror'
    BY <2>1 DEF ClkEdge, CsrEdge, Active, Inactive, BusyErrorNext, NoReq
  <2> QED BY <2>1, <2>2, <2>3, EdgeKeepsPace
<1>3. CASE UNCHANGED <<state_q, gap, latency, maxLatency, busyerror>>
  BY <1>3 DEF PaceInv, Granting, Answering, sbbusy
<1>4. CASE \E a \in Addrs : readbus(a) \/ \E v \in Values : writebus(a, v)
  BY <1>3, <1>4 DEF readbus, writebus, sbcsVars, sbaVars
<1>5. CASE resume
  BY <1>3, <1>5 DEF resume, sbcsVars, sbaVars
<1>6. CASE NewSession
  BY <1>3, <1>6 DEF NewSession, sbcsVars, sbaVars
<1>7. CASE UNCHANGED vars
  BY <1>3, <1>7 DEF vars, sbcsVars, sbaVars
<1> QED BY <1>1, <1>2, <1>4, <1>5, <1>6, <1>7 DEF Next

(* A debugger that leaves the bus as many edges as an access may take      *)
(* never finds it busy: no word of writebus is dropped, and PulpOCD may    *)
(* ignore sbbusyerror.                                                     *)
THEOREM SlowDebuggerIsNeverBusy == Spec => []NeverBusy
<1> DEFINE Inv == Patient => PaceInv /\ ~busyerror
<1>1. Init => Inv
  BY ConstantsAssumption DEF Init, PaceInv, Granting, Answering, sbbusy
<1>2. Inv /\ [Next]_vars => Inv'
  <2> SUFFICES ASSUME Inv, [Next]_vars, Patient' PROVE PaceInv' /\ ~busyerror'
    OBVIOUS
  <2>1. Patient
    <3>1. maxLatency' = maxLatency
      BY DEF Next, readbus, writebus, resume, NewSession, Request, Tick, ClkEdge, vars
    <3> QED BY <3>1 DEF Patient
  <2> QED BY <2>1, NextKeepsPace
<1>3. Inv => NeverBusy
  BY DEF Patient, NeverBusy
<1> QED BY <1>1, <1>2, <1>3, PTL DEF Spec

-----------------------------------------------------------------------------

(* The requests that are left of a call: of a writebus (w), of a readbus   *)
(* (r) or of a new session (s).                                            *)
Stages == {"none", "w3", "w2", "w1", "r3", "r2", "r1", "s2", "s1"}
Rest(st, a, v) ==
    IF st = "w3" THEN <<Sbcs(TRUE, FALSE), Address(a), Data(v)>>
    ELSE IF st = "w2" THEN <<Address(a), Data(v)>>
    ELSE IF st = "w1" THEN <<Data(v)>>
    ELSE IF st = "r3" THEN <<Sbcs(FALSE, TRUE), Address(a), ReadData(a)>>
    ELSE IF st = "r2" THEN <<Address(a), ReadData(a)>>
    ELSE IF st = "r1" THEN <<ReadData(a)>>
    ELSE IF st = "s2" THEN <<Activate(FALSE), Activate(TRUE)>>
    ELSE IF st = "s1" THEN <<Activate(TRUE)>>
    ELSE <<>>

First(st, a, v) ==
    IF st = "w3" THEN Sbcs(TRUE, FALSE)
    ELSE IF st = "r3" THEN Sbcs(FALSE, TRUE)
    ELSE IF st \in {"w2", "r2"} THEN Address(a)
    ELSE IF st = "w1" THEN Data(v)
    ELSE IF st = "r1" THEN ReadData(a)
    ELSE Activate(st = "s1")

After(st) ==
    IF st = "w3" THEN "w2" ELSE IF st = "w2" THEN "w1"
    ELSE IF st = "r3" THEN "r2" ELSE IF st = "r2" THEN "r1"
    ELSE IF st = "s2" THEN "s1" ELSE "none"

(* A call sends its requests in their order. *)
LEMMA HeadTail ==
    ASSUME NEW st \in Stages, st # "none", NEW a, NEW v
    PROVE  /\ Head(Rest(st, a, v)) = First(st, a, v)
           /\ Tail(Rest(st, a, v)) = Rest(After(st), a, v)
           /\ After(st) \in Stages
           /\ Rest(st, a, v) # <<>>
<1>1. ASSUME NEW x, NEW y, NEW z
      PROVE  /\ Head(<<x, y, z>>) = x /\ Tail(<<x, y, z>>) = <<y, z>> /\ <<x, y, z>> # <<>>
             /\ Head(<<x, y>>) = x /\ Tail(<<x, y>>) = <<y>> /\ <<x, y>> # <<>>
             /\ Head(<<x>>) = x /\ Tail(<<x>>) = <<>> /\ <<x>> # <<>>
  OBVIOUS
<1>2. CASE st = "w3"
  BY <1>1, <1>2 DEF Rest, First, After, Stages
<1>3. CASE st = "w2"
  BY <1>1, <1>3 DEF Rest, First, After, Stages
<1>4. CASE st = "w1"
  BY <1>1, <1>4 DEF Rest, First, After, Stages
<1>5. CASE st = "r3"
  BY <1>1, <1>5 DEF Rest, First, After, Stages
<1>6. CASE st = "r2"
  BY <1>1, <1>6 DEF Rest, First, After, Stages
<1>7. CASE st = "r1"
  BY <1>1, <1>7 DEF Rest, First, After, Stages
<1>8. CASE st = "s2"
  BY <1>1, <1>8 DEF Rest, First, After, Stages
<1>9. CASE st = "s1"
  BY <1>1, <1>9 DEF Rest, First, After, Stages
<1> QED BY <1>2, <1>3, <1>4, <1>5, <1>6, <1>7, <1>8, <1>9 DEF Stages

(* ... in the form a proof about Head(todo) needs. *)
LEMMA HeadOf ==
    ASSUME NEW t, NEW st \in Stages, st # "none", NEW a, NEW v, t = Rest(st, a, v)
    PROVE  Head(t) = First(st, a, v)
BY HeadTail

(* A call has three requests at most. *)
LEMMA ShortRest ==
    ASSUME NEW st \in Stages, NEW a, NEW v
    PROVE  Len(Rest(st, a, v)) <= 3
<1>1. ASSUME NEW x, NEW y, NEW z
      PROVE  Len(<<x, y, z>>) = 3 /\ Len(<<x, y>>) = 2 /\ Len(<<x>>) = 1 /\ Len(<<>>) = 0
  OBVIOUS
<1> QED BY <1>1 DEF Rest, Stages

-----------------------------------------------------------------------------
(* Types, and how long an access may still take. *)
Types ==
    /\ lastwradr \in Addrs \cup {None}
    /\ dmactive \in BOOLEAN /\ autoincrement \in BOOLEAN /\ readonaddr \in BOOLEAN
    /\ busyerror \in BOOLEAN /\ wiped \in BOOLEAN /\ sbaccess \in {"word", "byte"}
    /\ sbaddr_q \in 0 .. NAddrs - 1 /\ sbdata_q \in Values
    /\ state_q \in {"Idle", "Read", "Write", "WaitRead", "WaitWrite"}
    /\ mem \in [Addrs -> Values] /\ wanted \in [Addrs -> Values]
    /\ cut \subseteq 0 .. NAddrs - 1 /\ gap \in Nat
    /\ state_q \in {"Read", "WaitRead"} => sbaddr_q \in Addrs

LatencyInv ==
    /\ maxLatency \in Latencies /\ latency \in Nat
    /\ ~sbbusy => latency = 0
    /\ Granting => latency + 2 <= maxLatency
    /\ Answering => latency + 1 <= maxLatency

(* A request as the calls make them. *)
IsRequest(req) ==
    /\ req.kind = "sbaddress" => req.adr \in Addrs
    /\ req.kind = "sbdata" => req.val \in Values
    /\ req.kind = "sbcs" => req.autoincrement \in BOOLEAN /\ req.readonaddr \in BOOLEAN
    /\ req.kind = "dmcontrol" => req.dmactive \in BOOLEAN

(* The words the debugger works on are addresses of the bus ... *)
LEMMA AddrsAreAddresses == Addrs \subseteq 0 .. NAddrs - 1 /\ 0 \in 0 .. NAddrs - 1 /\ NAddrs \in Nat \ {0}
BY ConstantsAssumption DEF Addrs

(* ... the auto-increment never leaves the address space ... *)
LEMMA Incremented ==
    ASSUME NEW n \in 0 .. NAddrs - 1 PROVE (n + 1) % NAddrs \in 0 .. NAddrs - 1
BY AddrsAreAddresses

(* ... and an address inside it does not wrap. *)
LEMMA NotWrapped ==
    ASSUME NEW n \in 0 .. NAddrs - 1 PROVE n % NAddrs = n
BY AddrsAreAddresses

(* An edge keeps every register within its type. *)
LEMMA EdgeTypes ==
    ASSUME Types, NEW req, IsRequest(req), NEW b \in BusDoes, ClkEdge(req, b), gap' \in Nat
    PROVE  Types'
<1>1. lastwradr' = lastwradr /\ wanted' = wanted /\ wiped' = wiped
  BY DEF ClkEdge
<1>2. dmactive' \in BOOLEAN
  BY DEF ClkEdge, CsrEdge, IsRequest, Types
<1>3. autoincrement' \in BOOLEAN /\ readonaddr' \in BOOLEAN
  BY DEF ClkEdge, CsrEdge, Active, Inactive, Taken, IsRequest, Types
<1>4. busyerror' \in BOOLEAN
  BY DEF ClkEdge, CsrEdge, Active, Inactive, BusyErrorNext, Types
<1>5. sbaccess' \in {"word", "byte"}
  BY DEF ClkEdge, CsrEdge, Active, Inactive
<1>6. sbaddr_q' \in 0 .. NAddrs - 1
  BY AddrsAreAddresses, Incremented DEF ClkEdge, CsrEdge, Active, Inactive, SbaddrNext, Taken, IsRequest, Types
<1>7. sbdata_q' \in Values
  <2>1. state_q = "WaitRead" => mem[sbaddr_q] \in Values
    BY DEF Types
  <2>2. SbdataNext(req, b) \subseteq Values
    BY <2>1 DEF SbdataNext, Taken, IsRequest, Types
  <2> QED BY <2>2, ConstantsAssumption DEF ClkEdge, CsrEdge, Active, Inactive
<1>8. state_q' \in {"Idle", "Read", "Write", "WaitRead", "WaitWrite"}
  BY DEF ClkEdge, FsmNext, Answering, Types
<1>9. mem' \in [Addrs -> Values]
  BY DEF ClkEdge, MemNext, Types
<1>10. cut' \subseteq 0 .. NAddrs - 1
  BY AddrsAreAddresses DEF ClkEdge, Abandoned, Types
<1>11. state_q' \in {"Read", "WaitRead"} => sbaddr_q' \in Addrs
  <2>1. 0 \in Addrs
    BY ConstantsAssumption DEF Addrs
  <2>2. ~dmactive => sbaddr_q' = 0
    BY DEF ClkEdge, CsrEdge, Inactive
  <2>3. dmactive => sbaddr_q' = SbaddrNext(req, b)
    BY DEF ClkEdge, CsrEdge, Active
  <2>4. CASE state_q \in {"Read", "WaitRead"} /\ dmactive
    <3>1. state_q' \in {"Read", "WaitRead"} => sbaddr_q' = sbaddr_q
      BY <2>3, <2>4 DEF ClkEdge, FsmNext, SbaddrNext, Taken, sbbusy, sbdata_valid, Answering
    <3> QED BY <3>1, <2>4 DEF Types
  <2>5. CASE state_q = "Idle" /\ dmactive
    <3>1. state_q' \in {"Read", "WaitRead"} => Taken(req, "sbaddress")
      BY <2>5 DEF ClkEdge, FsmNext
    <3> QED BY <3>1, <2>3, <2>5 DEF SbaddrNext, Taken, IsRequest
  <2>6. CASE state_q \in {"Write", "WaitWrite"}
    BY <2>6 DEF ClkEdge, FsmNext, Answering
  <2> QED BY <2>1, <2>2, <2>4, <2>5, <2>6 DEF Types
<1> QED BY <1>1, <1>2, <1>3, <1>4, <1>5, <1>6, <1>7, <1>8, <1>9, <1>10, <1>11 DEF Types

-----------------------------------------------------------------------------
(* Where a run of writes stands: with the auto-increment on, the master    *)
(* only writes, and the address register leads or follows the last word    *)
(* the calls have written; with it off, the run has strayed, and both the  *)
(* word it means and the one it will hit are noted.                        *)
Owed(st, a, x) == st \in {"w3", "w2", "w1"} /\ x = a
Writing == state_q \in {"Write", "WaitWrite"}

Track(st, a) ==
    /\ autoincrement => ~readonaddr /\ (sbbusy => Writing)
    /\ st = "w2" => autoincrement /\ ~sbbusy
    /\ st = "w1" => IF autoincrement THEN (IF sbbusy THEN sbaddr_q + 1 = a ELSE sbaddr_q = a)
                    ELSE a \in cut /\ sbaddr_q \in cut
    /\ st \in {"r2", "r1"} => ~autoincrement
    /\ st \in {"none", "r3"} /\ autoincrement /\ lastwradr # None =>
          sbaddr_q = IF sbbusy THEN lastwradr ELSE (lastwradr + 1) % NAddrs

(* A word differs from what the calls asked for only while it is still     *)
(* owed: by the call under way or by the write the master has not yet been *)
(* granted.                                                                *)
Memory(st, a) ==
    /\ \A x \in Addrs \ cut :
          mem[x] = wanted[x] \/ Owed(st, a, x) \/ (state_q = "Write" /\ sbaddr_q = x)
    /\ state_q = "Write" /\ sbaddr_q \in Addrs \ cut /\ ~Owed(st, a, sbaddr_q) =>
          sbaccess = "word" /\ sbdata_q = wanted[sbaddr_q]

(* A read that was asked for is under way, or its word is waiting.         *)
Reading(st, a) ==
    /\ st = "r2" => readonaddr /\ ~sbbusy
    /\ st = "r1" => IF sbbusy THEN state_q \in {"Read", "WaitRead"} /\ sbaddr_q = a
                     ELSE sbdata_q = mem[a]

Holds(st, a, v) ==
    /\ todo = Rest(st, a, v)
    /\ st \in {"w3", "w2", "w1"} => lastwradr = a /\ wanted[a] = v
    /\ st \in {"s2", "s1"} => lastwradr = None
    /\ ~dmactive => st = "s1"
    /\ busyerror /\ st \in {"s2", "s1"} => wiped
    /\ ~busyerror => Reading(st, a)
    /\ ~busyerror /\ ~wiped => Track(st, a) /\ Memory(st, a)

MemoryInv == Types /\ LatencyInv /\ \E st \in Stages, a \in Addrs, v \in Values : Holds(st, a, v)

-----------------------------------------------------------------------------
(* The bus serves or lets the master wait. *)
LEMMA BusChoice == ASSUME NEW b \in BusDoes PROVE b \in {"serves", "nothing"}
BY DEF BusDoes

(* The state machine of the master. *)
LEMMA EdgeFsm ==
    ASSUME Types, NEW req, NEW b \in BusDoes, ClkEdge(req, b)
    PROVE  /\ state_q = "Idle" => state_q' = IF req.kind = "sbdata" THEN "Write"
                                  ELSE IF req.kind = "sbaddress" /\ readonaddr THEN "Read" ELSE "Idle"
           /\ state_q = "Read" => state_q' \in {"Read", "WaitRead"}
           /\ state_q = "Write" => state_q' = IF b = "serves" THEN "WaitWrite" ELSE "Write"
           /\ state_q \in {"WaitRead", "WaitWrite"} => state_q' = IF b = "serves" THEN "Idle" ELSE state_q
<1>1. state_q' = FsmNext(req, b)
  BY DEF ClkEdge
<1>2. CASE state_q = "Idle"
  BY <1>1, <1>2 DEF FsmNext, Taken, sbbusy, Answering
<1>3. CASE state_q = "Read"
  BY <1>1, <1>3 DEF FsmNext, gnt, Answering
<1>4. CASE state_q = "Write"
  BY <1>1, <1>4 DEF FsmNext, gnt, Answering, Granting
<1>5. CASE state_q \in {"WaitRead", "WaitWrite"}
  BY <1>1, <1>5 DEF FsmNext, sbdata_valid, Answering
<1> QED BY <1>2, <1>3, <1>4, <1>5 DEF Types

(* The address register moves with a request or when an access ends. *)
LEMMA EdgeAddress ==
    ASSUME Types, dmactive, NEW req, NEW b \in BusDoes, ClkEdge(req, b)
    PROVE  sbaddr_q' = IF req.kind = "sbaddress" /\ ~sbbusy THEN req.adr
                       ELSE IF sbbusy /\ state_q' = "Idle" /\ autoincrement THEN (sbaddr_q + 1) % NAddrs
                       ELSE sbaddr_q
<1>1. sbaddr_q' = SbaddrNext(req, b)
  BY DEF ClkEdge, CsrEdge, Active
<1>2. sbdata_valid(b) <=> sbbusy /\ state_q' = "Idle"
  BY EdgeFsm, BusChoice DEF sbdata_valid, Answering, sbbusy, Types
<1> QED BY <1>1, <1>2 DEF SbaddrNext, Taken

(* Every edge that does not take a word to write keeps the memory right. *)
LEMMA EdgeMemory ==
    ASSUME Types, NEW st \in Stages, NEW a \in Addrs, Memory(st, a),
           NEW req, NEW b \in BusDoes, ClkEdge(req, b), ~Taken(req, "sbdata")
    PROVE  Memory(st, a)'
<1>1. wanted' = wanted
  BY DEF ClkEdge
<1>2. CASE state_q = "Write" /\ b = "serves"
  <2>1. state_q' = "WaitWrite" /\ cut' = cut
    BY <1>2, EdgeFsm DEF ClkEdge, Abandoned, gnt, Granting
  <2>2. CASE sbaddr_q \in Addrs
    <3>1. PICK v \in Values : mem' = [mem EXCEPT ![sbaddr_q] = v] /\ (sbaccess = "word" => v = sbdata_q)
      BY <1>2, <2>2 DEF ClkEdge, MemNext, gnt, Granting, Types
    <3> QED BY <1>1, <1>2, <2>1, <3>1 DEF Memory, Owed, Types
  <2>3. CASE sbaddr_q \notin Addrs
    <3>1. mem' = mem
      BY <2>3 DEF ClkEdge, MemNext
    <3> QED BY <1>1, <2>1, <2>3, <3>1 DEF Memory, Owed
  <2> QED BY <2>2, <2>3
<1>3. CASE state_q = "Write" /\ b # "serves"
  <2>1. state_q' = "Write" /\ mem' = mem
    BY <1>3, EdgeFsm DEF ClkEdge, MemNext, gnt
  <2>2. CASE dmactive
    <3>1. cut' = cut /\ sbaccess' = "word"
      BY <2>2 DEF ClkEdge, Abandoned, CsrEdge, Active
    <3>2. sbaddr_q' = sbaddr_q
      BY <1>3, <2>1, <2>2, EdgeAddress DEF sbbusy
    <3>3. sbdata_q' = sbdata_q
      BY <1>3, <2>2 DEF ClkEdge, CsrEdge, Active, SbdataNext, sbdata_valid, Taken, sbbusy
    <3> QED BY <1>1, <1>3, <2>1, <3>1, <3>2, <3>3 DEF Memory, Owed
  <2>3. CASE ~dmactive
    <3>1. cut' = cut \cup {sbaddr_q, 0} /\ sbaddr_q' = 0
      BY <1>3, <2>3 DEF ClkEdge, Abandoned, gnt, CsrEdge, Inactive
    <3> QED BY <1>1, <1>3, <2>1, <3>1 DEF Memory, Owed
  <2> QED BY <2>2, <2>3
<1>4. CASE state_q # "Write"
  <2>1. state_q' # "Write"
    BY <1>4, EdgeFsm DEF Taken, sbbusy, Types
  <2>2. mem' = mem /\ cut' = cut
    BY <1>4 DEF ClkEdge, MemNext, Abandoned
  <2> QED BY <1>1, <1>4, <2>1, <2>2 DEF Memory, Owed
<1> QED BY <1>2, <1>3, <1>4

(* Only the last request of a writebus settles what the call owes. *)
LEMMA SameOwed ==
    ASSUME NEW st \in Stages, st # "w1", NEW a \in Addrs, Memory(st, a)'
    PROVE  Memory(After(st), a)'
<1>1. \A x : Owed(After(st), a, x) <=> Owed(st, a, x)
  BY DEF Owed, After, Stages
<1> QED BY <1>1 DEF Memory

(* ... and the edge that takes one keeps it right for the word it takes. *)
LEMMA WriteMemory ==
    ASSUME Types, dmactive, NEW a \in Addrs, NEW v, Memory("w1", a), wanted[a] = v,
           sbaddr_q = a \/ (a \in cut /\ sbaddr_q \in cut),
           ~sbbusy, NEW b \in BusDoes, ClkEdge(Data(v), b)
    PROVE  Memory("none", a)'
<1>1. wanted' = wanted /\ mem' = mem /\ cut' = cut
  BY DEF ClkEdge, MemNext, Abandoned, sbbusy
<1>2. state_q' = "Write" /\ sbaddr_q' = sbaddr_q
  BY EdgeFsm, EdgeAddress DEF Data, sbbusy
<1>3. sbdata_q' = v /\ sbaccess' = "word"
  BY DEF ClkEdge, CsrEdge, Active, SbdataNext, sbdata_valid, Answering, Taken, sbbusy, Data
<1> QED BY <1>1, <1>2, <1>3 DEF Memory, Owed, sbbusy

(* The registers of sbcs at an edge of the active module. *)
LEMMA EdgeSbcs ==
    ASSUME Types, dmactive, NEW req, NEW b \in BusDoes, ClkEdge(req, b)
    PROVE  /\ req.kind = "sbcs" /\ ~sbbusy => autoincrement' = req.autoincrement /\ readonaddr' = req.readonaddr
           /\ req.kind # "sbcs" => autoincrement' = autoincrement /\ readonaddr' = readonaddr
           /\ ~busyerror' => ~busyerror /\ (req.kind \in {"none", "dmcontrol"} \/ ~sbbusy)
           /\ req.kind \in {"none", "dmcontrol"} => busyerror' = busyerror
<1>1. autoincrement' = IF Taken(req, "sbcs") THEN req.autoincrement ELSE autoincrement
  BY DEF ClkEdge, CsrEdge, Active
<1>2. readonaddr' = IF Taken(req, "sbcs") THEN req.readonaddr ELSE readonaddr
  BY DEF ClkEdge, CsrEdge, Active
<1>3. busyerror' = BusyErrorNext(req)
  BY DEF ClkEdge, CsrEdge, Active
<1>4. ~busyerror' => ~busyerror /\ (req.kind \in {"none", "dmcontrol"} \/ ~sbbusy)
  BY <1>3 DEF BusyErrorNext
<1>5. req.kind \in {"none", "dmcontrol"} => busyerror' = busyerror
  BY <1>3 DEF BusyErrorNext, Types
<1> QED BY <1>1, <1>2, <1>4, <1>5 DEF Taken

(* With the auto-increment on, no read is ever started. *)
LEMMA StillWriting ==
    ASSUME Types, NEW req, NEW b \in BusDoes, ClkEdge(req, b), autoincrement' => autoincrement,
           autoincrement => ~readonaddr /\ (sbbusy => Writing)
    PROVE  autoincrement' => (sbbusy' => Writing')
<1>1. CASE state_q = "Idle"
  BY <1>1, EdgeFsm DEF sbbusy, Writing
<1>2. CASE state_q # "Idle"
  BY <1>2, EdgeFsm DEF sbbusy, Writing
<1> QED BY <1>1, <1>2

(* The module that is switched off forgets its settings. *)
LEMMA InactiveEdge ==
    ASSUME ~dmactive, NEW req, NEW b \in BusDoes, ClkEdge(req, b)
    PROVE  ~autoincrement' /\ ~readonaddr' /\ ~busyerror'
BY DEF ClkEdge, CsrEdge, Inactive

(* An edge without a request takes no run of writes out of step. *)
LEMMA TickTrack ==
    ASSUME Types, NEW st \in Stages, NEW a \in Addrs, Track(st, a), ~dmactive => st = "s1",
           NEW b \in BusDoes, ClkEdge(NoReq, b)
    PROVE  Track(st, a)'
<1>1. CASE ~dmactive
  BY <1>1, InactiveEdge DEF Track
<1>2. CASE dmactive
  <2>1. autoincrement' = autoincrement /\ readonaddr' = readonaddr /\ lastwradr' = lastwradr
    BY <1>2, EdgeSbcs DEF NoReq, ClkEdge
  <2>2. autoincrement' => ~readonaddr' /\ (sbbusy' => Writing')
    BY <2>1, StillWriting DEF Track
  <2>3. ~sbbusy => ~sbbusy' /\ sbaddr_q' = sbaddr_q
    BY <1>2, EdgeFsm, EdgeAddress DEF NoReq, sbbusy
  <2>4. sbbusy /\ autoincrement => sbaddr_q' = IF sbbusy' THEN sbaddr_q ELSE (sbaddr_q + 1) % NAddrs
    BY <1>2, EdgeAddress DEF NoReq, sbbusy
  <2>5. a % NAddrs = a
    BY NotWrapped, AddrsAreAddresses
  <2>6. st = "w1" => IF autoincrement' THEN (IF sbbusy' THEN sbaddr_q' + 1 = a ELSE sbaddr_q' = a)
                     ELSE a \in cut' /\ sbaddr_q' \in cut'
    <3>1. CASE autoincrement
      BY <2>1, <2>3, <2>4, <2>5, <3>1 DEF Track
    <3>2. CASE ~autoincrement
      <4>1. sbaddr_q' = sbaddr_q
        BY <1>2, <3>2, EdgeAddress DEF NoReq
      <4>2. cut \subseteq cut'
        BY DEF ClkEdge
      <4> QED BY <2>1, <3>2, <4>1, <4>2 DEF Track
    <3> QED BY <3>1, <3>2
  <2>7. st \in {"none", "r3"} /\ autoincrement' /\ lastwradr' # None =>
          sbaddr_q' = IF sbbusy' THEN lastwradr' ELSE (lastwradr' + 1) % NAddrs
    BY <2>1, <2>3, <2>4 DEF Track
  <2>8. st = "w2" => autoincrement' /\ ~sbbusy'
    BY <2>1, <2>3 DEF Track
  <2>9. st \in {"r2", "r1"} => ~autoincrement'
    BY <2>1 DEF Track
  <2> QED BY <2>2, <2>6, <2>7, <2>8, <2>9 DEF Track
<1> QED BY <1>1, <1>2

(* The requests are what EdgeTypes expects of one. *)
LEMMA FirstIsRequest ==
    ASSUME NEW st \in Stages, st # "none", NEW a \in Addrs, NEW v \in Values
    PROVE  IsRequest(First(st, a, v))
BY DEF IsRequest, First, Stages, Sbcs, Address, Data, ReadData, Activate

(* A read that is under way is not disturbed, and its word waits. *)
LEMMA TickReading ==
    ASSUME Types, dmactive, NEW st \in Stages, NEW a \in Addrs, Reading(st, a),
           NEW b \in BusDoes, ClkEdge(NoReq, b)
    PROVE  Reading(st, a)'
<1>1. NoReq.kind = "none"
  BY DEF NoReq
<1>2. readonaddr' = readonaddr
  BY <1>1, EdgeSbcs
<1>3. ~sbbusy => ~sbbusy' /\ sbdata_q' = sbdata_q /\ mem' = mem
  BY <1>1, EdgeFsm DEF ClkEdge, CsrEdge, Active, SbdataNext, sbdata_valid, Answering, Taken, MemNext, sbbusy
<1>4. CASE st = "r1" /\ sbbusy
  <2>1. mem' = mem
    BY <1>4 DEF Reading, ClkEdge, MemNext
  <2>2. CASE sbbusy'
    <3>1. state_q' \in {"Read", "WaitRead"}
      BY <1>4, <2>2, EdgeFsm DEF Reading, sbbusy
    <3>2. sbaddr_q' = sbaddr_q
      BY <1>1, <2>2, EdgeAddress DEF sbbusy
    <3> QED BY <1>4, <2>2, <3>1, <3>2 DEF Reading
  <2>3. CASE ~sbbusy'
    <3>1. state_q = "WaitRead" /\ b = "serves"
      BY <1>4, <2>3, EdgeFsm DEF Reading, sbbusy
    <3>2. sbdata_q' = mem[sbaddr_q]
      BY <3>1 DEF ClkEdge, CsrEdge, Active, SbdataNext, sbdata_valid, Answering
    <3> QED BY <1>4, <2>1, <2>3, <3>2 DEF Reading
  <2> QED BY <2>2, <2>3
<1>5. CASE ~(st = "r1" /\ sbbusy)
  BY <1>2, <1>3, <1>5 DEF Reading
<1> QED BY <1>4, <1>5

(* The second request of readbus starts the read of its address. *)
LEMMA RequestReading ==
    ASSUME Types, dmactive, NEW st \in Stages, st # "none", NEW a \in Addrs, NEW v \in Values,
           Reading(st, a), NEW b \in BusDoes, ClkEdge(First(st, a, v), b), ~busyerror'
    PROVE  Reading(After(st), a)'
<1> DEFINE req == First(st, a, v)
<1>1. CASE st = "r3"
  <2>1. req.kind = "sbcs" /\ req.readonaddr
    BY <1>1 DEF First, Sbcs
  <2>2. ~sbbusy
    BY <2>1, EdgeSbcs
  <2>3. readonaddr'
    BY <2>1, <2>2, EdgeSbcs
  <2>4. ~sbbusy'
    BY <2>1, <2>2, EdgeFsm DEF sbbusy
  <2> QED BY <1>1, <2>3, <2>4 DEF Reading, After
<1>2. CASE st = "r2"
  <2>1. req.kind = "sbaddress" /\ req.adr = a
    BY <1>2 DEF First, Address
  <2>2. state_q' = "Read"
    BY <1>2, <2>1, EdgeFsm DEF Reading, sbbusy
  <2>3. sbaddr_q' = a
    BY <1>2, <2>1, EdgeAddress DEF Reading
  <2> QED BY <1>2, <2>2, <2>3 DEF Reading, After, sbbusy
<1>3. CASE st \notin {"r3", "r2"}
  <2>1. After(st) \notin {"r2", "r1"}
    BY <1>3 DEF After
  <2> QED BY <2>1 DEF Reading
<1> QED BY <1>1, <1>2, <1>3

(* A request takes a run of writes one stage further, or sets the busy     *)
(* error, or comes from a module that is switched off.                     *)
LEMMA RequestTrack ==
    ASSUME Types, NEW st \in Stages, st # "none", NEW a \in Addrs, NEW v \in Values, Track(st, a),
           ~dmactive => st = "s1", st \in {"w3", "w2", "w1"} => lastwradr = a,
           st \in {"s2", "s1"} => lastwradr = None,
           NEW b \in BusDoes, ClkEdge(First(st, a, v), b), ~busyerror'
    PROVE  Track(After(st), a)'
<1> DEFINE req == First(st, a, v)
<1>1. CASE ~dmactive
  <2>1. ~autoincrement' /\ After(st) = "none"
    BY <1>1, InactiveEdge DEF After
  <2> QED BY <2>1 DEF Track
<1>2. CASE dmactive
  <2>0. lastwradr' = lastwradr
    BY DEF ClkEdge
  <2>1. CASE st \in {"w3", "r3"}
    <3>1. req = Sbcs(st = "w3", st = "r3") /\ req.kind = "sbcs"
      BY <2>1 DEF First, Sbcs
    <3>2. req.autoincrement = (st = "w3") /\ req.readonaddr = (st = "r3")
      BY <3>1 DEF Sbcs
    <3>3. ~sbbusy
      BY <1>2, <3>1, EdgeSbcs
    <3>4. ~sbbusy'
      BY <3>1, <3>3, EdgeFsm DEF sbbusy
    <3>5. autoincrement' = (st = "w3") /\ readonaddr' = (st = "r3")
      BY <1>2, <3>1, <3>2, <3>3, EdgeSbcs
    <3> QED BY <2>1, <3>4, <3>5 DEF Track, After
  <2>2. CASE st = "w2"
    <3>1. autoincrement' = autoincrement /\ readonaddr' = readonaddr
      BY <1>2, <2>2, EdgeSbcs DEF First, Address
    <3>2. ~sbbusy' /\ sbaddr_q' = a
      BY <1>2, <2>2, EdgeFsm, EdgeAddress DEF First, Address, Track, sbbusy
    <3> QED BY <2>2, <3>1, <3>2 DEF Track, After
  <2>3. CASE st = "w1"
    <3>0. req.kind = "sbdata"
      BY <2>3 DEF First, Data
    <3>1. autoincrement' = autoincrement /\ readonaddr' = readonaddr /\ ~sbbusy
      BY <1>2, <3>0, EdgeSbcs
    <3>2. state_q' = "Write" /\ (autoincrement => sbaddr_q' = a)
      BY <1>2, <2>3, <3>1, EdgeFsm, EdgeAddress DEF First, Data, Track, sbbusy
    <3> QED BY <2>0, <2>3, <3>1, <3>2 DEF Track, After, sbbusy, Writing
  <2>4. CASE st \in {"r2", "r1"}
    <3>0. req.kind # "sbcs"
      BY <2>4 DEF First, Address, ReadData
    <3>1. autoincrement' = autoincrement
      BY <1>2, <3>0, EdgeSbcs
    <3> QED BY <2>4, <3>1 DEF Track, After
  <2>5. CASE st \in {"s2", "s1"}
    <3>0. req.kind # "sbcs"
      BY <2>5 DEF First, Activate
    <3>1. autoincrement' = autoincrement /\ readonaddr' = readonaddr
      BY <1>2, <3>0, EdgeSbcs
    <3>2. autoincrement' => ~readonaddr' /\ (sbbusy' => Writing')
      BY <3>1, StillWriting DEF Track
    <3> QED BY <2>0, <2>5, <3>2 DEF Track, After
  <2> QED BY <2>1, <2>2, <2>3, <2>4, <2>5 DEF Stages
<1> QED BY <1>1, <1>2

-----------------------------------------------------------------------------
(* A writebus moves what the calls asked for and owes the memory a word. *)
LEMMA WriteCall ==
    ASSUME Types, NEW b \in Addrs, NEW u \in Values, Holds("none", b, u),
           NEW a \in Addrs, NEW v \in Values, writebus(a, v)
    PROVE  Types' /\ \E st \in Stages : Holds(st, a, v)'
<1>0. PICK st \in {"w1", "w3"} : st = IF Continues(a) THEN "w1" ELSE "w3"
  OBVIOUS
<1>1. UNCHANGED <<dmactive, autoincrement, readonaddr, sbaccess, busyerror, sbaddr_q, sbdata_q, state_q, mem, gap>>
  BY DEF writebus, sbcsVars, sbaVars
<1>2. /\ lastwradr' = a /\ wanted' = [wanted EXCEPT ![a] = v] /\ wiped' = wiped
      /\ cut' = IF Strays(a) THEN cut \cup {a, sbaddr_q} ELSE cut \ {a}
  BY DEF writebus
<1>3. Types'
  <2>1. cut' \subseteq 0 .. NAddrs - 1
    BY <1>2, AddrsAreAddresses DEF Types
  <2> QED BY <1>1, <1>2, <2>1 DEF Types
<1>4. st \in Stages /\ todo' = Rest(st, a, v)
  BY <1>0 DEF writebus, Rest, Stages
<1>5. wanted'[a] = v
  BY <1>2 DEF Types
<1>6. ASSUME ~busyerror', ~wiped' PROVE Track(st, a)' /\ Memory(st, a)'
  <2>1. ~busyerror /\ ~wiped
    BY <1>1, <1>2, <1>6
  <2>2. Track("none", b) /\ Memory("none", b)
    BY <2>1 DEF Holds
  <2>3. Memory(st, a)'
    <3>1. \A x \in Addrs \ cut' : mem'[x] = wanted'[x] \/ x = a \/ (state_q' = "Write" /\ sbaddr_q' = x)
      BY <1>1, <1>2, <2>2 DEF Memory, Owed, Types
    <3>2. state_q' = "Write" /\ sbaddr_q' \in Addrs \ cut' /\ sbaddr_q' # a =>
            sbaccess' = "word" /\ sbdata_q' = wanted'[sbaddr_q']
      BY <1>1, <1>2, <2>2 DEF Memory, Owed, Types
    <3> QED BY <3>1, <3>2 DEF Memory, Owed
  <2>4. Track(st, a)'
    <3>1. CASE Continues(a) /\ autoincrement
      <4>1. lastwradr = a - 1 /\ a \in Nat /\ lastwradr # None /\ lastwradr + 1 = a
        BY <3>1, ConstantsAssumption DEF Continues, Addrs
      <4>2. (lastwradr + 1) % NAddrs = a
        BY <4>1, NotWrapped, AddrsAreAddresses
      <4>3. IF sbbusy THEN sbaddr_q + 1 = a ELSE sbaddr_q = a
        BY <2>1, <2>2, <3>1, <4>1, <4>2 DEF Track
      <4> QED BY <1>0, <1>1, <2>1, <2>2, <3>1, <4>3 DEF Track, sbbusy, Writing
    <3>2. CASE ~Continues(a)
      BY <1>0, <1>1, <2>2, <3>2 DEF Track, sbbusy, Writing
    <3>3. CASE Strays(a)
      BY <1>0, <1>1, <1>2, <3>3 DEF Strays, Track
    <3> QED BY <3>1, <3>2, <3>3 DEF Strays
  <2> QED BY <2>3, <2>4
<1>7. dmactive'
  BY <1>1 DEF Holds
<1>8. Holds(st, a, v)'
  BY <1>2, <1>4, <1>5, <1>6, <1>7 DEF Holds, Reading
<1> QED BY <1>3, <1>4, <1>8

(* A readbus, a resume or a new session changes no word. *)
LEMMA OtherCalls ==
    ASSUME Types, NEW b \in Addrs, NEW u \in Values, Holds("none", b, u), NEW a \in Addrs,
           readbus(a) \/ resume \/ NewSession
    PROVE  Types' /\ \E st \in Stages : Holds(st, a, u)'
<1>1. UNCHANGED <<dmactive, autoincrement, readonaddr, sbaccess, busyerror, sbaddr_q, sbdata_q, state_q,
                  mem, gap, wanted, cut>>
  BY DEF readbus, resume, NewSession, sbcsVars, sbaVars, history
<1>2. lastwradr' \in {lastwradr, None} /\ (wiped => wiped')
  BY DEF readbus, resume, NewSession, history, Types
<1>3. wiped' \in BOOLEAN
  BY DEF readbus, resume, NewSession, history, Types
<1>4. Types'
  BY <1>1, <1>2, <1>3 DEF Types
<1>5. ~busyerror' /\ ~wiped' => Track("none", b) /\ Memory("none", b)
  BY <1>1, <1>2 DEF Holds
<1>6. ASSUME NEW st \in {"none", "r3", "s2"}, ~busyerror', ~wiped'
      PROVE  Track(st, a)' /\ Memory(st, a)'
  BY <1>1, <1>2, <1>5, <1>6 DEF Track, Memory, Owed, sbbusy, Writing
<1>7. dmactive'
  BY <1>1 DEF Holds
<1>8. CASE readbus(a)
  <2>1. todo' = Rest("r3", a, u)
    BY <1>8 DEF readbus, Rest
  <2> QED BY <1>4, <1>6, <1>7, <2>1 DEF Holds, Reading, Stages
<1>9. CASE resume
  <2>1. todo' = Rest("none", a, u)
    BY <1>9 DEF resume, Rest, Holds
  <2> QED BY <1>4, <1>6, <1>7, <2>1 DEF Holds, Reading, Stages
<1>10. CASE NewSession
  <2>1. todo' = Rest("s2", a, u) /\ lastwradr' = None
    BY <1>10 DEF NewSession, Rest
  <2>2. busyerror' => wiped'
    BY <1>1, <1>10 DEF NewSession
  <2> QED BY <1>4, <1>6, <1>7, <2>1, <2>2 DEF Holds, Reading, Stages
<1> QED BY <1>8, <1>9, <1>10

(* An edge without a request. *)
LEMMA TickHolds ==
    ASSUME Types, NEW st \in Stages, NEW a \in Addrs, NEW v \in Values, Holds(st, a, v), Tick
    PROVE  Types' /\ Holds(st, a, v)'
<1>1. PICK b \in BusDoes : ClkEdge(NoReq, b)
  BY DEF Tick
<1>2. todo' = todo /\ lastwradr' = lastwradr /\ wanted' = wanted /\ wiped' = wiped
  BY <1>1 DEF Tick, ClkEdge
<1>3. gap' \in Nat
  BY DEF Tick, Types
<1>4. IsRequest(NoReq) /\ ~Taken(NoReq, "sbdata")
  BY DEF IsRequest, NoReq, Taken
<1>5. Types'
  BY <1>1, <1>3, <1>4, EdgeTypes
<1>6. dmactive' = dmactive
  BY <1>1 DEF ClkEdge, CsrEdge, NoReq
<1>7. busyerror' => busyerror
  <2>1. CASE dmactive
    <3>1. NoReq.kind = "none"
      BY DEF NoReq
    <3>2. busyerror' = busyerror
      BY <1>1, <2>1, <3>1, EdgeSbcs
    <3> QED BY <3>2
  <2>2. CASE ~dmactive
    BY <1>1, <2>2, InactiveEdge
  <2> QED BY <2>1, <2>2
<1>8. ASSUME ~busyerror', ~wiped' PROVE Track(st, a)' /\ Memory(st, a)'
  <2>1. CASE ~busyerror
    <3>1. Track(st, a) /\ Memory(st, a) /\ (~dmactive => st = "s1")
      BY <1>2, <1>8, <2>1 DEF Holds
    <3> QED BY <1>1, <1>4, <3>1, TickTrack, EdgeMemory
  <2>2. CASE busyerror
    <3>1. ~dmactive /\ st = "s1"
      <4>1. dmactive => busyerror' = busyerror
        BY <1>1, EdgeSbcs DEF NoReq
      <4> QED BY <1>8, <2>2, <4>1 DEF Holds
    <3>2. wiped
      BY <2>2, <3>1 DEF Holds
    <3> QED BY <1>2, <1>8, <3>2
  <2> QED BY <2>1, <2>2
<1>9. ~busyerror' => Reading(st, a)'
  <2>1. CASE ~dmactive
    BY <2>1 DEF Holds, Reading
  <2>2. CASE dmactive
    <3>1. NoReq.kind = "none"
      BY DEF NoReq
    <3>2. busyerror' = busyerror
      BY <1>1, <2>2, <3>1, EdgeSbcs
    <3> QED BY <1>1, <2>2, <3>2, TickReading DEF Holds
  <2> QED BY <2>1, <2>2
<1> QED BY <1>2, <1>5, <1>6, <1>7, <1>8, <1>9 DEF Holds

(* The next request of a call. *)
LEMMA RequestHolds ==
    ASSUME Types, NEW st \in Stages, NEW a \in Addrs, NEW v \in Values, Holds(st, a, v), Request
    PROVE  Types' /\ After(st) \in Stages /\ Holds(After(st), a, v)'
<1>0. st # "none"
  BY DEF Request, Holds, Rest
<1>a. Head(Rest(st, a, v)) = First(st, a, v)
  BY <1>0, HeadTail
<1>b. todo = Rest(st, a, v)
  BY DEF Holds
<1>1. PICK b \in BusDoes : ClkEdge(First(st, a, v), b)
  BY <1>a, <1>b DEF Request
<1>2. todo' = Rest(After(st), a, v) /\ After(st) \in Stages
  BY <1>0, HeadTail DEF Request, Holds
<1>3. lastwradr' = lastwradr /\ wanted' = wanted /\ wiped' = wiped
  BY <1>1 DEF ClkEdge
<1>4. gap' \in Nat
  BY ConstantsAssumption DEF Request, Wait
<1>5. Types'
  BY <1>0, <1>1, <1>4, FirstIsRequest, EdgeTypes
<1>6. ~dmactive' => After(st) = "s1"
  <2>1. CASE st = "s2"
    BY <2>1 DEF After
  <2>2. CASE st = "s1"
    <3>1. First(st, a, v).kind = "dmcontrol" /\ First(st, a, v).dmactive
      BY <2>2 DEF First, Activate
    <3> QED BY <1>1, <3>1 DEF ClkEdge, CsrEdge
  <2>3. CASE st \notin {"s2", "s1"}
    <3>1. First(st, a, v).kind # "dmcontrol"
      BY <1>0, <2>3 DEF First, Stages, Sbcs, Address, Data, ReadData
    <3>2. dmactive' = dmactive
      BY <1>1, <3>1 DEF ClkEdge, CsrEdge
    <3> QED BY <2>3, <3>2 DEF Holds
  <2> QED BY <2>1, <2>2, <2>3
<1>7. busyerror' /\ After(st) \in {"s2", "s1"} => wiped'
  <2>1. CASE st = "s2"
    <3>1. First(st, a, v).kind = "dmcontrol" /\ dmactive
      BY <2>1 DEF First, Activate, Holds
    <3>2. busyerror' = busyerror
      BY <1>1, <3>1, EdgeSbcs
    <3> QED BY <1>3, <2>1, <3>2 DEF Holds
  <2>2. CASE st # "s2"
    BY <2>2 DEF After
  <2> QED BY <2>1, <2>2
<1>8. ASSUME ~busyerror', ~wiped' PROVE Track(After(st), a)' /\ Memory(After(st), a)'
  <2>1. ~busyerror
    <3>1. CASE dmactive
      BY <1>1, <1>8, <3>1, EdgeSbcs
    <3>2. CASE ~dmactive
      BY <1>3, <1>8, <3>2 DEF Holds
    <3> QED BY <3>1, <3>2
  <2>2. Track(st, a) /\ Memory(st, a) /\ (~dmactive => st = "s1")
    BY <1>3, <1>8, <2>1 DEF Holds
  <2>3. Track(After(st), a)'
    BY <1>0, <1>1, <1>8, <2>2, RequestTrack DEF Holds
  <2>4. CASE st = "w1"
    <3>1. First(st, a, v) = Data(v) /\ First(st, a, v).kind = "sbdata" /\ dmactive
      BY <2>2, <2>4 DEF First, Data
    <3>2. ~sbbusy
      BY <1>1, <1>8, <3>1, EdgeSbcs
    <3>3. (sbaddr_q = a \/ (a \in cut /\ sbaddr_q \in cut)) /\ wanted[a] = v
      BY <2>2, <2>4, <3>2 DEF Track, Holds
    <3>4. Memory("none", a)'
      BY <1>1, <2>2, <2>4, <3>1, <3>2, <3>3, WriteMemory
    <3> QED BY <2>3, <2>4, <3>4 DEF After
  <2>5. CASE st # "w1"
    <3>1. ~Taken(First(st, a, v), "sbdata")
      BY <1>0, <2>5 DEF Taken, First, Stages, Sbcs, Address, ReadData, Activate
    <3> QED BY <1>1, <2>2, <2>3, <2>5, <3>1, EdgeMemory, SameOwed
  <2> QED BY <2>4, <2>5
<1>9. After(st) \in {"w3", "w2", "w1"} => st \in {"w3", "w2", "w1"}
  BY DEF After, Stages
<1>10. After(st) \in {"s2", "s1"} => st \in {"s2", "s1"}
  BY DEF After, Stages
<1>11. ~busyerror' => Reading(After(st), a)'
  <2>1. CASE ~dmactive
    <3>1. After(st) = "none"
      BY <2>1 DEF Holds, After
    <3> QED BY <3>1 DEF Reading
  <2>2. CASE dmactive
    <3>1. ~busyerror' => ~busyerror
      BY <1>1, <2>2, EdgeSbcs
    <3> QED BY <1>0, <1>1, <2>2, <3>1, RequestReading DEF Holds
  <2> QED BY <2>1, <2>2
<1> QED BY <1>2, <1>3, <1>5, <1>6, <1>7, <1>8, <1>9, <1>10, <1>11 DEF Holds

(* An access never takes longer than the bus may. *)
LEMMA EdgeLatency ==
    ASSUME Types, LatencyInv, NEW req, NEW b \in BusDoes, ClkEdge(req, b)
    PROVE  LatencyInv'
<1>1. maxLatency' = maxLatency /\ maxLatency \in Nat /\ maxLatency >= 2 /\ maxLatency \in Latencies
  BY ConstantsAssumption DEF ClkEdge, LatencyInv
<1>2. latency' = IF sbbusy /\ ~sbdata_valid(b) THEN latency + 1 ELSE 0
  BY DEF ClkEdge
<1>3. CASE ~sbbusy
  BY <1>1, <1>2, <1>3 DEF LatencyInv, Granting, Answering, sbbusy
<1>4. CASE Granting
  <2>1. latency' = latency + 1 /\ latency \in Nat /\ latency + 2 <= maxLatency
    BY <1>2, <1>4 DEF Granting, sbbusy, sbdata_valid, Answering, LatencyInv
  <2>2. b # "serves" => latency < maxLatency - 2
    BY <1>1, <1>4, <2>1 DEF BusDoes, Granting, sbbusy
  <2>3. state_q' = "Read" => b # "serves"
    BY <1>4 DEF ClkEdge, FsmNext, gnt, Granting, Answering
  <2>4. Granting' => b # "serves"
    BY <1>4, <2>3, EdgeFsm DEF Granting
  <2>5. sbbusy'
    BY <1>4, EdgeFsm DEF Granting, sbbusy
  <2> QED BY <1>1, <2>1, <2>2, <2>4, <2>5 DEF LatencyInv
<1>5. CASE Answering
  <2>1. b = "serves" => ~sbbusy' /\ latency' = 0
    BY <1>2, <1>5, EdgeFsm DEF Answering, sbbusy, sbdata_valid
  <2>2. b # "serves" => latency' = latency + 1 /\ state_q' = state_q
    BY <1>2, <1>5, EdgeFsm DEF Answering, sbbusy, sbdata_valid
  <2>3. b # "serves" => latency < maxLatency - 1
    BY <1>1, <1>5 DEF BusDoes, Granting, Answering, sbbusy, LatencyInv
  <2> QED BY <1>1, <1>5, <2>1, <2>2, <2>3 DEF LatencyInv, Granting, Answering, sbbusy
<1> QED BY <1>3, <1>4, <1>5 DEF Types, sbbusy, Granting, Answering

-----------------------------------------------------------------------------
(* The invariant holds at the start ... *)
LEMMA MemoryInvStarts == Init => MemoryInv
<1> SUFFICES ASSUME Init PROVE MemoryInv
  OBVIOUS
<1>1. 0 \in Addrs /\ Addrs \subseteq 0 .. NAddrs - 1
  BY ConstantsAssumption DEF Addrs
<1>2. Types
  BY <1>1, AddrsAreAddresses, ConstantsAssumption DEF Init, Types
<1>3. LatencyInv
  BY ConstantsAssumption DEF Init, LatencyInv, sbbusy, Granting, Answering
<1>4. Track("none", 0) /\ Memory("none", 0)
  BY DEF Init, Track, Memory, sbbusy, Owed
<1>5. Holds("none", 0, 0)
  BY <1>4 DEF Init, Holds, Rest, Reading
<1> QED BY <1>1, <1>2, <1>3, <1>5, ConstantsAssumption DEF MemoryInv, Stages

(* ... and every step keeps it. *)
LEMMA MemoryInvKept == MemoryInv /\ [Next]_vars => MemoryInv'
<1> SUFFICES ASSUME MemoryInv, [Next]_vars PROVE MemoryInv'
  OBVIOUS
<1>1. PICK st \in Stages, a \in Addrs, v \in Values : Holds(st, a, v)
  BY DEF MemoryInv
<1>2. Types /\ LatencyInv
  BY DEF MemoryInv
<1>a. st # "none" => Rest(st, a, v) # <<>>
  BY HeadTail
<1>3. todo = <<>> => st = "none"
  BY <1>1, <1>a DEF Holds
<1>4. CASE \E x \in Addrs : readbus(x) \/ \E w \in Values : writebus(x, w)
  <2>1. LatencyInv' /\ todo = <<>>
    BY <1>2, <1>4 DEF LatencyInv, readbus, writebus, sbaVars, sbbusy, Granting, Answering
  <2> QED BY <1>1, <1>2, <1>3, <1>4, <2>1, WriteCall, OtherCalls DEF MemoryInv
<1>5. CASE resume \/ NewSession
  <2>1. LatencyInv' /\ todo = <<>>
    BY <1>2, <1>5 DEF LatencyInv, resume, NewSession, sbaVars, sbbusy, Granting, Answering
  <2> QED BY <1>1, <1>2, <1>3, <1>5, <2>1, OtherCalls DEF MemoryInv
<1>6. CASE Request
  <2>1. PICK b \in BusDoes : ClkEdge(Head(todo), b)
    BY <1>6 DEF Request
  <2>2. LatencyInv'
    BY <1>2, <2>1, EdgeLatency
  <2>3. Types' /\ After(st) \in Stages /\ Holds(After(st), a, v)'
    BY <1>1, <1>2, <1>6, RequestHolds
  <2> QED BY <2>2, <2>3 DEF MemoryInv
<1>7. CASE Tick
  <2>1. \E b \in BusDoes : ClkEdge(NoReq, b)
    BY <1>7 DEF Tick
  <2> QED BY <1>1, <1>2, <1>7, <2>1, TickHolds, EdgeLatency DEF MemoryInv
<1>8. CASE UNCHANGED vars
  <2>1. Types' /\ LatencyInv'
    BY <1>2, <1>8 DEF vars, hostVars, sbcsVars, sbaVars, history, Types, LatencyInv, sbbusy, Granting, Answering
  <2>2. Holds(st, a, v)'
    BY <1>1, <1>8 DEF vars, hostVars, sbcsVars, sbaVars, history, Holds, Reading, Track, Memory, Owed, sbbusy,
       Writing
  <2> QED BY <2>1, <2>2 DEF MemoryInv
<1> QED BY <1>4, <1>5, <1>6, <1>7, <1>8 DEF Next

(* Type correctness of the memory access, for every size of the memory, of *)
(* the address space and every set of buses: no address leaves the address *)
(* space, and no access takes longer than the bus may.                     *)
THEOREM BusTypesHold == Spec => []TypeOK
<1>1. MemoryInv => TypeOK
  <2> SUFFICES ASSUME MemoryInv PROVE TypeOK
    OBVIOUS
  <2>1. Len(todo) <= 3
    BY ShortRest DEF MemoryInv, Holds
  <2>2. maxLatency \in Nat /\ maxLatency >= 2 /\ latency \in Nat /\ latency < maxLatency
    BY ConstantsAssumption DEF MemoryInv, LatencyInv, Types, sbbusy, Granting, Answering
  <2>3. latency \in 0 .. maxLatency - 1
    BY <2>2
  <2> QED BY <2>1, <2>3 DEF MemoryInv, Types, LatencyInv, TypeOK
<1> QED BY <1>1, MemoryInvStarts, MemoryInvKept, PTL DEF Spec

(* What the calls of PulpOCD asked for is what the memory holds once the   *)
(* bus is quiet, whatever the calls, the bus and the pace of the debugger, *)
(* unless a busy error, noted or wiped out, says otherwise; strayed runs   *)
(* and cut sessions reach no word but those noted for them.                *)
THEOREM MemoryIsAsAsked == Spec => []MemoryAsAsked
<1>1. MemoryInv => MemoryAsAsked
  <2> SUFFICES ASSUME MemoryInv, Settled, ~busyerror, ~wiped, NEW x \in Addrs \ cut
               PROVE  mem[x] = wanted[x]
    BY DEF MemoryAsAsked
  <2>1. PICK st \in Stages, a \in Addrs, v \in Values : Holds(st, a, v)
    BY DEF MemoryInv
  <2>a. st # "none" => Rest(st, a, v) # <<>>
    BY HeadTail
  <2>2. st = "none"
    BY <2>1, <2>a DEF Holds, Settled
  <2>3. Memory("none", a)
    BY <2>1, <2>2 DEF Holds
  <2> QED BY <2>3 DEF Memory, Owed, Settled, sbbusy
<1> QED BY <1>1, MemoryInvStarts, MemoryInvKept, PTL DEF Spec

(* readbus returns what the memory holds, unless the busy error is set,    *)
(* whatever the size of the memory, the bus and the pace of the debugger.  *)
THEOREM ReadsAreCurrent == Spec => ReadIsCurrent
<1>1. MemoryInv /\ [Next]_vars =>
        [todo # <<>> /\ todo' = Tail(todo) /\ Head(todo).kind = "readdata" /\ ~busyerror'
            => sbdata_q = mem[Head(todo).adr]]_vars
  <2> SUFFICES ASSUME MemoryInv, Next, todo # <<>>, todo' = Tail(todo),
                      Head(todo).kind = "readdata", ~busyerror'
               PROVE  sbdata_q = mem[Head(todo).adr]
    OBVIOUS
  <2>1. PICK st \in Stages, a \in Addrs, v \in Values : Holds(st, a, v)
    BY DEF MemoryInv
  <2>b. st # "none"
    BY <2>1 DEF Holds, Rest
  <2>2. todo = Rest(st, a, v)
    BY <2>1 DEF Holds
  <2>3. Head(todo) = First(st, a, v)
    BY <2>b, <2>2, HeadOf
  <2>4. st = "r1"
    BY <2>b, <2>3 DEF First, Stages, Sbcs, Address, Data, Activate
  <2>5. Head(todo).adr = a
    BY <2>3, <2>4 DEF First, ReadData
  <2>6. dmactive
    BY <2>1, <2>4 DEF Holds
  <2>7. todo' # todo
    <3>1. Rest("r1", a, v) # Rest(After("r1"), a, v)
      BY HeadTail DEF After, Rest, Stages
    <3>2. Tail(todo) = Rest(After("r1"), a, v)
      BY <2>2, <2>4, HeadTail
    <3> QED BY <2>2, <2>4, <3>1, <3>2
  <2>8. Request
    BY <2>7 DEF Next, readbus, writebus, resume, NewSession, Tick
  <2>9. PICK b \in BusDoes : ClkEdge(Head(todo), b)
    BY <2>8 DEF Request
  <2>10. ~busyerror /\ ~sbbusy
    BY <2>6, <2>9, EdgeSbcs DEF MemoryInv
  <2> QED BY <2>1, <2>4, <2>5, <2>10 DEF Holds, Reading
<1> QED BY <1>1, MemoryInvStarts, MemoryInvKept, PTL DEF Spec, ReadIsCurrent
=============================================================================
