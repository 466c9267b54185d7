------------------------------ MODULE SystemBus ------------------------------
(***************************************************************************)
(* Memory access of the debugger in the pulp SoC: writebus and readbus of  *)
(* pulp/ocd.py, the sbcs, sbaddress0 and sbdata0 registers of dm_csrs.sv,  *)
(* the bus master dm_sba.sv and, external, the bus with its memory.        *)
(*                                                                         *)
(* Addresses are word numbers: the debugger only asks for words, so an     *)
(* auto-increment adds one.  A session may end with another debugger that  *)
(* deactivates the debug module before it uses it, as the OpenOCD of       *)
(* pulp/tb/debug does: that resets dm_csrs, but not the bus master.        *)
(***************************************************************************)
EXTENDS Naturals, Sequences

CONSTANTS
    NWords,     \* words of memory the debugger works on
    NAddrs,     \* word addresses of the bus, 2^30: sbaddr_q wraps
    Values,     \* contents of a word
    None,       \* PulpOCD.lastwradr when no run of writes is open
    DmiGap,     \* clk edges at least between two DMI requests
    ReadWait,   \* clk edges at least before readbus fetches the word
    Latencies   \* the buses considered: clk edges within which one completes an access

Addrs == 0 .. NWords - 1

ASSUME ConstantsAssumption ==
    /\ NWords \in Nat \ {0} /\ NAddrs \in Nat /\ NWords <= NAddrs /\ 0 \in Values /\ None \notin Nat
    /\ DmiGap \in Nat /\ ReadWait \in Nat /\ Latencies \subseteq Nat \ {0, 1}

VARIABLES
    todo, lastwradr,                               \* PulpOCD: the requests left of a call
    dmactive,                                      \* dmcontrol_q
    autoincrement, readonaddr, sbaccess, busyerror,  \* sbcs_q
    sbaddr_q, sbdata_q, state_q,                   \* dm_csrs and dm_sba
    mem, latency,                                  \* the memory; edges the access has taken
    maxLatency,                                    \* the bus: it never changes
    gap,                                           \* clk edges before the next request
    wanted, wiped, cut                             \* history, see below

hostVars == <<todo, lastwradr>>
sbcsVars == <<dmactive, autoincrement, readonaddr, sbaccess, busyerror>>
sbaVars  == <<sbaddr_q, sbdata_q, state_q>>
history  == <<wanted, wiped, cut>>
vars     == <<hostVars, sbcsVars, sbaVars, mem, latency, maxLatency, gap, history>>

Sbcs(auto, onaddr) == [kind |-> "sbcs", autoincrement |-> auto, readonaddr |-> onaddr]
Address(a)         == [kind |-> "sbaddress", adr |-> a]
Data(v)            == [kind |-> "sbdata", val |-> v]
ReadData(a)        == [kind |-> "readdata", adr |-> a]
Activate(on)       == [kind |-> "dmcontrol", dmactive |-> on]
NoReq              == [kind |-> "none"]

Init ==
    /\ todo = <<>> /\ lastwradr = None
    /\ dmactive = TRUE
    /\ autoincrement = FALSE /\ readonaddr = FALSE /\ sbaccess = "word" /\ busyerror = FALSE
    /\ sbaddr_q = 0 /\ sbdata_q = 0 /\ state_q = "Idle"
    /\ mem \in [Addrs -> Values] /\ wanted = mem
    /\ latency = 0 /\ gap = 0 /\ maxLatency \in Latencies
    /\ wiped = FALSE /\ cut = {}

-----------------------------------------------------------------------------
(* The calls of PulpOCD.  wanted is the memory as the calls describe it;   *)
(* wiped notes that a new session has wiped out a busy error.  cut has the *)
(* words that may differ since they were last written: those hit by a      *)
(* write that a new session met before the bus had granted it; and, for a  *)
(* run of writes continued although a readbus has taken the address        *)
(* register and the auto-increment away from it, the word meant and the    *)
(* one the address register was left at.                                   *)

Continues(a) == a > 0 /\ lastwradr = a - 1
Strays(a)    == Continues(a) /\ ~autoincrement

writebus(a, v) ==
    /\ todo = <<>>
    /\ todo' = IF Continues(a) THEN <<Data(v)>>
               ELSE <<Sbcs(TRUE, FALSE), Address(a), Data(v)>>
    /\ lastwradr' = a
    /\ wanted' = [wanted EXCEPT ![a] = v]
    /\ cut' = IF Strays(a) THEN cut \cup {a, sbaddr_q} ELSE cut \ {a}
    /\ UNCHANGED <<sbcsVars, sbaVars, mem, latency, maxLatency, gap, wiped>>

readbus_Incrementing(a) ==
    /\ todo = <<>>
    /\ todo' = <<Sbcs(TRUE, TRUE), Address(a), ReadData(a)>>
    /\ UNCHANGED <<lastwradr, sbcsVars, sbaVars, mem, latency, maxLatency, gap, history>>

readbus(a) ==
    /\ todo = <<>>
    /\ todo' = <<Sbcs(FALSE, TRUE), Address(a), ReadData(a)>>
    /\ UNCHANGED <<lastwradr, sbcsVars, sbaVars, mem, latency, maxLatency, gap, history>>

resume ==
    /\ todo = <<>> /\ lastwradr # None
    /\ lastwradr' = None
    /\ UNCHANGED <<todo, sbcsVars, sbaVars, mem, latency, maxLatency, gap, history>>

NewSession ==
    /\ todo = <<>>
    /\ todo' = <<Activate(FALSE), Activate(TRUE)>>
    /\ lastwradr' = None
    /\ wiped' = (wiped \/ busyerror)
    /\ UNCHANGED <<sbcsVars, sbaVars, mem, latency, maxLatency, gap, wanted, cut>>

-----------------------------------------------------------------------------
(* One edge of clk: the bus (external) may grant or answer, and at most    *)
(* one request arrives.                                                    *)

sbbusy == state_q # "Idle"

\* What the bus may do; it completes an access within maxLatency edges.
Granting  == state_q \in {"Read", "Write"}
Answering == state_q \in {"WaitRead", "WaitWrite"}
BusDoes ==
    IF ~sbbusy THEN {"nothing"}
    ELSE IF latency >= maxLatency - (IF Granting THEN 2 ELSE 1) THEN {"serves"}
    ELSE {"serves", "nothing"}

gnt(b)          == b = "serves" /\ Granting
sbdata_valid(b) == b = "serves" /\ Answering

Taken(req, kind) == req.kind = kind /\ ~sbbusy

FsmNext_ReadsEndOnly(req, b) ==
    CASE state_q = "Idle" ->
             IF Taken(req, "sbdata") THEN "Write"
             ELSE IF Taken(req, "sbaddress") /\ readonaddr THEN "Read" ELSE "Idle"
      [] state_q = "Read"  -> IF gnt(b) THEN "WaitRead" ELSE "Read"
      [] state_q = "Write" -> IF gnt(b) THEN "WaitWrite" ELSE "Write"
      [] Answering -> IF sbdata_valid(b) /\ state_q = "WaitRead" THEN "Idle" ELSE state_q

FsmNext(req, b) ==
    CASE state_q = "Idle" ->
             IF Taken(req, "sbdata") THEN "Write"
             ELSE IF Taken(req, "sbaddress") /\ readonaddr THEN "Read" ELSE "Idle"
      [] state_q = "Read"  -> IF gnt(b) THEN "WaitRead" ELSE "Read"
      [] state_q = "Write" -> IF gnt(b) THEN "WaitWrite" ELSE "Write"
      [] Answering -> IF sbdata_valid(b) THEN "Idle" ELSE state_q

SbaddrNext(req, b) ==
    IF Taken(req, "sbaddress") THEN req.adr
    ELSE IF sbdata_valid(b) /\ autoincrement THEN (sbaddr_q + 1) % NAddrs ELSE sbaddr_q

\* Every answer of the bus is loaded, that to a write too: it carries any word.
SbdataNext(req, b) ==
    IF sbdata_valid(b)
    THEN IF state_q = "WaitRead" THEN {mem[sbaddr_q]} ELSE Values
    ELSE IF Taken(req, "sbdata") THEN {req.val} ELSE {sbdata_q}

BusyErrorNext_DataOnly(req) == busyerror \/ (req.kind = "sbdata" /\ sbbusy)
BusyErrorNext(req) == busyerror \/ (req.kind \notin {"none", "dmcontrol"} /\ sbbusy)

\* The registers of dm_csrs; at an edge with dmactive low all but dmactive are cleared.
Active(req, b) ==
    /\ autoincrement' = IF Taken(req, "sbcs") THEN req.autoincrement ELSE autoincrement
    /\ readonaddr' = IF Taken(req, "sbcs") THEN req.readonaddr ELSE readonaddr
    /\ sbaccess' = "word"
    /\ busyerror' = BusyErrorNext(req)
    /\ sbaddr_q' = SbaddrNext(req, b)
    /\ sbdata_q' \in SbdataNext(req, b)

Inactive ==
    /\ autoincrement' = FALSE /\ readonaddr' = FALSE /\ sbaccess' = "byte" /\ busyerror' = FALSE
    /\ sbaddr_q' = 0 /\ sbdata_q' = 0

CsrEdge(req, b) ==
    /\ dmactive' = IF req.kind = "dmcontrol" THEN req.dmactive ELSE dmactive
    /\ IF dmactive THEN Active(req, b) ELSE Inactive

\* The bus writes the word it is granted, at the address of that edge.  Of a
\* byte access it takes one byte lane: the word may then be any.
MemNext(b) ==
    IF gnt(b) /\ state_q = "Write" /\ sbaddr_q \in Addrs
    THEN {[mem EXCEPT ![sbaddr_q] = v] : v \in IF sbaccess = "word" THEN {sbdata_q} ELSE Values}
    ELSE {mem}

Wait == IF Len(todo) > 1 /\ todo[2].kind = "readdata" THEN ReadWait ELSE DmiGap

Abandoned(b) == IF state_q = "Write" /\ ~gnt(b) /\ ~dmactive THEN {sbaddr_q, 0} ELSE {}

ClkEdge(req, b) ==
    /\ CsrEdge(req, b)
    /\ state_q' = FsmNext(req, b)
    /\ mem' \in MemNext(b)
    /\ latency' = IF sbbusy /\ ~sbdata_valid(b) THEN latency + 1 ELSE 0
    /\ cut' = cut \cup Abandoned(b)
    /\ UNCHANGED <<lastwradr, maxLatency, wanted, wiped>>

Request ==
    /\ todo # <<>> /\ gap = 0
    /\ \E b \in BusDoes : ClkEdge(Head(todo), b)
    /\ todo' = Tail(todo) /\ gap' = Wait

Tick ==
    /\ \E b \in BusDoes : ClkEdge(NoReq, b)
    /\ gap' = IF gap > 0 THEN gap - 1 ELSE 0
    /\ UNCHANGED todo

Next ==
    \/ \E a \in Addrs : readbus(a) \/ \E v \in Values : writebus(a, v)
    \/ resume
    \/ NewSession
    \/ Request
    \/ Tick

Spec == Init /\ [][Next]_vars
-----------------------------------------------------------------------------
TypeOK ==
    /\ lastwradr \in Addrs \cup {None} /\ Len(todo) <= 3
    /\ autoincrement \in BOOLEAN /\ readonaddr \in BOOLEAN /\ busyerror \in BOOLEAN
    /\ dmactive \in BOOLEAN /\ sbaccess \in {"word", "byte"}
    /\ sbaddr_q \in 0 .. NAddrs - 1 /\ sbdata_q \in Values
    /\ state_q \in {"Idle", "Read", "Write", "WaitRead", "WaitWrite"}
    /\ mem \in [Addrs -> Values] /\ wanted \in [Addrs -> Values]
    /\ maxLatency \in Latencies /\ latency \in 0 .. maxLatency - 1 /\ gap \in Nat
    /\ wiped \in BOOLEAN /\ cut \subseteq 0 .. NAddrs - 1

(* When a call of writebus is over and the bus is quiet, the memory holds  *)
(* what all calls so far asked for, unless the busy error says that a word *)
(* was dropped.  A run of writes continued across a readbus costs the word *)
(* meant and the word last read, and a new session that cuts off a write   *)
(* costs that word and word 0: no other word is ever hit.                  *)
Settled == todo = <<>> /\ ~sbbusy
MemoryAsAsked ==
    Settled /\ ~busyerror /\ ~wiped => \A a \in Addrs \ cut : mem[a] = wanted[a]

(* readbus returns what the memory holds, unless the busy error is set. *)
ReadIsCurrent ==
    [][todo # <<>> /\ todo' = Tail(todo) /\ Head(todo).kind = "readdata" /\ ~busyerror'
          => sbdata_q = mem[Head(todo).adr]]_vars

(* A bus that is fast enough for the debugger's pace is never caught busy: *)
(* PulpOCD never looks at the busy error.                                  *)
NeverBusy == maxLatency <= DmiGap /\ DmiGap <= ReadWait => ~busyerror
=============================================================================
