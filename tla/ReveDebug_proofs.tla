-------------------------- MODULE ReveDebug_proofs --------------------------
(***************************************************************************)
(* Proofs about ReveDebug, for any number of harts, any words and any      *)
(* pacing of the host.                                                     *)
(***************************************************************************)
EXTENDS ReveDebug, TLAPS

LEMMA WritesTyped ==
    ASSUME TypeOK, NEW w \in Writes \cup {NoWrite}
    PROVE  /\ w.to = "dmcontrol" => /\ w.active \in BOOLEAN /\ w.sel \in Slots
                                    /\ w.ask \in [halt : BOOLEAN, resume : BOOLEAN]
           /\ w.to \in {"data0", "progbuf0"} => w.data \in Words
           /\ w.to = "command" => w.transfer \in {"none", "read", "write"} /\ w.exec \in BOOLEAN
BY ReveDebugAssumption DEF TypeOK, HistTypeOK, Writes, NoWrite, Slots, Words

LEMMA ModuleTyped ==
    ASSUME TypeOK, NEW w \in Writes \cup {NoWrite}, Module(w)
    PROVE  ModuleTypeOK'
<1> USE DEF TypeOK, ModuleTypeOK
<1>1. dmactive' \in BOOLEAN /\ must_set_requests' \in BOOLEAN
      /\ hart_sel' \in Slots /\ requests' \in [halt : BOOLEAN, resume : BOOLEAN]
  BY WritesTyped DEF Module, Control
<1>2. busy' \in BOOLEAN /\ halted_seen' \in BOOLEAN /\ resumed_seen' \in BOOLEAN
  BY Zenon DEF Module, Command, LearnStatus
<1>3. cmderr' \in {"none", "busy", "notsupported", "haltresume"}
  BY DEF Module, CmdErr
<1>4. fsm_state' \in {"idle", "transfer", "transferring", "execute", "executing"}
  BY DEF Module, Command
<1>5. command' \in [transfer : {"none", "read", "write"}, exec : BOOLEAN]
  BY WritesTyped DEF Module, Command, Accepts, NoCommand
<1>6. data0' \in Words /\ progbuf0' \in Words
  BY WritesTyped DEF Module, Command, HartTypeOK
<1> DEFINE Messages == [op : {"none", "requests", "read", "write", "exec", "poll"}, select : Slots,
                        requests : [halt : BOOLEAN, resume : BOOLEAN], data : Words]
<1>a. NoRequests \in [halt : BOOLEAN, resume : BOOLEAN] /\ Junk \in Words /\ 0 \in Slots
  BY ReveDebugAssumption DEF NoRequests, Words, Slots
<1>b. NextToPoll \in Slots
  BY ReveDebugAssumption DEF NextToPoll, Slots
<1>7. mst' \in Messages /\ hart_to_poll' \in Slots
  <2>1. CASE must_set_requests
    BY <2>1, <1>a DEF Module, Drive, ToSelected
  <2>2. CASE ~must_set_requests /\ InitiatesTransfer
    <3>1. command.transfer \in {"read", "write"}
      BY <2>2 DEF InitiatesTransfer
    <3> QED BY <2>2, <3>1, <1>a DEF Module, Drive, ToSelected
  <2>3. CASE ~must_set_requests /\ ~InitiatesTransfer /\ InitiatesExecute
    BY <2>3, <1>a DEF Module, Drive, ToSelected
  <2>4. CASE ~must_set_requests /\ ~InitiatesTransfer /\ ~InitiatesExecute /\ attention
    BY <2>4, <1>a, <1>b DEF Module, Drive
  <2>5. CASE ~must_set_requests /\ ~InitiatesTransfer /\ ~InitiatesExecute /\ ~attention
    BY <2>5, <1>a DEF Module, Drive, Nothing
  <2> QED BY <2>1, <2>2, <2>3, <2>4, <2>5
<1> QED BY <1>1, <1>2, <1>3, <1>4, <1>5, <1>6, <1>7

LEMMA HartTyped ==
    ASSUME TypeOK, NEW en \in BOOLEAN, Hart(en)
    PROVE  HartTypeOK'
<1> USE DEF TypeOK, HartTypeOK
<1>1. attention' \in BOOLEAN /\ response' \in BOOLEAN
      /\ waiting_for_read_write' \in BOOLEAN /\ exec_progbuf_req' \in BOOLEAN
      /\ resumed' \in BOOLEAN /\ halted' \in BOOLEAN
  BY Zenon DEF Hart, Obey, Attention, HartControl, ProgbufAsked
<1>2. read_write_completed' \in BOOLEAN
  BY DEF Hart, Obey, Answered
<1>3. asked' \in [halt : BOOLEAN, resume : BOOLEAN] /\ hart_data0' \in Words
  BY DEF Hart, Obey, ModuleTypeOK, PipeTypeOK, Instructions
<1>4. debug' \in [valid : BOOLEAN, op : {"read", "write"}]
  BY DEF Hart, Obey, Transfer, Told, ModuleTypeOK
<1>5. control' \in {"running", "halting", "halted", "resuming", "starting", "executing"}
  BY DEF Hart, HartControl
<1> QED BY <1>1, <1>2, <1>3, <1>4, <1>5

LEMMA PipeTyped ==
    ASSUME TypeOK, NEW en \in BOOLEAN, NEW own \in {"program", "stop"},
           Pipeline(en, own), Timer(en)
    PROVE  PipeTypeOK'
<1> USE DEF TypeOK, PipeTypeOK
<1>1. irq' \in BOOLEAN
  BY DEF Timer
<1>2. CASE ~en
  BY <1>1, <1>2 DEF Pipeline
<1>3. CASE en
  <2>1. fetch' \in {"stopped", "program", "buffer", "ebreak"}
    BY <1>3 DEF Pipeline, Fetch
  <2>2. fetch_halt_req' \in BOOLEAN /\ fetch_debug' \in BOOLEAN
    BY <1>3 DEF Pipeline, Fetch, HartTypeOK
  <2>3. Fetched(own) \in Instructions /\ NoInstruction \in Instructions
    <3>1. [op |-> debug.op, data |-> hart_data0] \in Instructions
      BY DEF HartTypeOK, Instructions
    <3>2. [op |-> own, data |-> Junk] \in Instructions
      BY DEF Instructions, Words
    <3>3. [op |-> "word", data |-> hart_data0] \in Instructions
      BY DEF HartTypeOK, Instructions
    <3>4. [op |-> "ebreak", data |-> Junk] \in Instructions /\ NoInstruction \in Instructions
      BY DEF Instructions, NoInstruction, Words
    <3> QED BY <3>1, <3>2, <3>3, <3>4 DEF Fetched
  <2>4. exec' \in Instructions /\ rfw' \in Instructions /\ reg' \in Words
    BY <1>3, <2>3 DEF Pipeline, Execute, Instructions
  <2> QED BY <1>1, <2>1, <2>2, <2>4
<1> QED BY <1>2, <1>3

LEMMA HistTyped ==
    ASSUME TypeOK, NEW w \in Writes \cup {NoWrite}, NEW en \in BOOLEAN,
           Remember(w, en), UNCHANGED host, en \/ stalled < host.stalls
    PROVE  HistTypeOK'
<1> USE DEF TypeOK, HistTypeOK
<1>1. want' \in [reg : Words, data0 : Words]
  BY WritesTyped DEF Remember, Accepts, ModuleTypeOK, Words
<1>2. spoilt' \in BOOLEAN
  BY DEF Remember
<1>3. since' \in 0..host'.gap /\ stalled' \in 0..host'.stalls
  BY ReveDebugAssumption DEF Remember
<1> QED BY <1>1, <1>2, <1>3

(* The registers of the module, of the hart and of the pipeline keep their *)
(* types.                                                                  *)
THEOREM TypeCorrect == Spec => []TypeOK
<1>1. Init => TypeOK
  <2> SUFFICES ASSUME Init PROVE TypeOK
    OBVIOUS
  <2>1. NoRequests \in [halt : BOOLEAN, resume : BOOLEAN] /\ Junk \in Words /\ 0 \in Slots
    BY ReveDebugAssumption DEF NoRequests, Words, Slots
  <2>2. ModuleTypeOK
    BY <2>1 DEF Init, ModuleTypeOK, NoCommand, Nothing
  <2>3. HartTypeOK
    BY <2>1 DEF Init, HartTypeOK
  <2>4. PipeTypeOK
    BY <2>1 DEF Init, PipeTypeOK, Instructions, NoInstruction
  <2>5. HistTypeOK
    <3>1. host \in Hosts /\ host.gap \in Nat /\ host.stalls \in Nat
      BY ReveDebugAssumption DEF Init
    <3>2. want \in [reg : Words, data0 : Words]
      BY <2>1 DEF Init
    <3>3. since = 0 /\ stalled = 0 /\ spoilt = FALSE
      BY DEF Init
    <3>4. since \in 0..host.gap
      BY <3>1, <3>3
    <3>5. stalled \in 0..host.stalls
      BY <3>1, <3>3
    <3>6. spoilt \in BOOLEAN
      BY <3>3
    <3> QED BY <3>1, <3>2, <3>4, <3>5, <3>6 DEF HistTypeOK
  <2> QED BY <2>2, <2>3, <2>4, <2>5 DEF TypeOK
<1>2. TypeOK /\ [Next]_vars => TypeOK'
  <2> SUFFICES ASSUME TypeOK, [Next]_vars PROVE TypeOK'
    OBVIOUS
  <2>1. CASE UNCHANGED vars
    BY <2>1 DEF vars, moduleVars, hartVars, pipeVars, histVars, TypeOK, ModuleTypeOK, HartTypeOK,
       PipeTypeOK, HistTypeOK
  <2>2. CASE Next
    <3>1. PICK en \in BOOLEAN, own \in {"program", "stop"}, w \in Writes \cup {NoWrite} :
              Edge(w, en, own)
      BY <2>2, Zenon DEF Next, Own
    <3>2. ModuleTypeOK'
      BY <3>1, ModuleTyped DEF Edge
    <3>3. HartTypeOK'
      BY <3>1, HartTyped DEF Edge
    <3>4. PipeTypeOK'
      BY <3>1, PipeTyped DEF Edge
    <3>5. HistTypeOK'
      BY <3>1, HistTyped DEF Edge
    <3> QED BY <3>2, <3>3, <3>4, <3>5 DEF TypeOK
  <2> QED BY <2>1, <2>2
<1> QED BY <1>1, <1>2, PTL DEF Spec

(* An edge without news leaves the hart as it was. *)
LEMMA NoNewsNoChange ==
    ASSUME TypeOK, NEW en \in BOOLEAN, Hart(en), ~attention'
    PROVE  halted' = halted /\ resumed' = resumed
<1>1. ~Stops(en) /\ ~Departs(en) /\ ~StepsBack
  BY Zenon DEF Hart, Attention
<1> QED BY <1>1, Zenon DEF Hart, HartControl, StepsBack, TypeOK, HartTypeOK

(* While the module is active and no message, answer or attention is on    *)
(* its way, the halted and resumed flags it shows of its hart are those of *)
(* the hart, whatever the host writes and whenever.                        *)
THEOREM StatusIsNeverStale == Spec => []StatusIsCurrent
<1>1. Init => StatusIsCurrent
  BY DEF Init, StatusIsCurrent
<1>2. TypeOK /\ StatusIsCurrent /\ [Next]_vars => StatusIsCurrent'
  <2> SUFFICES ASSUME TypeOK, StatusIsCurrent, [Next]_vars,
                      dmactive', hart_sel' = 0, ~NewsOnTheWay'
               PROVE  halted_seen' = halted' /\ resumed_seen' = resumed'
    BY DEF StatusIsCurrent
  <2>1. CASE UNCHANGED vars
    BY <2>1 DEF vars, moduleVars, hartVars, StatusIsCurrent, NewsOnTheWay
  <2>2. CASE Next
    <3>1. PICK en \in BOOLEAN, own \in {"program", "stop"}, w \in Writes \cup {NoWrite} :
              Edge(w, en, own)
      BY <2>2, Zenon DEF Next, Own
    <3>2. halted' = halted /\ resumed' = resumed
      BY <3>1, NoNewsNoChange DEF Edge, NewsOnTheWay
    <3>3. w.to # "dmcontrol" /\ dmactive /\ hart_sel = 0
      BY <3>1 DEF Edge, Module, Control, NewsOnTheWay
    <3>4. ~(mst.op # "none" /\ mst.select = 0)
      BY <3>1 DEF Edge, Hart, HartControl, NewsOnTheWay
    <3>5. ~attention
      BY <3>1, <3>4 DEF Edge, Hart, Attention, NewsOnTheWay
    <3>6. ~must_set_requests
      BY <3>1, <3>3 DEF Edge, Module, Drive, ToSelected, NewsOnTheWay
    <3>7. halted_seen' = (IF response THEN halted ELSE halted_seen)
          /\ resumed_seen' = (IF response THEN resumed ELSE resumed_seen)
      BY <3>1, <3>3 DEF Edge, Module, LearnStatus, TypeOK, ModuleTypeOK, HartTypeOK
    <3>8. ~response => halted_seen = halted /\ resumed_seen = resumed
      BY <3>3, <3>4, <3>5, <3>6 DEF StatusIsCurrent, NewsOnTheWay
    <3> QED BY <3>2, <3>7, <3>8
  <2> QED BY <2>1, <2>2
<1> QED BY <1>1, <1>2, TypeCorrect, PTL DEF Spec

-----------------------------------------------------------------------------
(* A patient host finds everything done when it writes again: an invariant  *)
(* names the stages of a command, and for each the edge by which it ends.   *)
(* T edges bring at least one tick of the RISC-V clock; a command takes     *)
(* eight ticks, and ten edges and a round of polling besides.               *)
T == host.stalls + 1
Deadline(h) == 10 + 8 * (h.stalls + 1) + LastSlot

PatienceSuffices ==
    \A h \in Hosts : h.gap >= Patience => h.gap >= Deadline(h) /\ h.harts \subseteq {0}

Relied == patient /\ ~spoilt

(* Edge a after the write came at most n ticks ago. *)
Ticks(a, n) == since <= a + n * T + stalled

(* Edges until the module has heard of its hart, from attention on.         *)
ToHart == mst.op # "none" /\ mst.select = 0
News == IF response THEN 1 ELSE IF ToHart THEN 2 ELSE IF must_set_requests THEN 3 ELSE hart_to_poll + 3

-----------------------------------------------------------------------------
(* Requests reach the hart in two edges. *)
Requested ==
    /\ hart_sel = 0
    /\ must_set_requests => since = 0
    /\ mst.op = "requests" => since = 1 /\ mst.select = 0 /\ mst.requests = requests /\ ~must_set_requests
    /\ ~must_set_requests /\ mst.op # "requests" => asked = requests
    /\ halted_seen /\ ~dmactive => since = 0
    /\ cmderr # "busy"

(* Without a command under way. *)
Unused ==
    /\ ~debug.valid /\ ~fetch_debug /\ ~waiting_for_read_write /\ ~read_write_completed
    /\ ~exec_progbuf_req
Instructed == mst.op \in {"read", "write", "exec"}
AtRest == ~busy /\ fsm_state = "idle" /\ ~Instructed

(* How many ticks the program needs to execute its first instruction. *)
Lag == IF exec.op = "program" THEN 1
       ELSE IF fetch = "program" /\ exec.op = "none" THEN IF irq THEN 3 ELSE 2
       ELSE IF control = "resuming" /\ Stopped THEN 4 ELSE 0

RunControl ==
    /\ control \in {"halted", "resuming", "running", "halting"}
    /\ halted <=> control \in {"halted", "resuming"}
    /\ fetch \in {"stopped", "program"}
    /\ exec.op \in {"none", "program", "stop"}
    /\ exec.op = "program" => exec.data = Junk
    /\ Stopped => exec.op = "none"
    /\ control = "halted" => Stopped
    /\ control = "resuming" => exec.op = "none"
    /\ control # "halting" => ~fetch_halt_req
    /\ irq /\ fetch = "program" => control = "resuming"

(* What a command has left in the last stage of the pipeline leaves it. *)
Ebbing == control = "halted" /\ rfw.op # "none" => Ticks(10 + LastSlot, 7)

(* What a request to resume has set off ends after it is withdrawn. *)
Resuming ==
    requests = NoRequests =>
        /\ control = "resuming" => Ticks(2, IF Stopped THEN 0 ELSE 1)
        /\ halted_seen /\ ~halted => since + News <= 6 + 2 * T + LastSlot
        /\ Lag > 0 /\ reg # Junk => Ticks(2, 4 - Lag)

Idle == AtRest /\ Unused /\ data0 = want.data0 /\ reg = want.reg /\ RunControl /\ Ebbing /\ Resuming

-----------------------------------------------------------------------------
(* A command under way, stage by stage. *)
Parked ==
    /\ dmactive /\ halted /\ requests = NoRequests /\ ~must_set_requests /\ mst.op # "requests"
    /\ ~fetch_halt_req /\ control = "halted" /\ Stopped

Free == ~debug.valid /\ ~fetch_debug /\ ~waiting_for_read_write /\ ~read_write_completed /\ ~exec_progbuf_req /\ exec.op = "none"
Fresh == Free /\ rfw.op = "none"
Lingers == rfw.op # "none" => Ticks(3, 3)

Before ==
    /\ want.reg = IF command.exec THEN progbuf0 ELSE IF command.transfer = "write" THEN data0 ELSE reg
    /\ want.data0 = IF command.transfer = "read" THEN reg ELSE data0
After == want.reg = IF command.exec THEN progbuf0 ELSE reg

Taken == Parked /\ Fresh /\ busy /\ fsm_state = "idle" /\ ~Instructed /\ since = 0 /\ Before
Chosen == Parked /\ Fresh /\ busy /\ fsm_state = "transfer" /\ ~Instructed /\ since = 1 /\ Before
Sent ==
    /\ Parked /\ Fresh /\ busy /\ fsm_state = "transferring" /\ since = 2 /\ Before
    /\ command.transfer \in {"read", "write"}
    /\ mst.op = command.transfer /\ mst.select = 0 /\ mst.data = data0

Transferring ==
    /\ Parked /\ busy /\ fsm_state = "transferring" /\ ~Instructed /\ ~exec_progbuf_req
    /\ command.transfer \in {"read", "write"}
Given ==
    /\ Transferring /\ debug.valid /\ ~fetch_debug /\ exec.op = "none" /\ rfw.op = "none"
    /\ debug.op = command.transfer /\ hart_data0 = data0
    /\ waiting_for_read_write /\ ~read_write_completed /\ Before /\ Ticks(3, 0)
Fetching ==
    /\ Transferring /\ ~debug.valid /\ fetch_debug /\ exec.op = "none" /\ rfw.op = "none"
    /\ debug.op = command.transfer /\ hart_data0 = data0
    /\ waiting_for_read_write /\ ~read_write_completed /\ Before /\ Ticks(3, 1)
Executing ==
    /\ Transferring /\ ~debug.valid /\ ~fetch_debug /\ rfw.op = "none"
    /\ exec.op = command.transfer /\ exec.data = data0
    /\ waiting_for_read_write /\ ~read_write_completed /\ Before /\ Ticks(3, 2)
Retired ==
    /\ Transferring /\ ~debug.valid /\ ~fetch_debug /\ exec.op = "none"
    /\ rfw.op = command.transfer /\ rfw.data = want.data0
    /\ waiting_for_read_write /\ ~read_write_completed /\ After /\ since <= 3 + 3 * T
Answering ==
    /\ Transferring /\ ~debug.valid /\ ~fetch_debug /\ exec.op = "none" /\ Lingers
    /\ ~waiting_for_read_write /\ read_write_completed /\ hart_data0 = want.data0 /\ After
    /\ attention \/ ToHart \/ response
    /\ since + News <= 7 + 3 * T + LastSlot
Turning ==
    /\ Parked /\ Free /\ Lingers /\ busy /\ fsm_state = "execute" /\ ~Instructed
    /\ data0 = want.data0 /\ After /\ since <= 7 + 3 * T + LastSlot
Calling ==
    /\ Parked /\ Free /\ Lingers /\ busy /\ fsm_state = "executing" /\ data0 = want.data0 /\ want.reg = progbuf0
    /\ mst.op = "exec" /\ mst.select = 0 /\ mst.data = progbuf0 /\ since <= 8 + 3 * T + LastSlot

Running ==
    /\ dmactive /\ halted /\ requests = NoRequests /\ ~must_set_requests /\ mst.op # "requests"
    /\ AtRest /\ ~fetch_halt_req
    /\ ~debug.valid /\ ~fetch_debug /\ ~waiting_for_read_write /\ ~read_write_completed
    /\ data0 = want.data0
Called ==
    /\ Running /\ exec_progbuf_req /\ control = "halted" /\ Stopped /\ exec.op = "none"
    /\ hart_data0 = want.reg /\ since <= 9 + 3 * T + LastSlot
Starting ==
    /\ Running /\ ~exec_progbuf_req /\ control = "starting" /\ Stopped /\ exec.op = "none"
    /\ hart_data0 = want.reg /\ Ticks(10 + LastSlot, 3)
Started ==
    /\ Running /\ ~exec_progbuf_req /\ control = "starting" /\ fetch = "buffer" /\ exec.op = "none"
    /\ hart_data0 = want.reg /\ Ticks(10 + LastSlot, 4)
InBuffer ==
    /\ Running /\ ~exec_progbuf_req /\ control = "executing" /\ fetch = "ebreak"
    /\ exec.op = "word" /\ exec.data = want.reg /\ Ticks(10 + LastSlot, 5)
AtEbreak ==
    /\ Running /\ ~exec_progbuf_req /\ control = "executing" /\ fetch = "ebreak"
    /\ exec.op = "ebreak" /\ reg = want.reg /\ Ticks(10 + LastSlot, 6)
Ending ==
    /\ Running /\ ~exec_progbuf_req /\ control = "executing" /\ Stopped /\ exec.op = "none"
    /\ reg = want.reg /\ Ticks(10 + LastSlot, 7)

Commanding ==
    \/ Taken \/ Chosen \/ Sent \/ Given \/ Fetching \/ Executing \/ Retired \/ Answering
    \/ Turning \/ Calling \/ Called \/ Starting \/ Started \/ InBuffer \/ AtEbreak \/ Ending

PatientInv == Relied => Requested /\ (Idle \/ Commanding)

-----------------------------------------------------------------------------
(* An edge of a patient host nothing has spoilt. *)
Steady(w, en, own) ==
    /\ PatienceSuffices /\ TypeOK /\ TypeOK' /\ StatusIsCurrent
    /\ Relied /\ Relied' /\ Requested /\ Edge(w, en, own)

(* The time such a host has, in numbers. *)
LEMMA HostTimes ==
    ASSUME PatienceSuffices, TypeOK, Relied
    PROVE  /\ T \in Nat /\ T >= 1 /\ LastSlot \in Nat /\ since \in Nat /\ stalled \in Nat /\ stalled < T
           /\ Deadline(host) = 10 + 8 * T + LastSlot
           /\ host.gap \in Nat /\ since <= host.gap /\ host.gap >= 10 + 8 * T + LastSlot
           /\ host.harts \subseteq {0}
<1>1. host \in Hosts /\ host.gap \in Nat /\ host.stalls \in Nat /\ host.gap >= Patience
  BY ReveDebugAssumption DEF TypeOK, HistTypeOK, Relied, patient
<1>2. T \in Nat /\ T >= 1 /\ LastSlot \in Nat
  BY <1>1, ReveDebugAssumption DEF T
<1>3. since \in Nat /\ stalled \in Nat /\ stalled < T /\ since <= host.gap
  BY <1>1 DEF TypeOK, HistTypeOK, T
<1>4. Deadline(host) = 10 + 8 * T + LastSlot
  BY <1>1, <1>2 DEF Deadline, T
<1>5. host.gap >= Deadline(host) /\ host.harts \subseteq {0}
  BY <1>1 DEF PatienceSuffices
<1> QED BY <1>1, <1>2, <1>3, <1>4, <1>5

(* What an edge without a write does to the clock and to the requests. *)
LEMMA WaitingEdge ==
    ASSUME NEW en \in BOOLEAN, NEW own \in {"program", "stop"}, Steady(NoWrite, en, own)
    PROVE  /\ T' = T /\ Deadline(host)' = Deadline(host)
           /\ since' \in Nat /\ since' <= since + 1 /\ (since < 10 => since' = since + 1)
           /\ stalled' = (IF en THEN 0 ELSE stalled + 1) /\ stalled' \in Nat /\ stalled' < T
           /\ fetch # "program" => (Interrupted <=> fetch_halt_req) /\ ~irq
           /\ dmactive' = dmactive /\ hart_sel' = hart_sel /\ requests' = requests
           /\ must_set_requests' = FALSE /\ progbuf0' = progbuf0
           /\ want' = IF en /\ ~Interrupted /\ exec.op = "program"
                      THEN [want EXCEPT !.reg = Junk] ELSE want
<1>1. host' = host /\ Control(NoWrite) /\ Remember(NoWrite, en) /\ (en \/ stalled < host.stalls)
  BY DEF Steady, Edge, Module
<1>2. T' = T /\ Deadline(host)' = Deadline(host)
  BY <1>1 DEF T, Deadline
<1>3. /\ T \in Nat /\ since \in Nat /\ stalled \in Nat /\ stalled < T /\ host.gap \in Nat
      /\ since <= host.gap /\ host.gap >= 10
  BY HostTimes DEF Steady
<1>4. since' = (IF since < host.gap THEN since + 1 ELSE since)
      /\ stalled' = (IF en THEN 0 ELSE stalled + 1)
  BY <1>1 DEF Remember
<1>5. stalled' \in Nat /\ stalled' < T
  BY <1>1, <1>3, <1>4, ReveDebugAssumption DEF T, Steady, TypeOK, HistTypeOK
<1>6. ~(irq /\ fetch # "program")
  BY <1>1 DEF Remember, Steady, Relied
<1>7. fetch # "program" => (Interrupted <=> fetch_halt_req) /\ ~irq
  BY <1>6, Zenon DEF Interrupted
<1>8. dmactive' = dmactive /\ hart_sel' = hart_sel /\ requests' = requests
  BY <1>1 DEF Control, NoWrite
<1>9. must_set_requests' = FALSE
  BY <1>1 DEF Control, NoWrite
<1>10. progbuf0' = progbuf0
  BY DEF Steady, Edge, Module, Command, NoWrite
<1>11. want' = IF en /\ ~Interrupted /\ exec.op = "program"
               THEN [want EXCEPT !.reg = Junk] ELSE want
  BY <1>1 DEF Remember, Accepts, NoWrite, Steady, Relied
<1> QED BY <1>2, <1>3, <1>4, <1>5, <1>7, <1>8, <1>9, <1>10, <1>11

(* Requests go on to the hart. *)
LEMMA RequestsGoOn ==
    ASSUME NEW en \in BOOLEAN, NEW own \in {"program", "stop"}, Steady(NoWrite, en, own)
    PROVE  Requested'
<1>1. Requested /\ TypeOK /\ Edge(NoWrite, en, own)
  BY DEF Steady
<1>2. /\ hart_sel' = 0 /\ requests' = requests /\ dmactive' = dmactive /\ must_set_requests' = FALSE
      /\ since < 10 => since' = since + 1
  BY <1>1, WaitingEdge DEF Requested
<1>3. mst'.op = "requests" => must_set_requests /\ mst'.select = 0 /\ mst'.requests = requests
  BY <1>1 DEF Edge, Module, Drive, ToSelected, InitiatesTransfer, Nothing, Requested, TypeOK, ModuleTypeOK
<1>4. must_set_requests => since = 0
  BY <1>1 DEF Requested
<1>5. mst'.op = "requests" => since' = 1
  BY <1>2, <1>3, <1>4
<1>6. mst'.op # "requests" => ~must_set_requests
  BY <1>1 DEF Edge, Module, Drive, ToSelected
<1>7. mst'.op # "requests" => asked' = requests
  BY <1>1, <1>6 DEF Edge, Hart, Obey, Told, Requested
<1>8. halted_seen' => dmactive
  BY <1>1 DEF Edge, Module, LearnStatus
<1>9. cmderr' # "busy"
  BY <1>1 DEF Edge, Module, CmdErr, NoWrite, Requested
<1> QED BY <1>2, <1>3, <1>5, <1>7, <1>8, <1>9 DEF Requested

(* A tick is one to wait for less, a stall an edge more. *)
LEMMA Clock ==
    ASSUME NEW en \in BOOLEAN, NEW own \in {"program", "stop"}, Steady(NoWrite, en, own),
           NEW a \in Nat, NEW n \in Nat, NEW n1 \in Nat, n1 = n + 1, Ticks(a, n)
    PROVE  /\ en => since' <= a + n1 * T' /\ Ticks(a, n1)'
           /\ ~en => Ticks(a, n)'
<1>1. T \in Nat /\ since \in Nat /\ stalled \in Nat /\ stalled < T
  BY HostTimes DEF Steady
<1>2. PICK m \in Nat, t \in Nat : m = n * T /\ m + t = n1 * T /\ t = T
  BY <1>1
<1>3. PICK e \in Nat, d \in Nat : e = since' /\ d = stalled'
  BY WaitingEdge
<1>4. e <= since + 1 /\ d = (IF en THEN 0 ELSE stalled + 1)
  BY <1>3, WaitingEdge, Zenon
<1>5. e \in Nat /\ d \in Nat /\ m \in Nat /\ t \in Nat
  BY <1>2, <1>3
<1>6. since <= a + m + stalled /\ stalled < t
  BY <1>1, <1>2, Zenon DEF Ticks
<1>7. ASSUME en PROVE since' <= a + n1 * T' /\ Ticks(a, n1)'
  <2>1. e <= a + (m + t) /\ e <= a + (m + t) + d
    BY <1>1, <1>4, <1>5, <1>6, <1>7
  <2>2. m + t = n1 * T'
    BY <1>2, WaitingEdge, Zenon
  <2> QED BY <1>2, <1>3, <1>7, <2>1, <2>2, Zenon DEF Ticks
<1>8. ASSUME ~en PROVE Ticks(a, n)'
  <2>1. e <= a + m + d
    BY <1>1, <1>4, <1>5, <1>6, <1>8
  <2>2. m = n * T'
    BY <1>2, WaitingEdge, Zenon
  <2> QED BY <1>3, <1>8, <2>1, <2>2, Zenon DEF Ticks
<1> QED BY <1>7, <1>8, Zenon

(* The first edges after the write. *)
LEMMA FirstEdges ==
    ASSUME NEW en \in BOOLEAN, NEW own \in {"program", "stop"}, Steady(NoWrite, en, own)
    PROVE  (since = 0 => since' = 1) /\ (since = 1 => since' = 2) /\ (since = 2 => since' = 3)
<1>1. since < 10 => since' = since + 1
  BY WaitingEdge, Zenon
<1> QED BY <1>1

(* What it does to the command state machine. *)
LEMMA ModuleEdge ==
    ASSUME NEW en \in BOOLEAN, NEW own \in {"program", "stop"}, Steady(NoWrite, en, own)
    PROVE  /\ busy' <=> dmactive /\ busy /\ ~Ended
           /\ command' = IF Ended THEN NoCommand ELSE command
           /\ data0' = IF fsm_state = "transferring" /\ TransferCompletes THEN hart_data0 ELSE data0
           /\ fsm_state' =
                  IF ~dmactive \/ Ended THEN "idle"
                  ELSE IF fsm_state = "idle" /\ busy THEN "transfer"
                  ELSE IF InitiatesTransfer THEN "transferring"
                  ELSE IF fsm_state = "transfer" /\ command.transfer = "none" THEN "execute"
                  ELSE IF fsm_state = "transferring" /\ TransferCompletes THEN "execute"
                  ELSE IF InitiatesExecute THEN "executing"
                  ELSE fsm_state
<1>1. Command(NoWrite)
  BY DEF Steady, Edge, Module
<1>2. NoWrite.to = "none" /\ ~Accepts(NoWrite)
  BY DEF NoWrite, Accepts
<1>3. busy' <=> dmactive /\ busy /\ ~Ended
  BY <1>1, <1>2, Zenon DEF Command
<1>4. command' = IF Ended THEN NoCommand ELSE command
  BY <1>1, <1>2 DEF Command
<1> QED BY <1>1, <1>2, <1>3, <1>4 DEF Command

(* What any edge does to the control half of the hart. *)
LEMMA HartEdge ==
    ASSUME NEW en \in BOOLEAN, NEW own \in {"program", "stop"}, NEW w, Steady(w, en, own)
    PROVE  /\ waiting_for_read_write' <=> ~Answered /\ (Transfer \/ waiting_for_read_write)
           /\ read_write_completed' <=> ~(read_write_completed /\ response)
                                        /\ (read_write_completed \/ Answered)
           /\ exec_progbuf_req' <=> ProgbufAsked
           /\ debug'.valid <=> Transfer \/ (debug.valid /\ ~en)
           /\ debug'.op = IF Transfer THEN mst.op ELSE debug.op
           /\ hart_data0' = IF Answered THEN rfw.data
                            ELSE IF Transfer \/ Told("exec") THEN mst.data ELSE hart_data0
           /\ halted' <=> (halted \/ Stops(en)) /\ ~Departs(en)
           /\ response' <=> ToHart
           /\ attention' <=> (Answered \/ StepsBack \/ Stops(en) \/ Departs(en) \/ (attention /\ ~ToHart))
           /\ Requested => asked' = asked \/ asked' = requests
<1>1. Obey(en) /\ Attention(en) /\ HartControl(en) /\ TypeOK
  BY DEF Steady, Edge, Hart
<1>2. waiting_for_read_write' <=> ~Answered /\ (Transfer \/ waiting_for_read_write)
  BY <1>1, Zenon DEF Obey
<1>3. read_write_completed' <=> ~(read_write_completed /\ response) /\ (read_write_completed \/ Answered)
  <2>1. read_write_completed' = IF read_write_completed /\ response THEN FALSE
                                ELSE read_write_completed \/ Answered
    BY <1>1, Zenon DEF Obey
  <2> QED BY <2>1, Zenon
<1>4. exec_progbuf_req' <=> ProgbufAsked
  BY <1>1, Zenon DEF Obey
<1>5. debug' = [valid |-> Transfer \/ (debug.valid /\ ~en), op |-> IF Transfer THEN mst.op ELSE debug.op]
  BY <1>1, Zenon DEF Obey
<1>6. debug'.valid = (Transfer \/ (debug.valid /\ ~en)) /\ debug'.op = IF Transfer THEN mst.op ELSE debug.op
  BY <1>5
<1>7. debug'.valid <=> Transfer \/ (debug.valid /\ ~en)
  BY <1>6, Zenon
<1>8. halted' <=> (halted \/ Stops(en)) /\ ~Departs(en)
  BY <1>1, Zenon DEF HartControl
<1>9. response' <=> ToHart
  BY <1>1, Zenon DEF HartControl, ToHart
<1>10. attention' <=> (Answered \/ StepsBack \/ Stops(en) \/ Departs(en) \/ (attention /\ ~ToHart))
  BY <1>1, Zenon DEF Attention, ToHart
<1>11. hart_data0' = IF Answered THEN rfw.data
                     ELSE IF Transfer \/ Told("exec") THEN mst.data ELSE hart_data0
  BY <1>1 DEF Obey
<1>12. Requested => asked' = asked \/ asked' = requests
  BY <1>1 DEF Obey, Told, Requested
<1> QED BY <1>2, <1>3, <1>4, <1>6, <1>7, <1>8, <1>9, <1>10, <1>11, <1>12

(* A halted hart nobody calls stays in debug mode, and its pipeline         *)
(* executes the instruction of the debugger, if there is one.              *)
LEMMA PipelineEdge ==
    ASSUME NEW en \in BOOLEAN, NEW own \in {"program", "stop"}, Steady(NoWrite, en, own), Stopped, ~fetch_halt_req
    PROVE  /\ ~Interrupted
           /\ en => /\ fetch_debug' = debug.valid
                    /\ fetch' = IF control = "resuming" THEN "program"
                                ELSE IF control = "starting" THEN "buffer" ELSE "stopped"
                    /\ ~fetch_halt_req'
                    /\ exec.op \notin {"ebreak", "stop"} =>
                           exec' = IF fetch_debug THEN [op |-> debug.op, data |-> hart_data0]
                                   ELSE NoInstruction
                    /\ rfw' = IF exec.op = "read" THEN [exec EXCEPT !.data = reg] ELSE exec
                    /\ reg' = IF exec.op \in {"none", "read", "ebreak", "stop"} THEN reg ELSE exec.data
           /\ ~en => UNCHANGED <<fetch, fetch_debug, fetch_halt_req, exec, rfw, reg>>
           /\ exec.op # "program" => want' = want
<1>1. ~Interrupted
  BY WaitingEdge, Zenon DEF Stopped
<1>2. Pipeline(en, own)
  BY DEF Steady, Edge
<1>3. ~en => UNCHANGED <<fetch, fetch_debug, fetch_halt_req, exec, rfw, reg>>
  BY <1>2 DEF Pipeline
<1>4. exec.op # "program" => want' = want
  BY WaitingEdge
<1>5. ASSUME en PROVE fetch_debug' = debug.valid /\ ~fetch_halt_req'
  BY <1>2, <1>5, Zenon DEF Pipeline, Fetch
<1>6. ASSUME en PROVE fetch' = IF control = "resuming" THEN "program"
                               ELSE IF control = "starting" THEN "buffer" ELSE "stopped"
  BY <1>2, <1>6 DEF Pipeline, Fetch
<1>7. ASSUME en
      PROVE  /\ exec.op \notin {"ebreak", "stop"} =>
                    exec' = IF fetch_debug THEN [op |-> debug.op, data |-> hart_data0] ELSE NoInstruction
             /\ rfw' = IF exec.op = "read" THEN [exec EXCEPT !.data = reg] ELSE exec
             /\ reg' = IF exec.op \in {"none", "read", "ebreak", "stop"} THEN reg ELSE exec.data
  BY <1>1, <1>2, <1>7 DEF Pipeline, Execute, Fetched, Ebreak, Stopped
<1> QED BY <1>1, <1>3, <1>4, <1>5, <1>6, <1>7, Zenon

LEMMA EmptyPipeline ==
    ASSUME NEW en \in BOOLEAN, NEW own \in {"program", "stop"}, Steady(NoWrite, en, own), Stopped, ~fetch_halt_req,
           exec.op = "none"
    PROVE  /\ reg' = reg /\ want' = want
           /\ rfw'.op # "none" => ~en /\ rfw' = rfw
           /\ ~fetch_debug => exec'.op = "none"
           /\ en => /\ fetch_debug' = debug.valid
                    /\ fetch_debug => exec' = [op |-> debug.op, data |-> hart_data0]
           /\ ~en => fetch_debug' = fetch_debug /\ exec' = exec
<1>1. want' = want /\ reg' = reg
  BY PipelineEdge
<1>2. rfw'.op # "none" => ~en /\ rfw' = rfw
  BY PipelineEdge
<1>3. ~fetch_debug => exec'.op = "none"
  BY PipelineEdge DEF NoInstruction
<1>4. en => fetch_debug' = debug.valid
  BY PipelineEdge, Zenon
<1>5. en /\ fetch_debug => exec' = [op |-> debug.op, data |-> hart_data0]
  BY PipelineEdge
<1>6. ~en => fetch_debug' = fetch_debug /\ exec' = exec
  BY PipelineEdge, Zenon
<1> QED BY <1>1, <1>2, <1>3, <1>4, <1>5, <1>6, Zenon

LEMMA ParkedEdge ==
    ASSUME NEW en \in BOOLEAN, NEW own \in {"program", "stop"}, Steady(NoWrite, en, own), Parked, ~exec_progbuf_req
    PROVE  Parked'
<1>1. /\ dmactive /\ halted /\ requests = NoRequests /\ ~must_set_requests /\ mst.op # "requests"
      /\ ~fetch_halt_req /\ control = "halted" /\ Stopped
  BY DEF Parked
<1>2. asked = NoRequests /\ ~asked.resume
  BY <1>1 DEF Steady, Requested, NoRequests
<1>3. control' = "halted"
  <2>1. HartControl(en) /\ ~Starts
    BY DEF Steady, Edge, Hart, Starts
  <2> QED BY <2>1, <1>1, <1>2 DEF HartControl, Stops, Departs
<1>4. dmactive' /\ requests' = NoRequests /\ ~must_set_requests'
  BY <1>1, WaitingEdge
<1>5. mst'.op # "requests"
  <2>1. Drive /\ TypeOK
    BY DEF Steady, Edge, Module
  <2> QED BY <2>1, <1>1 DEF Drive, ToSelected, InitiatesTransfer, Nothing, TypeOK, ModuleTypeOK
<1>6. fetch' = "stopped" /\ ~fetch_halt_req'
  BY <1>1, PipelineEdge DEF Stopped
<1>7. halted'
  BY <1>1, HartEdge DEF Departs
<1> QED BY <1>3, <1>4, <1>5, <1>6, <1>7, Zenon DEF Parked, Stopped

(* What the module sends when it has neither a request nor a command to send. *)
LEMMA NothingToDo ==
    ASSUME NEW en \in BOOLEAN, NEW own \in {"program", "stop"}, NEW w, Steady(w, en, own),
           ~InitiatesTransfer, ~InitiatesExecute
    PROVE  /\ ~Instructed'
           /\ ~must_set_requests /\ attention =>
                  mst'.op # "none" /\ mst'.select = hart_to_poll /\ hart_to_poll' = NextToPoll
<1>1. Drive
  BY DEF Steady, Edge, Module
<1>2. mst'.op \in {"requests", "poll", "none"}
  BY <1>1 DEF Drive, ToSelected, Nothing
<1>3. ~must_set_requests /\ attention =>
          mst'.op # "none" /\ mst'.select = hart_to_poll /\ hart_to_poll' = NextToPoll
  BY <1>1 DEF Drive
<1> QED BY <1>2, <1>3 DEF Instructed

(* A pipeline without an instruction of the debugger that is not given one. *)
LEMMA NothingGiven ==
    ASSUME NEW en \in BOOLEAN, NEW own \in {"program", "stop"}, Steady(NoWrite, en, own), Parked, Free, ~Instructed
    PROVE  /\ Free' /\ reg' = reg /\ want' = want /\ hart_data0' = hart_data0
           /\ rfw'.op # "none" => ~en /\ rfw' = rfw
           /\ rfw.op = "none" => Fresh'
<1>1. ~Transfer /\ ~Told("exec") /\ ~Answered
  BY DEF Transfer, Told, Instructed, Answered, Free
<1>2. ~debug'.valid /\ ~waiting_for_read_write' /\ ~read_write_completed' /\ ~exec_progbuf_req'
      /\ hart_data0' = hart_data0
  BY <1>1, HartEdge DEF Free, ProgbufAsked
<1>3. ~fetch_debug' /\ exec'.op = "none" /\ reg' = reg /\ want' = want
  BY PipelineEdge DEF Free, Parked, NoInstruction
<1>4. rfw'.op # "none" => ~en /\ rfw' = rfw
  BY PipelineEdge DEF Free, Parked
<1> QED BY <1>2, <1>3, <1>4 DEF Free, Fresh

-----------------------------------------------------------------------------
(* The stages of a command, one by one. *)
LEMMA TakenNext ==
    ASSUME NEW en \in BOOLEAN, NEW own \in {"program", "stop"}, Steady(NoWrite, en, own), Taken
    PROVE  Chosen'
<1> USE DEF Taken
<1>1. Parked' /\ ~Interrupted
  BY ParkedEdge, PipelineEdge DEF Fresh, Free, Parked
<1>2. ~Ended /\ ~InitiatesTransfer /\ ~InitiatesExecute /\ dmactive
  BY DEF Ended, InitiatesTransfer, InitiatesExecute, Parked
<1>3. busy' /\ fsm_state' = "transfer" /\ ~Instructed' /\ data0' = data0 /\ command' = command
  BY <1>2, ModuleEdge, NothingToDo
<1>4. Fresh' /\ reg' = reg /\ want' = want
  BY NothingGiven DEF Fresh
<1>5. since' = 1 /\ progbuf0' = progbuf0
  BY FirstEdges, WaitingEdge, Zenon
<1>6. Before'
  BY <1>3, <1>4, <1>5 DEF Before
<1> QED BY <1>1, <1>3, <1>4, <1>5, <1>6 DEF Chosen

LEMMA ChosenNext ==
    ASSUME NEW en \in BOOLEAN, NEW own \in {"program", "stop"}, Steady(NoWrite, en, own), Chosen
    PROVE  Sent' \/ Turning'
<1> USE DEF Chosen
<1>1. Parked' /\ ~Interrupted
  BY ParkedEdge, PipelineEdge DEF Fresh, Free, Parked
<1>2. ~Ended /\ ~InitiatesExecute /\ dmactive /\ ~must_set_requests
  BY DEF Ended, InitiatesTransfer, InitiatesExecute, Parked
<1>3. busy' /\ data0' = data0 /\ command' = command
  BY <1>2, ModuleEdge
<1>4. Fresh' /\ reg' = reg /\ want' = want
  BY NothingGiven DEF Fresh
<1>5. since' = 2 /\ progbuf0' = progbuf0
  BY FirstEdges, WaitingEdge, Zenon
<1>6. Before'
  BY <1>3, <1>4, <1>5 DEF Before
<1>7. command.transfer \in {"none", "read", "write"} /\ hart_sel = 0
  BY DEF Steady, TypeOK, ModuleTypeOK, Requested
<1>8. CASE command.transfer = "none"
  <2>1. ~InitiatesTransfer
    BY <1>8 DEF InitiatesTransfer
  <2>2. fsm_state' = "execute" /\ ~Instructed'
    BY <1>2, <1>8, <2>1, ModuleEdge, NothingToDo
  <2>3. data0' = want'.data0 /\ After'
    BY <1>3, <1>6, <1>8 DEF Before, After
  <2>4. since' <= 7 + 3 * T' + LastSlot
    <3>1. T' = T /\ T \in Nat /\ LastSlot \in Nat
      BY WaitingEdge, HostTimes DEF Steady
    <3> QED BY <3>1, <1>5
  <2> QED BY <1>1, <1>3, <1>4, <2>2, <2>3, <2>4 DEF Turning, Fresh, Lingers
<1>9. CASE command.transfer # "none"
  <2>1. InitiatesTransfer
    BY <1>2, <1>9 DEF InitiatesTransfer
  <2>2. fsm_state' = "transferring"
    BY <1>2, <2>1, ModuleEdge
  <2>3. mst'.op = command.transfer /\ mst'.select = 0 /\ mst'.data = data0
    BY <1>2, <1>7, <2>1 DEF Steady, Edge, Module, Drive, ToSelected
  <2> QED BY <1>1, <1>3, <1>4, <1>5, <1>6, <1>7, <1>9, <2>2, <2>3 DEF Sent
<1> QED BY <1>8, <1>9

LEMMA SentNext ==
    ASSUME NEW en \in BOOLEAN, NEW own \in {"program", "stop"}, Steady(NoWrite, en, own), Sent
    PROVE  Given'
<1> USE DEF Sent
<1>1. Parked' /\ ~Interrupted
  BY ParkedEdge, PipelineEdge DEF Fresh, Free, Parked
<1>2. ~Ended /\ ~InitiatesTransfer /\ ~InitiatesExecute /\ ~TransferCompletes /\ dmactive
  BY DEF Ended, InitiatesTransfer, InitiatesExecute, TransferCompletes, Parked, Fresh, Free
<1>3. busy' /\ fsm_state' = "transferring" /\ ~Instructed' /\ data0' = data0 /\ command' = command
  BY <1>2, ModuleEdge, NothingToDo
<1>4. Transfer /\ ~Told("exec") /\ ~Answered
  BY DEF Transfer, Told, Answered, Fresh
<1>5. /\ debug'.valid /\ debug'.op = command.transfer /\ hart_data0' = data0
      /\ waiting_for_read_write' /\ ~read_write_completed' /\ ~exec_progbuf_req'
  BY <1>4, HartEdge DEF Fresh, Free, ProgbufAsked
<1>6. ~fetch_debug' /\ exec'.op = "none" /\ rfw'.op = "none" /\ reg' = reg /\ want' = want
  BY PipelineEdge DEF Fresh, Free, Parked, NoInstruction
<1>7. since' = 3 /\ progbuf0' = progbuf0
  BY FirstEdges, WaitingEdge, Zenon
<1>8. Before'
  BY <1>3, <1>6, <1>7 DEF Before
<1>9. Ticks(3, 0)'
  <2>1. stalled' \in Nat /\ T' \in Nat
    BY WaitingEdge, HostTimes DEF Steady
  <2>2. \A d, t \in Nat : 3 <= 3 + 0 * t + d
    OBVIOUS
  <2> QED BY <1>7, <2>1, <2>2, Zenon DEF Ticks
<1> QED BY <1>1, <1>3, <1>5, <1>6, <1>8, <1>9 DEF Given, Transferring

(* While a debug instruction is on its way the module only waits for it. *)
LEMMA TransferringEdge ==
    ASSUME NEW en \in BOOLEAN, NEW own \in {"program", "stop"}, Steady(NoWrite, en, own),
           Transferring, ~read_write_completed
    PROVE  /\ Transferring' /\ command' = command /\ data0' = data0 /\ progbuf0' = progbuf0
           /\ (debug'.valid <=> debug.valid /\ ~en) /\ debug'.op = debug.op
           /\ ~Answered => /\ hart_data0' = hart_data0 /\ ~read_write_completed'
                           /\ (waiting_for_read_write' <=> waiting_for_read_write)
<1> USE DEF Transferring
<1>1. Parked'
  BY ParkedEdge
<1>2. ~Ended /\ ~InitiatesTransfer /\ ~InitiatesExecute /\ ~TransferCompletes /\ dmactive
  BY DEF Ended, InitiatesTransfer, InitiatesExecute, TransferCompletes, Parked
<1>3. busy' /\ fsm_state' = "transferring" /\ ~Instructed' /\ data0' = data0 /\ command' = command
  BY <1>2, ModuleEdge, NothingToDo
<1>4. ~Transfer /\ ~Told("exec")
  BY DEF Transfer, Told, Instructed
<1>5. ~exec_progbuf_req' /\ debug'.op = debug.op /\ (debug'.valid <=> debug.valid /\ ~en)
  BY <1>4, HartEdge DEF ProgbufAsked
<1>6. ~Answered => /\ hart_data0' = hart_data0 /\ ~read_write_completed'
                   /\ (waiting_for_read_write' <=> waiting_for_read_write)
  BY <1>4, HartEdge
<1>7. progbuf0' = progbuf0
  BY WaitingEdge
<1> QED BY <1>1, <1>3, <1>5, <1>6, <1>7

LEMMA GivenNext ==
    ASSUME NEW en \in BOOLEAN, NEW own \in {"program", "stop"}, Steady(NoWrite, en, own), Given
    PROVE  Given' \/ Fetching'
<1> USE DEF Given
<1>1. /\ Transferring' /\ command' = command /\ data0' = data0 /\ progbuf0' = progbuf0
      /\ (debug'.valid <=> ~en) /\ debug'.op = debug.op
      /\ hart_data0' = hart_data0 /\ ~read_write_completed' /\ waiting_for_read_write'
  BY TransferringEdge DEF Answered
<1>2. Stopped /\ ~fetch_halt_req
  BY DEF Transferring, Parked
<1>3. /\ exec'.op = "none" /\ rfw'.op = "none" /\ reg' = reg /\ want' = want
      /\ (en => fetch_debug') /\ (~en => ~fetch_debug')
  BY <1>2, EmptyPipeline, Zenon
<1>4. Before'
  BY <1>1, <1>3 DEF Before
<1>5. (en => Ticks(3, 1)') /\ (~en => Ticks(3, 0)')
  BY Clock
<1> QED BY <1>1, <1>3, <1>4, <1>5 DEF Fetching

LEMMA FetchingNext ==
    ASSUME NEW en \in BOOLEAN, NEW own \in {"program", "stop"}, Steady(NoWrite, en, own), Fetching
    PROVE  Fetching' \/ Executing'
<1> USE DEF Fetching
<1>1. /\ Transferring' /\ command' = command /\ data0' = data0 /\ progbuf0' = progbuf0
      /\ ~debug'.valid /\ debug'.op = debug.op
      /\ hart_data0' = hart_data0 /\ ~read_write_completed' /\ waiting_for_read_write'
  BY TransferringEdge DEF Answered
<1>2. Stopped /\ ~fetch_halt_req
  BY DEF Transferring, Parked
<1>3. rfw'.op = "none" /\ reg' = reg /\ want' = want
  BY <1>2, EmptyPipeline, Zenon
<1>4. Before'
  BY <1>1, <1>3 DEF Before
<1>5. (en => Ticks(3, 2)') /\ (~en => Ticks(3, 1)')
  BY Clock
<1>6. CASE en
  <2>1. ~fetch_debug' /\ exec' = [op |-> debug.op, data |-> hart_data0]
    BY <1>2, <1>6, EmptyPipeline, Zenon
  <2>2. exec'.op = command'.transfer /\ exec'.data = data0'
    BY <1>1, <2>1
  <2> QED BY <1>1, <1>3, <1>4, <1>5, <1>6, <2>1, <2>2 DEF Executing
<1>7. CASE ~en
  <2>1. fetch_debug' /\ exec'.op = "none"
    BY <1>2, <1>7, EmptyPipeline
  <2> QED BY <1>1, <1>3, <1>4, <1>5, <1>7, <2>1
<1> QED BY <1>6, <1>7

LEMMA ExecutingNext ==
    ASSUME NEW en \in BOOLEAN, NEW own \in {"program", "stop"}, Steady(NoWrite, en, own), Executing
    PROVE  Executing' \/ Retired'
<1> USE DEF Executing
<1>1. /\ Transferring' /\ command' = command /\ data0' = data0 /\ progbuf0' = progbuf0
      /\ ~debug'.valid /\ ~read_write_completed' /\ waiting_for_read_write'
  BY TransferringEdge DEF Answered
<1>2. Stopped /\ ~fetch_halt_req /\ command.transfer \in {"read", "write"}
  BY DEF Transferring, Parked
<1>3. ~fetch_debug' /\ want' = want
  BY <1>2, PipelineEdge
<1>4. (en => since' <= 3 + 3 * T') /\ (~en => Ticks(3, 2)')
  <2>1. Ticks(3, 2) /\ 2 \in Nat /\ 3 \in Nat /\ 3 = 2 + 1
    OBVIOUS
  <2> QED BY <2>1, Clock, Zenon
<1>5. exec \in Instructions
  BY DEF Steady, TypeOK, PipeTypeOK
<1>6. CASE en
  <2>1. /\ rfw' = IF exec.op = "read" THEN [exec EXCEPT !.data = reg] ELSE exec
        /\ reg' = IF exec.op \in {"none", "read", "ebreak", "stop"} THEN reg ELSE exec.data
    BY <1>2, <1>6, PipelineEdge, Zenon
  <2>2. exec'.op = "none"
    <3>1. exec' = NoInstruction
      BY <1>2, <1>6, PipelineEdge
    <3> QED BY <3>1 DEF NoInstruction
  <2>3. rfw'.op = command.transfer /\ rfw'.data = want.data0
    BY <1>2, <1>5, <2>1 DEF Before, Instructions
  <2>4. reg' = IF command.transfer = "write" THEN data0 ELSE reg
    BY <1>2, <2>1
  <2>5. After'
    BY <1>1, <1>3, <2>4 DEF Before, After
  <2> QED BY <1>1, <1>3, <1>4, <1>6, <2>2, <2>3, <2>5 DEF Retired
<1>7. CASE ~en
  <2>1. rfw'.op = "none" /\ exec' = exec /\ reg' = reg
    BY <1>2, <1>7, PipelineEdge
  <2>2. Before'
    BY <1>1, <1>3, <2>1 DEF Before
  <2> QED BY <1>1, <1>3, <1>4, <1>7, <2>1, <2>2
<1> QED BY <1>6, <1>7

(* How far the news may be. *)
LEMMA NewsBound ==
    ASSUME TypeOK
    PROVE  /\ News \in Nat /\ News >= 1 /\ News <= LastSlot + 3 /\ hart_to_poll \in Nat
           /\ hart_to_poll # 0 => NextToPoll = hart_to_poll - 1
BY ReveDebugAssumption DEF TypeOK, ModuleTypeOK, HartTypeOK, News, Slots, NextToPoll

LEMMA NewsBoundNext ==
    ASSUME TypeOK'
    PROVE  News' \in Nat /\ News' <= LastSlot + 3
<1>1. LastSlot \in Nat /\ hart_to_poll' \in Nat /\ hart_to_poll' <= LastSlot
  BY ReveDebugAssumption DEF TypeOK, ModuleTypeOK, Slots
<1>2. PICK h \in Nat : h = hart_to_poll' /\ h <= LastSlot
  BY <1>1
<1>3. \A n \in {1, 2, 3, h + 3} : n \in Nat /\ n <= LastSlot + 3
  <2>1. LastSlot \in Nat /\ h \in Nat /\ h <= LastSlot
    BY <1>1, <1>2
  <2> QED BY <2>1
<1>4. News' \in {1, 2, 3, h + 3}
  BY <1>2 DEF News
<1> QED BY <1>3, <1>4, Zenon

(* News comes an edge nearer, unless it is there. *)
LEMMA NewsComes ==
    ASSUME NEW en \in BOOLEAN, NEW own \in {"program", "stop"}, Steady(NoWrite, en, own),
           ~InitiatesTransfer, ~InitiatesExecute, ~response,
           must_set_requests \/ ToHart \/ attention
    PROVE  /\ News' <= News - 1
           /\ response' \/ ToHart' \/ attention'
<1>1. (response' <=> ToHart) /\ (attention /\ ~ToHart => attention')
  BY HartEdge
<1>2. ~must_set_requests'
  BY WaitingEdge
<1>3. hart_to_poll \in Nat /\ (hart_to_poll # 0 => NextToPoll = hart_to_poll - 1)
  BY NewsBound DEF Steady
<1>4. CASE ToHart
  <2>1. News = 2 /\ News' = 1
    BY <1>1, <1>4 DEF News
  <2> QED BY <1>1, <1>4, <2>1
<1>5. CASE ~ToHart /\ must_set_requests
  <2>1. ToHart'
    BY <1>5 DEF Steady, Edge, Module, Drive, ToSelected, ToHart, Requested
  <2>2. News = 3 /\ News' = 2
    BY <1>1, <1>5, <2>1 DEF News
  <2> QED BY <2>1, <2>2
<1>6. CASE ~ToHart /\ ~must_set_requests /\ attention
  <2>1. mst'.op # "none" /\ mst'.select = hart_to_poll /\ hart_to_poll' = NextToPoll
    BY <1>6, NothingToDo
  <2>2. News = hart_to_poll + 3
    BY <1>6 DEF News
  <2>3. CASE hart_to_poll = 0
    <3>1. ToHart'
      BY <2>1, <2>3 DEF ToHart
    <3>2. News' = 2
      BY <1>1, <1>6, <3>1 DEF News
    <3> QED BY <2>2, <2>3, <3>1, <3>2
  <2>4. CASE hart_to_poll # 0
    <3>1. ~ToHart' /\ attention'
      BY <1>1, <1>6, <2>1, <2>4 DEF ToHart
    <3>2. News' = hart_to_poll' + 3
      BY <1>1, <1>2, <1>6, <3>1 DEF News
    <3> QED BY <1>3, <2>1, <2>2, <2>4, <3>1, <3>2
  <2> QED BY <2>3, <2>4
<1> QED BY <1>4, <1>5, <1>6

LEMMA RetiredNext ==
    ASSUME NEW en \in BOOLEAN, NEW own \in {"program", "stop"}, Steady(NoWrite, en, own), Retired
    PROVE  Answering'
<1> USE DEF Retired
<1>1. /\ Transferring' /\ command' = command /\ data0' = data0 /\ progbuf0' = progbuf0
      /\ ~debug'.valid
  BY TransferringEdge
<1>2. Stopped /\ ~fetch_halt_req /\ Answered
  BY DEF Transferring, Parked, Answered
<1>3. ~waiting_for_read_write' /\ read_write_completed' /\ hart_data0' = want.data0 /\ attention'
  BY <1>2, HartEdge
<1>4. ~fetch_debug' /\ exec'.op = "none" /\ reg' = reg /\ want' = want
      /\ (rfw'.op # "none" => ~en)
  BY <1>2, EmptyPipeline
<1>5. PICK e \in Nat, d \in Nat, t \in Nat, n \in Nat :
          e = since' /\ d = stalled' /\ t = T /\ t = T' /\ n = News'
  BY WaitingEdge, HostTimes, NewsBoundNext DEF Steady
<1>6. /\ e \in Nat /\ d \in Nat /\ t \in Nat /\ n \in Nat /\ LastSlot \in Nat /\ since \in Nat /\ stalled \in Nat
      /\ e <= since + 1 /\ since <= 3 + 3 * t /\ (~en => d = stalled + 1) /\ n <= LastSlot + 3
  BY <1>5, WaitingEdge, HostTimes, NewsBoundNext, Zenon DEF Steady
<1>7. Lingers'
  <2>1. ~en => e <= 3 + 3 * t + d
    BY <1>6
  <2>2. ~en => Ticks(3, 3)'
    BY <1>5, <2>1, Zenon DEF Ticks
  <2> QED BY <1>4, <2>2 DEF Lingers
<1>8. since' + News' <= 7 + 3 * T' + LastSlot
  <2>1. e + n <= 7 + 3 * t + LastSlot
    BY <1>6
  <2> QED BY <1>5, <2>1, Zenon
<1>9. After'
  BY <1>1, <1>4 DEF After
<1> QED BY <1>1, <1>3, <1>4, <1>7, <1>8, <1>9 DEF Answering

(* An instruction that has retired leaves the last stage with the next tick. *)
LEMMA LingersOn ==
    ASSUME NEW en \in BOOLEAN, NEW own \in {"program", "stop"}, Steady(NoWrite, en, own), Parked, Lingers,
           exec.op = "none"
    PROVE  Lingers'
<1>1. rfw'.op # "none" => ~en /\ Ticks(3, 3)
  BY EmptyPipeline DEF Lingers, Parked
<1>2. ~en /\ Ticks(3, 3) => Ticks(3, 3)'
  BY Clock
<1> QED BY <1>1, <1>2 DEF Lingers

LEMMA AnsweringNext ==
    ASSUME NEW en \in BOOLEAN, NEW own \in {"program", "stop"}, Steady(NoWrite, en, own), Answering
    PROVE  Answering' \/ Turning'
<1> USE DEF Answering
<1>1. Parked /\ ~exec_progbuf_req /\ ~Instructed /\ fsm_state = "transferring" /\ busy /\ dmactive
  BY DEF Transferring, Parked
<1>2. Parked'
  BY <1>1, ParkedEdge
<1>3. ~Ended /\ ~InitiatesTransfer /\ ~InitiatesExecute
  BY <1>1 DEF Ended, InitiatesTransfer, InitiatesExecute
<1>4. busy' /\ ~Instructed' /\ command' = command
  BY <1>1, <1>3, ModuleEdge, NothingToDo
<1>5. ~Transfer /\ ~Told("exec") /\ ~Answered
  BY <1>1 DEF Transfer, Told, Instructed, Answered
<1>6. /\ ~debug'.valid /\ ~waiting_for_read_write' /\ ~exec_progbuf_req' /\ hart_data0' = hart_data0
      /\ (read_write_completed' <=> ~response)
  BY <1>1, <1>5, HartEdge DEF ProgbufAsked
<1>7. ~fetch_debug' /\ exec'.op = "none" /\ reg' = reg /\ want' = want
  BY <1>1, EmptyPipeline DEF Parked
<1>8. progbuf0' = progbuf0
  BY WaitingEdge
<1>9. After' /\ T' = T /\ since' <= since + 1 /\ since' \in Nat
  BY <1>4, <1>7, <1>8, WaitingEdge DEF After
<1>10. Lingers'
  BY <1>1, LingersOn
<1>11. PICK e \in Nat, t \in Nat, n \in Nat :
           e = since' /\ t = T /\ t = T' /\ n = News'
  BY WaitingEdge, HostTimes, NewsBoundNext DEF Steady
<1>12. /\ e \in Nat /\ t \in Nat /\ n \in Nat /\ LastSlot \in Nat /\ since \in Nat /\ e <= since + 1
       /\ News \in Nat /\ News >= 1 /\ since + News <= 7 + 3 * t + LastSlot
  BY <1>9, <1>11, HostTimes, NewsBound, Zenon DEF Steady
<1>13. CASE response
  <2>1. fsm_state' = "execute" /\ data0' = hart_data0
    BY <1>1, <1>3, <1>13, ModuleEdge DEF TransferCompletes
  <2>2. e <= 7 + 3 * t + LastSlot
    BY <1>12
  <2>3. since' <= 7 + 3 * T' + LastSlot
    BY <1>11, <2>2, Zenon
  <2> QED BY <1>2, <1>4, <1>6, <1>7, <1>9, <1>10, <1>13, <2>1, <2>3 DEF Turning, Free
<1>14. CASE ~response
  <2>1. fsm_state' = "transferring" /\ data0' = data0
    BY <1>1, <1>3, <1>14, ModuleEdge DEF TransferCompletes
  <2>2. n <= News - 1
    BY <1>3, <1>11, <1>14, NewsComes
  <2>3. e + n <= 7 + 3 * t + LastSlot
    BY <1>12, <2>2
  <2>4. since' + News' <= 7 + 3 * T' + LastSlot
    BY <1>11, <2>3, Zenon
  <2>5. response' \/ ToHart' \/ attention'
    BY <1>3, <1>14, NewsComes
  <2> QED BY <1>2, <1>4, <1>6, <1>7, <1>9, <1>10, <1>14, <2>1, <2>4, <2>5 DEF Transferring
<1> QED BY <1>13, <1>14


LEMMA TurningNext ==
    ASSUME NEW en \in BOOLEAN, NEW own \in {"program", "stop"}, Steady(NoWrite, en, own), Turning
    PROVE  Calling' \/ Idle'
<1> USE DEF Turning
<1>1. Parked' /\ Free' /\ Lingers' /\ reg' = reg /\ want' = want
  BY ParkedEdge, NothingGiven, LingersOn DEF Free
<1>2. ~InitiatesTransfer /\ ~must_set_requests /\ dmactive /\ hart_sel = 0
      /\ command.exec \in BOOLEAN
  BY DEF InitiatesTransfer, Parked, Steady, Requested, TypeOK, ModuleTypeOK
<1>3. PICK e \in Nat, d \in Nat, t \in Nat : e = since' /\ d = stalled' /\ t = T /\ t = T'
  BY WaitingEdge, HostTimes DEF Steady
<1>7. /\ e \in Nat /\ d \in Nat /\ t \in Nat /\ LastSlot \in Nat /\ since \in Nat
       /\ e <= since + 1 /\ since <= 7 + 3 * t + LastSlot
  BY <1>3, WaitingEdge, HostTimes, Zenon DEF Steady
<1>4. progbuf0' = progbuf0 /\ data0' = data0
  BY WaitingEdge, ModuleEdge
<1>5. CASE command.exec
  <2>1. InitiatesExecute /\ ~Ended
    BY <1>2, <1>5 DEF InitiatesExecute, Ended
  <2>2. busy' /\ fsm_state' = "executing"
    BY <1>2, <2>1, ModuleEdge DEF TransferCompletes
  <2>3. mst'.op = "exec" /\ mst'.select = 0 /\ mst'.data = progbuf0
    BY <1>2, <2>1 DEF Steady, Edge, Module, Drive, ToSelected
  <2>4. since' <= 8 + 3 * T' + LastSlot
    <3>1. e <= 8 + 3 * t + LastSlot
      BY <1>7
    <3> QED BY <1>3, <3>1, Zenon
  <2>5. data0' = want'.data0 /\ want'.reg = progbuf0'
    BY <1>1, <1>4, <1>5 DEF After
  <2> QED BY <1>1, <2>2, <2>3, <2>4, <2>5, <1>4 DEF Calling
<1>6. CASE ~command.exec
  <2>1. ~InitiatesExecute /\ Ended
    BY <1>6 DEF InitiatesExecute, Ended
  <2>2. ~busy' /\ fsm_state' = "idle" /\ ~Instructed'
    BY <1>2, <2>1, ModuleEdge, NothingToDo
  <2>3. data0' = want'.data0 /\ reg' = want'.reg
    BY <1>1, <1>4, <1>6 DEF After
  <2>4. Ticks(3, 3)' => Ticks(10 + LastSlot, 7)'
    <3>1. e <= 3 + 3 * t + d => e <= 10 + LastSlot + 7 * t + d
      BY <1>7
    <3> QED BY <1>3, <3>1, Zenon DEF Ticks
  <2>5. /\ control' = "halted" /\ halted' /\ Stopped' /\ exec'.op = "none" /\ ~fetch_halt_req'
        /\ rfw'.op # "none" => Ticks(10 + LastSlot, 7)'
    BY <1>1, <2>4 DEF Parked, Free, Lingers
  <2>6. RunControl'
    BY <2>5 DEF RunControl, Stopped
  <2>9. Ebbing'
    BY <2>5 DEF Ebbing
  <2>7. Lag' = 0
    BY <2>5 DEF Lag, Stopped
  <2>8. Resuming'
    BY <2>5, <2>7 DEF Resuming
  <2> QED BY <1>1, <2>2, <2>3, <2>6, <2>8, <2>9 DEF Idle, AtRest, Unused, Free
<1> QED BY <1>2, <1>5, <1>6

(* While the program buffer is executed nothing else is. *)
LEMMA RunningEdge ==
    ASSUME NEW en \in BOOLEAN, NEW own \in {"program", "stop"}, Steady(NoWrite, en, own), Running,
           control \in {"halted", "starting", "executing"}, exec.op # "program", fetch # "program",
           exec_progbuf_req => control = "halted"
    PROVE  /\ Running' /\ ~exec_progbuf_req' /\ hart_data0' = hart_data0 /\ want' = want
           /\ ~asked.resume /\ ~Stops(en) /\ ~Departs(en)
<1> USE DEF Running
<1>1. ~Interrupted /\ want' = want
  <2>1. ~Interrupted
    BY WaitingEdge, Zenon
  <2> QED BY <2>1, WaitingEdge
<1>2. asked = NoRequests /\ ~asked.resume
  BY DEF Steady, Requested, NoRequests
<1>3. ~Stops(en) /\ ~Departs(en)
  BY DEF Stops, Departs
<1>4. ~Ended /\ ~InitiatesTransfer /\ ~InitiatesExecute /\ ~busy
  BY DEF Ended, InitiatesTransfer, InitiatesExecute, AtRest
<1>5. AtRest' /\ data0' = data0
  <2>1. ~busy' /\ ~Instructed' /\ fsm_state' = "idle"
    BY <1>4, ModuleEdge, NothingToDo DEF AtRest
  <2> QED BY <2>1, ModuleEdge DEF AtRest
<1>6. ~Transfer /\ ~Told("exec") /\ ~Answered
  BY DEF Transfer, Told, AtRest, Instructed, Answered
<1>7. /\ ~debug'.valid /\ ~waiting_for_read_write' /\ ~read_write_completed' /\ hart_data0' = hart_data0
      /\ halted'
  BY <1>3, <1>6, HartEdge
<1>8. ~exec_progbuf_req'
  BY <1>6, HartEdge DEF ProgbufAsked, Starts
<1>9. dmactive' /\ requests' = NoRequests /\ ~must_set_requests'
  BY WaitingEdge
<1>10. mst'.op # "requests"
  <2>1. Drive
    BY DEF Steady, Edge, Module
  <2> QED BY <2>1, <1>4 DEF Drive, ToSelected, Nothing
<1>11. ~fetch_halt_req' /\ ~fetch_debug'
  BY <1>1 DEF Steady, Edge, Pipeline, Fetch
<1> QED BY <1>1, <1>2, <1>3, <1>5, <1>7, <1>8, <1>9, <1>10, <1>11

LEMMA CallingNext ==
    ASSUME NEW en \in BOOLEAN, NEW own \in {"program", "stop"}, Steady(NoWrite, en, own), Calling
    PROVE  Called'
<1> USE DEF Calling
<1>1. Parked' /\ ~exec_progbuf_req /\ Stopped /\ ~fetch_halt_req /\ exec.op = "none" /\ dmactive
  BY ParkedEdge DEF Free, Parked
<1>2. Ended /\ ~InitiatesTransfer /\ ~InitiatesExecute
  BY DEF Ended, InitiatesTransfer, InitiatesExecute
<1>3. ~busy' /\ fsm_state' = "idle" /\ ~Instructed' /\ data0' = data0
  BY <1>1, <1>2, ModuleEdge, NothingToDo
<1>4. ~Transfer /\ Told("exec") /\ ~Answered /\ ~Starts
  BY <1>1 DEF Transfer, Told, Answered, Free, Starts
<1>5. /\ ~debug'.valid /\ ~waiting_for_read_write' /\ ~read_write_completed' /\ exec_progbuf_req'
      /\ hart_data0' = want.reg
  BY <1>4, HartEdge DEF ProgbufAsked, Free
<1>6. ~fetch_debug' /\ exec'.op = "none" /\ want' = want
  BY <1>1, EmptyPipeline DEF Free
<1>7. since' <= 9 + 3 * T' + LastSlot
  <2>1. PICK e \in Nat, t \in Nat : e = since' /\ t = T /\ t = T'
    BY WaitingEdge, HostTimes DEF Steady
  <2>2. /\ e \in Nat /\ t \in Nat /\ LastSlot \in Nat /\ since \in Nat
        /\ e <= since + 1 /\ since <= 8 + 3 * t + LastSlot
    BY <2>1, WaitingEdge, HostTimes, Zenon DEF Steady
  <2>3. e <= 9 + 3 * t + LastSlot
    BY <2>2
  <2> QED BY <2>1, <2>3, Zenon
<1> QED BY <1>1, <1>3, <1>5, <1>6, <1>7 DEF Called, Running, AtRest, Parked

LEMMA CalledNext ==
    ASSUME NEW en \in BOOLEAN, NEW own \in {"program", "stop"}, Steady(NoWrite, en, own), Called
    PROVE  Starting'
<1> USE DEF Called
<1>1. Running' /\ ~exec_progbuf_req' /\ hart_data0' = hart_data0 /\ want' = want
      /\ ~Stops(en) /\ ~Departs(en)
  BY RunningEdge DEF Stopped
<1>2. control' = "starting"
  <2>1. HartControl(en) /\ Starts
    BY DEF Steady, Edge, Hart, Starts
  <2> QED BY <1>1, <2>1 DEF HartControl
<1>3. ~fetch_halt_req /\ ~fetch_debug
  BY DEF Running
<1>4. exec'.op = "none" /\ Stopped'
  BY <1>3, EmptyPipeline, PipelineEdge DEF Stopped
<1>5. Ticks(10 + LastSlot, 3)'
  <2>1. PICK e \in Nat, d \in Nat, t \in Nat : e = since' /\ d = stalled' /\ t = T /\ t = T'
    BY WaitingEdge, HostTimes DEF Steady
  <2>2. /\ e \in Nat /\ d \in Nat /\ t \in Nat /\ LastSlot \in Nat /\ since \in Nat
        /\ e <= since + 1 /\ since <= 9 + 3 * t + LastSlot
    BY <2>1, WaitingEdge, HostTimes, Zenon DEF Steady
  <2>3. e <= 10 + LastSlot + 3 * t + d
    BY <2>2
  <2> QED BY <2>1, <2>3, Zenon DEF Ticks
<1> QED BY <1>1, <1>2, <1>4, <1>5 DEF Starting

LEMMA StartingNext ==
    ASSUME NEW en \in BOOLEAN, NEW own \in {"program", "stop"}, Steady(NoWrite, en, own), Starting
    PROVE  Starting' \/ Started'
<1> USE DEF Starting
<1>1. Running' /\ ~exec_progbuf_req' /\ hart_data0' = hart_data0 /\ want' = want
      /\ ~Stops(en) /\ ~Departs(en)
  BY RunningEdge DEF Stopped
<1>2. control' = "starting"
  <2>1. HartControl(en) /\ ~Starts
    BY DEF Steady, Edge, Hart, Starts
  <2> QED BY <1>1, <2>1 DEF HartControl
<1>3. ~fetch_halt_req /\ ~fetch_debug
  BY DEF Running
<1>4. exec'.op = "none"
  BY <1>3, EmptyPipeline
<1>5. (en => fetch' = "buffer") /\ (~en => Stopped')
  BY <1>3, PipelineEdge DEF Stopped
<1>6. (en => Ticks(10 + LastSlot, 4)') /\ (~en => Ticks(10 + LastSlot, 3)')
  BY Clock, ReveDebugAssumption
<1> QED BY <1>1, <1>2, <1>4, <1>5, <1>6 DEF Started

(* The pipeline in the program buffer. *)
LEMMA BufferPipeline ==
    ASSUME NEW en \in BOOLEAN, NEW own \in {"program", "stop"}, Steady(NoWrite, en, own), Running,
           fetch \in {"buffer", "ebreak"}
    PROVE  /\ en => /\ fetch' = IF exec.op \in {"ebreak", "stop"} THEN "stopped" ELSE "ebreak"
                    /\ exec' = IF exec.op \in {"ebreak", "stop"} THEN NoInstruction
                               ELSE IF fetch = "buffer" THEN [op |-> "word", data |-> hart_data0]
                               ELSE [op |-> "ebreak", data |-> Junk]
                    /\ reg' = IF exec.op \in {"none", "read", "ebreak", "stop"} THEN reg ELSE exec.data
           /\ ~en => fetch' = fetch /\ exec' = exec /\ reg' = reg
<1>1. ~Interrupted /\ ~Stopped /\ ~fetch_debug
  BY WaitingEdge, Zenon DEF Running, Stopped
<1>2. Pipeline(en, own)
  BY DEF Steady, Edge
<1>3. ~en => fetch' = fetch /\ exec' = exec /\ reg' = reg
  BY <1>2 DEF Pipeline
<1>4. ASSUME en PROVE fetch' = IF exec.op \in {"ebreak", "stop"} THEN "stopped" ELSE "ebreak"
  BY <1>1, <1>2, <1>4 DEF Pipeline, Fetch, Ebreak
<1>5. ASSUME en
      PROVE  /\ exec' = IF exec.op \in {"ebreak", "stop"} THEN NoInstruction
                        ELSE IF fetch = "buffer" THEN [op |-> "word", data |-> hart_data0]
                        ELSE [op |-> "ebreak", data |-> Junk]
             /\ reg' = IF exec.op \in {"none", "read", "ebreak", "stop"} THEN reg ELSE exec.data
  BY <1>1, <1>2, <1>5 DEF Pipeline, Execute, Ebreak, Fetched
<1> QED BY <1>3, <1>4, <1>5, Zenon

LEMMA StartedNext ==
    ASSUME NEW en \in BOOLEAN, NEW own \in {"program", "stop"}, Steady(NoWrite, en, own), Started
    PROVE  Started' \/ InBuffer'
<1> USE DEF Started
<1>1. Running' /\ ~exec_progbuf_req' /\ hart_data0' = hart_data0 /\ want' = want
      /\ ~Stops(en) /\ ~Departs(en)
  BY RunningEdge
<1>2. control' = IF en THEN "executing" ELSE "starting"
  <2>1. HartControl(en) /\ ~Starts /\ ~Stopped
    BY DEF Steady, Edge, Hart, Starts, Stopped
  <2> QED BY <1>1, <2>1 DEF HartControl
<1>3. /\ en => fetch' = "ebreak" /\ exec' = [op |-> "word", data |-> hart_data0]
      /\ ~en => fetch' = "buffer" /\ exec' = exec
  BY BufferPipeline
<1>4. en => exec'.op = "word" /\ exec'.data = want'.reg
  BY <1>1, <1>3
<1>5. (en => Ticks(10 + LastSlot, 5)') /\ (~en => Ticks(10 + LastSlot, 4)')
  BY Clock, ReveDebugAssumption
<1> QED BY <1>1, <1>2, <1>3, <1>4, <1>5 DEF InBuffer

LEMMA InBufferNext ==
    ASSUME NEW en \in BOOLEAN, NEW own \in {"program", "stop"}, Steady(NoWrite, en, own), InBuffer
    PROVE  InBuffer' \/ AtEbreak'
<1> USE DEF InBuffer
<1>1. Running' /\ ~exec_progbuf_req' /\ want' = want /\ ~Stops(en) /\ ~Departs(en)
  BY RunningEdge
<1>2. control' = "executing"
  <2>1. HartControl(en) /\ ~Starts /\ ~Stopped
    BY DEF Steady, Edge, Hart, Starts, Stopped
  <2> QED BY <1>1, <2>1 DEF HartControl
<1>3. /\ en => fetch' = "ebreak" /\ exec' = [op |-> "ebreak", data |-> Junk] /\ reg' = exec.data
      /\ ~en => fetch' = "ebreak" /\ exec' = exec
  BY BufferPipeline
<1>4. en => exec'.op = "ebreak" /\ reg' = want'.reg
  BY <1>1, <1>3
<1>5. (en => Ticks(10 + LastSlot, 6)') /\ (~en => Ticks(10 + LastSlot, 5)')
  BY Clock, ReveDebugAssumption
<1> QED BY <1>1, <1>2, <1>3, <1>4, <1>5 DEF AtEbreak

LEMMA AtEbreakNext ==
    ASSUME NEW en \in BOOLEAN, NEW own \in {"program", "stop"}, Steady(NoWrite, en, own), AtEbreak
    PROVE  AtEbreak' \/ Ending'
<1> USE DEF AtEbreak
<1>1. Running' /\ ~exec_progbuf_req' /\ want' = want /\ ~Stops(en) /\ ~Departs(en)
  BY RunningEdge
<1>2. control' = "executing"
  <2>1. HartControl(en) /\ ~Starts /\ ~Stopped
    BY DEF Steady, Edge, Hart, Starts, Stopped
  <2> QED BY <1>1, <2>1 DEF HartControl
<1>3. /\ en => fetch' = "stopped" /\ exec' = NoInstruction /\ reg' = reg
      /\ ~en => fetch' = "ebreak" /\ exec' = exec /\ reg' = reg
  BY BufferPipeline
<1>4. (en => Ticks(10 + LastSlot, 7)') /\ (~en => Ticks(10 + LastSlot, 6)')
  BY Clock, ReveDebugAssumption
<1> QED BY <1>1, <1>2, <1>3, <1>4 DEF Ending, Stopped, NoInstruction

LEMMA EndingNext ==
    ASSUME NEW en \in BOOLEAN, NEW own \in {"program", "stop"}, Steady(NoWrite, en, own), Ending
    PROVE  Ending' \/ Idle'
<1> USE DEF Ending
<1>1. Running' /\ ~exec_progbuf_req' /\ want' = want /\ ~Stops(en) /\ ~Departs(en)
  BY RunningEdge DEF Stopped
<1>2. control' = IF en THEN "halted" ELSE "executing"
  <2>1. HartControl(en) /\ ~Starts
    BY DEF Steady, Edge, Hart, Starts
  <2> QED BY <1>1, <2>1 DEF HartControl
<1>3. ~fetch_halt_req /\ ~fetch_debug
  BY DEF Running
<1>4. exec'.op = "none" /\ reg' = reg /\ Stopped' /\ (rfw'.op # "none" => ~en)
  BY <1>3, EmptyPipeline, PipelineEdge DEF Stopped
<1>5. ~en => Ticks(10 + LastSlot, 7)'
  BY Clock, ReveDebugAssumption
<1>6. CASE en
  <2>1. /\ control' = "halted" /\ halted' /\ Stopped' /\ exec'.op = "none" /\ ~fetch_halt_req'
        /\ rfw'.op = "none"
    BY <1>1, <1>2, <1>4, <1>6 DEF Running
  <2>2. RunControl'
    BY <2>1 DEF RunControl, Stopped
  <2>5. Ebbing'
    BY <2>1 DEF Ebbing
  <2>3. Lag' = 0
    BY <2>1 DEF Lag, Stopped
  <2>4. Resuming'
    BY <2>1, <2>3 DEF Resuming
  <2> QED BY <1>1, <1>4, <2>2, <2>4, <2>5 DEF Idle, Running, Unused
<1>7. CASE ~en
  BY <1>1, <1>2, <1>4, <1>5, <1>7
<1> QED BY <1>6, <1>7

-----------------------------------------------------------------------------
(* Without a command under way the hart runs, or halts, or is resumed,      *)
(* whatever is written: the pipeline meets nothing but its own program.    *)
LEMMA OwnPipeline ==
    ASSUME NEW en \in BOOLEAN, NEW own \in {"program", "stop"}, NEW w, Steady(w, en, own),
           RunControl, Unused
    PROVE  /\ irq => fetch = "program" /\ control = "resuming" /\ exec.op = "none"
           /\ fetch_halt_req => control = "halting"
           /\ ~en => UNCHANGED <<fetch, fetch_halt_req, exec, rfw, reg>>
           /\ en /\ Stopped =>
                  /\ fetch' = IF control = "resuming" THEN "program" ELSE "stopped"
                  /\ ~fetch_halt_req' /\ exec'.op = "none" /\ rfw'.op = "none" /\ reg' = reg
           /\ en /\ ~Stopped /\ fetch_halt_req =>
                  fetch' = "stopped" /\ ~fetch_halt_req' /\ exec'.op = "none" /\ reg' = reg
           /\ en /\ ~Stopped /\ irq =>
                  /\ fetch' = "program" /\ ~fetch_halt_req' /\ ~irq' /\ exec'.op = "none" /\ reg' = reg
           /\ en /\ ~Stopped /\ ~Interrupted /\ exec.op = "stop" =>
                  /\ fetch' = "stopped" /\ exec'.op = "none" /\ reg' = reg
                  /\ (fetch_halt_req' => control = "halting")
           /\ en /\ ~Stopped /\ ~Interrupted /\ exec.op # "stop" =>
                  /\ fetch' = "program" /\ exec'.op = own /\ exec'.data = Junk
                  /\ (fetch_halt_req' => control = "halting")
                  /\ reg' = IF exec.op = "program" THEN Junk ELSE reg
<1>1. Pipeline(en, own) /\ Timer(en) /\ Remember(w, en)
  BY DEF Steady, Edge
<1>2. ~(irq /\ fetch # "program")
  BY <1>1 DEF Remember, Steady, Relied
<1>3. /\ irq => fetch = "program" /\ control = "resuming" /\ exec.op = "none"
      /\ fetch_halt_req => control = "halting"
  BY <1>2 DEF RunControl
<1>4. ~en => UNCHANGED <<fetch, fetch_halt_req, exec, rfw, reg>>
  BY <1>1 DEF Pipeline
<1>5. ~fetch_debug /\ ~debug.valid
  BY DEF Unused
<1>6. ASSUME en, Stopped
      PROVE  /\ fetch' = IF control = "resuming" THEN "program" ELSE "stopped"
             /\ ~fetch_halt_req' /\ exec'.op = "none" /\ rfw'.op = "none" /\ reg' = reg
  <2>1. exec.op = "none" /\ control # "starting"
    BY <1>6 DEF RunControl
  <2>2. fetch' = IF control = "resuming" THEN "program" ELSE "stopped"
    BY <1>1, <1>6, <2>1 DEF Pipeline, Fetch
  <2>3. ~fetch_halt_req'
    BY <1>1, <1>6, Zenon DEF Pipeline, Fetch
  <2>4. exec'.op = "none" /\ rfw'.op = "none" /\ reg' = reg
    BY <1>1, <1>5, <1>6, <2>1 DEF Pipeline, Execute, Fetched, Stopped, NoInstruction, Ebreak
  <2> QED BY <2>2, <2>3, <2>4
<1>7. ASSUME en, ~Stopped, Interrupted
      PROVE  exec'.op = "none" /\ reg' = reg /\ ~Ebreak
             /\ fetch' = (IF fetch_halt_req THEN "stopped" ELSE "program")
  <2>1. exec'.op = "none" /\ reg' = reg /\ ~Ebreak
    BY <1>1, <1>5, <1>7 DEF Pipeline, Execute, NoInstruction, Ebreak
  <2>2. fetch = "program"
    BY <1>7 DEF RunControl, Stopped
  <2>3. fetch' = (IF fetch_halt_req THEN "stopped" ELSE "program")
    BY <1>1, <1>7, <2>1, <2>2 DEF Pipeline, Fetch
  <2> QED BY <2>1, <2>3
<1>8. ASSUME en, ~Stopped, fetch_halt_req
      PROVE  fetch' = "stopped" /\ ~fetch_halt_req' /\ exec'.op = "none" /\ reg' = reg
  <2>1. Interrupted
    BY <1>8, Zenon DEF Interrupted
  <2>2. ~fetch_halt_req'
    BY <1>1, <1>8, <2>1, Zenon DEF Pipeline, Fetch
  <2> QED BY <1>7, <1>8, <2>1, <2>2
<1>9. ASSUME en, ~Stopped, irq
      PROVE  fetch' = "program" /\ ~fetch_halt_req' /\ ~irq' /\ exec'.op = "none" /\ reg' = reg
  <2>1. Interrupted /\ control = "resuming" /\ ~fetch_halt_req /\ fetch = "program"
    BY <1>3, <1>9, Zenon DEF Interrupted
  <2>2. ~irq' /\ ~fetch_halt_req'
    BY <1>1, <1>9, <2>1 DEF Timer, Pipeline, Fetch
  <2> QED BY <1>7, <1>9, <2>1, <2>2
<1>10. ASSUME en, ~Stopped, ~Interrupted
       PROVE  /\ fetch' = (IF exec.op = "stop" THEN "stopped" ELSE "program")
              /\ (fetch_halt_req' => control = "halting")
              /\ (exec.op = "stop" => exec'.op = "none" /\ reg' = reg)
              /\ (exec.op # "stop" => /\ exec'.op = own /\ exec'.data = Junk
                                      /\ reg' = IF exec.op = "program" THEN Junk ELSE reg)
  <2>1. fetch = "program" /\ exec.op \in {"none", "program", "stop"} /\ (Ebreak <=> exec.op = "stop")
    BY <1>10 DEF RunControl, Stopped, Ebreak
  <2>2. fetch' = (IF exec.op = "stop" THEN "stopped" ELSE "program")
    BY <1>1, <1>10, <2>1 DEF Pipeline, Fetch
  <2>3. fetch_halt_req' => control = "halting"
    BY <1>1, <1>10, Zenon DEF Pipeline, Fetch
  <2>4. exec' = IF exec.op = "stop" THEN NoInstruction ELSE [op |-> own, data |-> Junk]
    BY <1>1, <1>5, <1>10, <2>1 DEF Pipeline, Execute, Fetched
  <2>5. reg' = IF exec.op = "program" THEN Junk ELSE reg
    BY <1>1, <1>10, <2>1 DEF Pipeline, Execute, RunControl
  <2> QED BY <2>1, <2>2, <2>3, <2>4, <2>5 DEF NoInstruction
<1> QED BY <1>3, <1>4, <1>6, <1>8, <1>9, <1>10, Zenon

LEMMA OwnControl ==
    ASSUME NEW en \in BOOLEAN, NEW own \in {"program", "stop"}, NEW w, Steady(w, en, own),
           RunControl, Unused
    PROVE  /\ control = "running" => control' \in {"running", "halting"}
           /\ control = "halting" => control' = IF en /\ Stopped THEN "halted" ELSE "halting"
           /\ control = "resuming" => control' = IF en /\ ~Stopped THEN "running" ELSE "resuming"
           /\ control = "halted" => \/ control' = "halted"
                                    \/ control' = "resuming" /\ asked.resume
           /\ halted' <=> control' \in {"halted", "resuming"}
<1>1. HartControl(en) /\ ~Starts
  BY DEF Steady, Edge, Hart, Starts, Unused
<1>2. CASE control = "running"
  <2>1. ~Stops(en) /\ ~Departs(en) /\ ~halted
    BY <1>2 DEF Stops, Departs, RunControl
  <2>2. control' \in {"running", "halting"}
    BY <1>1, <1>2, <2>1 DEF HartControl
  <2>3. ~halted'
    BY <2>1, HartEdge, Zenon
  <2> QED BY <1>2, <2>2, <2>3
<1>3. CASE control = "halting"
  <2>1. ~Departs(en) /\ ~halted /\ (Stops(en) <=> en /\ Stopped)
    BY <1>3 DEF Stops, Departs, RunControl
  <2>2. control' = IF en /\ Stopped THEN "halted" ELSE "halting"
    BY <1>1, <1>3, <2>1 DEF HartControl
  <2>3. halted' <=> en /\ Stopped
    BY <2>1, HartEdge, Zenon
  <2> QED BY <1>3, <2>2, <2>3
<1>4. CASE control = "resuming"
  <2>1. ~Stops(en) /\ halted /\ (Departs(en) <=> en /\ ~Stopped)
    BY <1>4 DEF Stops, Departs, RunControl
  <2>2. control' = IF en /\ ~Stopped THEN "running" ELSE "resuming"
    BY <1>1, <1>4, <2>1 DEF HartControl
  <2>3. halted' <=> ~(en /\ ~Stopped)
    BY <2>1, HartEdge, Zenon
  <2> QED BY <1>4, <2>2, <2>3
<1>5. CASE control = "halted"
  <2>1. ~Stops(en) /\ ~Departs(en) /\ halted
    BY <1>5 DEF Stops, Departs, RunControl
  <2>2. control' = "halted" \/ (control' = "resuming" /\ asked.resume)
    BY <1>1, <1>5, <2>1 DEF HartControl
  <2>3. halted'
    BY <2>1, HartEdge, Zenon
  <2> QED BY <1>5, <2>2, <2>3
<1> QED BY <1>2, <1>3, <1>4, <1>5 DEF RunControl

LEMMA RunControlKept ==
    ASSUME NEW en \in BOOLEAN, NEW own \in {"program", "stop"}, NEW w, Steady(w, en, own),
           AtRest, RunControl, Unused
    PROVE  RunControl' /\ Unused'
<1>1. ASSUME ~en PROVE RunControl'
  <2>1. UNCHANGED <<fetch, fetch_halt_req, exec, rfw, reg>>
    BY <1>1, OwnPipeline
  <2>2. irq' /\ fetch' = "program" => irq
    BY <1>1, <2>1 DEF Steady, Edge, Timer
  <2>3. /\ control' \in {"halted", "resuming", "running", "halting"}
        /\ halted' <=> control' \in {"halted", "resuming"}
        /\ control' = "halted" => control = "halted"
        /\ control' = "resuming" => control = "resuming" \/ control = "halted"
        /\ control = "resuming" => control' = "resuming"
        /\ control = "halting" => control' = "halting"
    BY <1>1, OwnControl DEF RunControl
  <2> QED BY <2>1, <2>2, <2>3 DEF RunControl, Stopped
<1>2. ASSUME en, Stopped PROVE RunControl'
  <2>1. /\ fetch' = IF control = "resuming" THEN "program" ELSE "stopped"
        /\ ~fetch_halt_req' /\ exec'.op = "none"
    BY <1>2, OwnPipeline
  <2>2. /\ control' \in {"halted", "resuming", "running", "halting"}
        /\ halted' <=> control' \in {"halted", "resuming"}
        /\ control' = "halted" => control # "resuming"
        /\ control = "resuming" => control' = "resuming"
    BY <1>2, OwnControl DEF RunControl
  <2> QED BY <2>1, <2>2 DEF RunControl, Stopped
<1>3. ASSUME en, ~Stopped PROVE RunControl'
  <2>1. /\ fetch' \in {"stopped", "program"} /\ exec'.op \in {"none", "program", "stop"}
        /\ exec'.op = "program" => exec'.data = Junk
        /\ fetch' = "stopped" => exec'.op = "none"
        /\ fetch_halt_req' => control = "halting"
        /\ irq => ~irq'
    BY <1>3, OwnPipeline DEF Interrupted
  <2>2. /\ control' \in {"running", "halting"}
        /\ halted' <=> control' \in {"halted", "resuming"}
        /\ control = "halting" => control' = "halting"
    BY <1>3, OwnControl DEF RunControl
  <2>3. fetch = "program"
    BY <1>3 DEF RunControl, Stopped
  <2>4. ~irq'
    BY <1>3, <2>1, <2>3 DEF Steady, Edge, Timer
  <2> QED BY <2>1, <2>2, <2>4 DEF RunControl, Stopped
<1>4. Unused'
  <2>1. ~Transfer /\ ~Told("exec") /\ ~Answered
    BY DEF Transfer, Told, AtRest, Instructed, Answered, Unused
  <2>2. ~debug'.valid /\ ~waiting_for_read_write' /\ ~read_write_completed' /\ ~exec_progbuf_req'
    BY <2>1, HartEdge DEF Unused, ProgbufAsked
  <2>3. ~fetch_debug'
    BY DEF Steady, Edge, Pipeline, Fetch, Unused
  <2> QED BY <2>2, <2>3 DEF Unused
<1> QED BY <1>1, <1>2, <1>3, <1>4, Zenon

(* How the pipeline comes nearer to the first instruction of the program:   *)
(* with every tick, once a request to resume was obeyed.                    *)
LEMMA LagShrinks ==
    ASSUME NEW en \in BOOLEAN, NEW own \in {"program", "stop"}, NEW w, Steady(w, en, own),
           RunControl, Unused, Lag' > 0, reg' # Junk
    PROVE  /\ reg # Junk
           /\ \/ ~en /\ Lag = Lag' /\ Lag \in {1, 2, 3, 4}
              \/ en /\ Lag \in {2, 3, 4} /\ Lag' \in {1, 2, 3} /\ Lag' <= Lag - 1
              \/ Lag' = 4 /\ control = "halted" /\ asked.resume
<1>1. CASE ~en
  <2>1. UNCHANGED <<fetch, fetch_halt_req, exec, rfw, reg>>
    BY <1>1, OwnPipeline
  <2>2. fetch = "program" => (irq' <=> irq)
    BY <1>1, Zenon DEF Steady, Edge, Timer
  <2>3. control' = "resuming" => control = "resuming" \/ (control = "halted" /\ asked.resume)
    BY OwnControl DEF RunControl
  <2> QED BY <1>1, <2>1, <2>2, <2>3 DEF Lag, Stopped
<1>2. CASE en /\ Stopped
  <2>1. /\ fetch' = IF control = "resuming" THEN "program" ELSE "stopped"
        /\ ~fetch_halt_req' /\ exec'.op = "none" /\ reg' = reg
    BY <1>2, OwnPipeline
  <2>2. control' = "resuming" => control = "resuming" \/ (control = "halted" /\ asked.resume)
    BY OwnControl DEF RunControl
  <2>3. CASE control = "resuming"
    <3>1. Lag = 4
      BY <1>2, <2>3 DEF Lag, RunControl, Stopped
    <3>2. Lag' \in {2, 3}
      BY <2>1, <2>3 DEF Lag
    <3> QED BY <1>2, <2>1, <3>1, <3>2
  <2>4. CASE control # "resuming"
    BY <2>1, <2>2, <2>4 DEF Lag, Stopped
  <2> QED BY <2>3, <2>4
<1>3. CASE en /\ ~Stopped
  <2>1. fetch = "program" /\ exec.op \in {"none", "program", "stop"} /\ control' # "resuming"
    BY <1>3, OwnControl DEF RunControl, Stopped
  <2>2. CASE fetch_halt_req
    <3>1. fetch' = "stopped" /\ exec'.op = "none"
      BY <1>3, <2>2, OwnPipeline
    <3> QED BY <2>1, <3>1 DEF Lag
  <2>3. CASE irq /\ ~fetch_halt_req
    <3>1. fetch' = "program" /\ ~irq' /\ exec'.op = "none" /\ reg' = reg /\ exec.op = "none"
      BY <1>3, <2>3, OwnPipeline
    <3> QED BY <1>3, <2>1, <2>3, <3>1 DEF Lag
  <2>4. CASE ~Interrupted /\ exec.op = "stop"
    <3>1. fetch' = "stopped" /\ exec'.op = "none"
      BY <1>3, <2>4, OwnPipeline
    <3> QED BY <2>1, <3>1 DEF Lag
  <2>5. CASE ~Interrupted /\ exec.op # "stop"
    <3>1. exec'.op = own /\ fetch' = "program" /\ reg' = (IF exec.op = "program" THEN Junk ELSE reg)
      BY <1>3, <2>5, OwnPipeline
    <3>2. exec.op = "none" /\ Lag = 2 /\ reg' = reg
      BY <2>1, <2>5, <3>1 DEF Lag, Interrupted
    <3>3. Lag' \in {0, 1}
      BY <3>1 DEF Lag, Stopped
    <3> QED BY <1>3, <3>2, <3>3
  <2> QED BY <2>2, <2>3, <2>4, <2>5 DEF Interrupted
<1> QED BY <1>1, <1>2, <1>3

(* A bound in ticks that holds is not hurt by one more. *)
LEMMA TicksMore ==
    ASSUME TypeOK', NEW a \in Nat, NEW n \in Nat, NEW n1 \in Nat, n1 >= n, Ticks(a, n)'
    PROVE  Ticks(a, n1)'
<1>1. since' \in Nat /\ stalled' \in Nat /\ T' \in Nat
  BY ReveDebugAssumption DEF TypeOK, HistTypeOK, T
<1>2. PICK e \in Nat, d \in Nat, t \in Nat : e = since' /\ d = stalled' /\ t = T'
  BY <1>1
<1>3. e \in Nat /\ d \in Nat /\ t \in Nat /\ e <= a + n * t + d
  BY <1>2, Zenon DEF Ticks
<1>4. e <= a + n1 * t + d
  <2>1. PICK m \in Nat : n1 = n + m
    BY SMT
  <2>2. n1 * t = n * t + m * t /\ n * t \in Nat /\ m * t \in Nat
    BY <1>3, <2>1
  <2> HIDE DEF T
  <2> QED BY <1>3, <2>2
<1> QED BY <1>2, <1>4, Zenon DEF Ticks

(* Soon after the write, or where a bound of the edge it came with is kept. *)
LEMMA TicksAtOnce ==
    ASSUME TypeOK', since' <= 2, NEW n \in Nat
    PROVE  Ticks(2, n)'
<1>1. since' \in Nat /\ stalled' \in Nat /\ T' \in Nat
  BY ReveDebugAssumption DEF TypeOK, HistTypeOK, T
<1>2. \A e, d, t \in Nat : e <= 2 => e <= 2 + 0 * t + d
  OBVIOUS
<1>3. Ticks(2, 0)'
  BY <1>1, <1>2, Zenon DEF Ticks
<1> QED BY <1>3, TicksMore

LEMMA LagTyped == Lag \in {0, 1, 2, 3, 4}
BY DEF Lag

LEMMA IdleNext ==
    ASSUME NEW en \in BOOLEAN, NEW own \in {"program", "stop"}, Steady(NoWrite, en, own), Idle
    PROVE  Idle'
<1> USE DEF Idle
<1>1. RunControl' /\ Unused'
  BY RunControlKept
<1>2. ~Ended /\ ~InitiatesTransfer /\ ~InitiatesExecute /\ ~busy /\ fsm_state = "idle"
  BY DEF Ended, InitiatesTransfer, InitiatesExecute, AtRest
<1>3. AtRest' /\ data0' = data0
  <2>1. ~busy' /\ fsm_state' = "idle" /\ ~Instructed' /\ data0' = data0
    BY <1>2, ModuleEdge, NothingToDo
  <2> QED BY <2>1 DEF AtRest
<1>4. reg' = want'.reg /\ want'.data0 = want.data0
  <2>1. want \in [reg : Words, data0 : Words] /\ want' = IF en /\ ~Interrupted /\ exec.op = "program"
                                                    THEN [want EXCEPT !.reg = Junk] ELSE want
    BY WaitingEdge DEF Steady, TypeOK, HistTypeOK
  <2>2. reg' = IF en /\ ~Interrupted /\ exec.op = "program" THEN Junk ELSE reg
    BY OwnPipeline DEF RunControl, Interrupted
  <2> QED BY <2>1, <2>2
<1>5. since' \in Nat /\ since' <= since + 1 /\ since \in Nat /\ requests' = requests
  BY WaitingEdge, HostTimes DEF Steady
<1>6. requests = NoRequests /\ asked.resume => since <= 1
  BY DEF Steady, Requested, NoRequests
<1>7. requests = NoRequests /\ asked.resume => since' <= 2
  BY <1>5, <1>6
<1>8. Ebbing'
  <2>1. SUFFICES ASSUME control' = "halted", rfw'.op # "none" PROVE Ticks(10 + LastSlot, 7)'
    BY DEF Ebbing
  <2>2. ~en /\ rfw' = rfw /\ control = "halted"
    BY <2>1, OwnControl, OwnPipeline DEF RunControl
  <2>3. Ticks(10 + LastSlot, 7)
    BY <2>1, <2>2 DEF Ebbing
  <2> QED BY <2>2, <2>3, Clock, ReveDebugAssumption
<1>9. ASSUME requests = NoRequests, control' = "resuming"
      PROVE  Ticks(2, IF Stopped THEN 0 ELSE 1)'
  <2>1. CASE control = "resuming"
    <3>1. Ticks(2, IF Stopped THEN 0 ELSE 1)
      BY <1>9, <2>1 DEF Resuming
    <3>2. CASE Stopped
      <4>1. Ticks(2, 0)
        BY <3>1, <3>2
      <4>2. (en => Ticks(2, 1)' /\ ~Stopped') /\ (~en => Ticks(2, 0)' /\ Stopped')
        BY <2>1, <3>2, <4>1, Clock, OwnPipeline DEF Stopped
      <4> QED BY <4>2
    <3>3. CASE ~Stopped
      <4>1. Ticks(2, 1) /\ ~en
        BY <1>9, <2>1, <3>1, <3>3, OwnControl
      <4>2. Ticks(2, 1)' /\ ~Stopped'
        BY <3>3, <4>1, Clock, OwnPipeline DEF Stopped
      <4> QED BY <4>2
    <3> QED BY <3>2, <3>3
  <2>2. CASE control # "resuming"
    <3>1. control = "halted" /\ asked.resume
      BY <1>9, <2>2, OwnControl DEF RunControl
    <3>2. Ticks(2, 0)' /\ Ticks(2, 1)'
      BY <1>7, <1>9, <3>1, TicksAtOnce DEF Steady
    <3> QED BY <3>2
  <2> QED BY <2>1, <2>2
<1>10. ASSUME requests = NoRequests, halted_seen', ~halted'
       PROVE  since' + News' <= 6 + 2 * T' + LastSlot
  <2>1. PICK e \in Nat, t \in Nat, n \in Nat : e = since' /\ t = T /\ t = T' /\ n = News'
    BY WaitingEdge, HostTimes, NewsBoundNext DEF Steady
  <2>2. /\ e \in Nat /\ t \in Nat /\ n \in Nat /\ LastSlot \in Nat /\ since \in Nat /\ e <= since + 1
        /\ n <= LastSlot + 3 /\ News \in Nat
    BY <2>1, <1>5, HostTimes, NewsBound, NewsBoundNext, Zenon DEF Steady
  <2>3. CASE halted
    <3>1. control = "resuming" /\ control' \notin {"halted", "resuming"}
      BY <1>10, <2>3, OwnControl DEF RunControl
    <3>2. en /\ ~Stopped
      BY <3>1, OwnControl
    <3>3. Ticks(2, 1)
      BY <1>10, <3>1, <3>2 DEF Resuming
    <3>4. e <= 2 + 2 * t
      <4>1. 1 \in Nat /\ 2 \in Nat /\ 2 = 1 + 1
        OBVIOUS
      <4>2. since' <= 2 + 2 * T'
        BY <3>2, <3>3, <4>1, Clock, Zenon
      <4> QED BY <2>1, <4>2, Zenon
    <3>5. e + n <= 6 + 2 * t + LastSlot
      BY <2>2, <3>4
    <3> QED BY <2>1, <3>5, Zenon
  <2>4. CASE ~halted
    <3>1. dmactive /\ ~response /\ halted_seen
      <4>1. halted_seen' <=> dmactive /\ IF response THEN halted ELSE halted_seen
        BY Zenon DEF Steady, Edge, Module, LearnStatus
      <4> QED BY <1>10, <2>4, <4>1
    <3>2. since + News <= 6 + 2 * t + LastSlot
      BY <1>10, <2>1, <2>4, <3>1, Zenon DEF Resuming
    <3>3. must_set_requests \/ ToHart \/ attention
      BY <2>4, <3>1 DEF Steady, StatusIsCurrent, NewsOnTheWay, ToHart, Requested
    <3>4. n <= News - 1
      BY <1>2, <2>1, <3>1, <3>3, NewsComes
    <3>5. e + n <= 6 + 2 * t + LastSlot
      BY <2>2, <3>2, <3>4
    <3> QED BY <2>1, <3>5, Zenon
  <2> QED BY <2>3, <2>4
<1>11. ASSUME requests = NoRequests, Lag' > 0, reg' # Junk
       PROVE  Ticks(2, 4 - Lag)'
  <2>1. /\ reg # Junk
        /\ \/ ~en /\ Lag = Lag' /\ Lag \in {1, 2, 3, 4}
           \/ en /\ Lag \in {2, 3, 4} /\ Lag' \in {1, 2, 3} /\ Lag' <= Lag - 1
           \/ Lag' = 4 /\ control = "halted" /\ asked.resume
    BY <1>1, <1>11, LagShrinks
  <2>2. CASE ~en /\ Lag = Lag' /\ Lag \in {1, 2, 3, 4}
    <3>1. Ticks(2, 4 - Lag)
      BY <1>11, <2>1, <2>2 DEF Resuming
    <3>6. \A l \in {1, 2, 3, 4} : 4 - l \in Nat
      OBVIOUS
    <3>2. PICK n \in Nat : n = 4 - Lag /\ n = 4 - Lag'
      BY <2>2, <3>6, Zenon
    <3>3. Ticks(2, n)
      BY <3>1, <3>2, Zenon
    <3>4. Ticks(2, n)'
      BY <2>2, <3>3, Clock
    <3> QED BY <3>2, <3>4, Zenon DEF Ticks
  <2>3. CASE en /\ Lag \in {2, 3, 4} /\ Lag' \in {1, 2, 3} /\ Lag' <= Lag - 1
    <3>1. Ticks(2, 4 - Lag)
      BY <1>11, <2>1, <2>3 DEF Resuming
    <3>6. \A l \in {2, 3, 4}, k \in {1, 2, 3} :
              k <= l - 1 => 4 - l \in Nat /\ 4 - k \in Nat /\ 4 - k >= (4 - l) + 1
      OBVIOUS
    <3>2. PICK n \in Nat, m \in Nat : n = 4 - Lag /\ m = 4 - Lag' /\ m >= n + 1
      BY <2>3, <3>6, Zenon
    <3>3. Ticks(2, n)
      BY <3>1, <3>2, Zenon
    <3>4. PICK k \in Nat : k = n + 1
      OBVIOUS
    <3>5. Ticks(2, k)'
      BY <2>3, <3>3, <3>4, Clock, Zenon
    <3>7. Ticks(2, m)'
      BY <3>2, <3>4, <3>5, TicksMore, Zenon DEF Steady
    <3> QED BY <3>2, <3>7, Zenon DEF Ticks
  <2>4. CASE Lag' = 4 /\ control = "halted" /\ asked.resume
    <3>1. Ticks(2, 0)'
      BY <1>7, <1>11, <2>4, TicksAtOnce DEF Steady
    <3> QED BY <2>4, <3>1 DEF Ticks
  <2> QED BY <2>1, <2>2, <2>3, <2>4
<1>12. Resuming'
  BY <1>5, <1>9, <1>10, <1>11, Zenon DEF Resuming
<1> QED BY <1>1, <1>3, <1>4, <1>8, <1>12

-----------------------------------------------------------------------------
(* A patient host writes when everything is done. *)
LEMMA Punctual ==
    ASSUME PatienceSuffices, TypeOK, Relied, since = host.gap
    PROVE  /\ ~Commanding
           /\ \A n \in 0..7 : ~Ticks(10 + LastSlot, n) /\ ~Ticks(2, n) /\ ~Ticks(3, n)
           /\ since > 2 /\ since > 6 + 2 * T + LastSlot
<1>1. /\ T \in Nat /\ T >= 1 /\ LastSlot \in Nat /\ since \in Nat /\ stalled \in Nat /\ stalled < T
      /\ since >= 10 + 8 * T + LastSlot
  BY HostTimes
<1>2. \A t, m, l, s, d \in Nat : \A n \in 0..7 :
          t >= 1 /\ d < t /\ s >= 10 + 8 * t + l /\ m \in {2, 3, 10 + l} => ~(s <= m + n * t + d)
  <2> SUFFICES ASSUME NEW t \in Nat, NEW m \in Nat, NEW l \in Nat, NEW s \in Nat, NEW d \in Nat, NEW n \in 0..7,
                      t >= 1, d < t, s >= 10 + 8 * t + l, m \in {2, 3, 10 + l}
               PROVE  ~(s <= m + n * t + d)
    OBVIOUS
  <2>1. n * t <= 7 * t /\ n * t \in Nat
    <3>1. PICK k \in Nat : 7 = n + k
      BY SMT
    <3>2. 7 * t = n * t + k * t /\ n * t \in Nat /\ k * t \in Nat
      BY <3>1
    <3> QED BY <3>2
  <2> QED BY <2>1
<1>3. \A n \in 0..7 : ~Ticks(10 + LastSlot, n) /\ ~Ticks(2, n) /\ ~Ticks(3, n)
  BY <1>1, <1>2 DEF Ticks
<1>4. since > 2 /\ since > 9 + 3 * T + LastSlot /\ since > 6 + 2 * T + LastSlot
  BY <1>1
<1>5. ~Taken /\ ~Chosen /\ ~Sent
  BY <1>4 DEF Taken, Chosen, Sent
<1>6. ~Given /\ ~Fetching /\ ~Executing /\ ~Starting /\ ~Started /\ ~InBuffer /\ ~AtEbreak /\ ~Ending
  BY <1>3 DEF Given, Fetching, Executing, Starting, Started, InBuffer, AtEbreak, Ending
<1>7. ~Retired /\ ~Turning /\ ~Calling /\ ~Called
  BY <1>1 DEF Retired, Turning, Calling, Called
<1>8. ~Answering
  BY <1>1, NewsBound DEF Answering
<1> QED BY <1>3, <1>4, <1>5, <1>6, <1>7, <1>8 DEF Commanding

(* The hart as such a write finds it. *)
LEMMA BeforeAWrite ==
    ASSUME NEW en \in BOOLEAN, NEW own \in {"program", "stop"}, NEW w \in Writes,
           Steady(w, en, own), Requested /\ (Idle \/ Commanding)
    PROVE  /\ Idle /\ since' = 0 /\ asked = requests /\ ~must_set_requests /\ mst.op # "requests"
           /\ halted_seen => dmactive
           /\ requests # NoRequests => w.to = "dmcontrol" /\ w.ask = NoRequests
           /\ requests = NoRequests =>
                  /\ control # "resuming" /\ (halted_seen => halted)
                  /\ Lag > 0 => reg = Junk
           /\ control = "halted" => rfw.op = "none"
<1>1. since = host.gap /\ Withdraws(w) /\ w # NoWrite /\ Remember(w, en)
  <2>1. w # NoWrite
    BY DEF Writes, NoWrite
  <2> QED BY <2>1 DEF Steady, Edge
<1>2. /\ ~Commanding /\ since > 2 /\ since > 6 + 2 * T + LastSlot
      /\ \A n \in 0..7 : ~Ticks(10 + LastSlot, n) /\ ~Ticks(2, n)
  BY <1>1, Punctual DEF Steady
<1>3. Idle
  BY <1>2
<1>4. ~must_set_requests /\ mst.op # "requests" /\ asked = requests /\ (halted_seen => dmactive)
  BY <1>2 DEF Requested
<1>5. since' = 0
  BY <1>1 DEF Remember
<1>6. requests # NoRequests => w.to = "dmcontrol" /\ w.ask = NoRequests
  BY <1>1 DEF Withdraws
<1>7. ASSUME requests = NoRequests
      PROVE  control # "resuming" /\ (halted_seen => halted) /\ (Lag > 0 => reg = Junk)
  <2>1. control # "resuming"
    <3>1. control = "resuming" => Ticks(2, IF Stopped THEN 0 ELSE 1)
      BY <1>3, <1>7 DEF Idle, Resuming
    <3> QED BY <1>2, <3>1
  <2>2. halted_seen => halted
    <3>1. halted_seen /\ ~halted => since + News <= 6 + 2 * T + LastSlot
      BY <1>3, <1>7 DEF Idle, Resuming
    <3>2. News \in Nat /\ since \in Nat /\ T \in Nat /\ LastSlot \in Nat
      BY NewsBound, HostTimes DEF Steady
    <3> QED BY <1>2, <3>1, <3>2
  <2>3. Lag > 0 => reg = Junk
    <3>1. Lag > 0 /\ reg # Junk => Ticks(2, 4 - Lag)
      BY <1>3, <1>7 DEF Idle, Resuming
    <3>2. Lag > 0 => 4 - Lag \in 0..7
      BY LagTyped
    <3> QED BY <1>2, <3>1, <3>2
  <2> QED BY <2>1, <2>2, <2>3
<1>8. control = "halted" => rfw.op = "none"
  BY <1>2, <1>3 DEF Idle, Ebbing
<1> QED BY <1>3, <1>4, <1>5, <1>6, <1>7, <1>8

(* Requests after a write. *)
LEMMA RequestsWritten ==
    ASSUME NEW en \in BOOLEAN, NEW own \in {"program", "stop"}, NEW w \in Writes,
           Steady(w, en, own), Requested /\ (Idle \/ Commanding)
    PROVE  Requested'
<1>1. /\ Idle /\ since' = 0 /\ asked = requests /\ ~must_set_requests /\ mst.op # "requests"
      /\ halted_seen => dmactive
  BY BeforeAWrite
<1>2. Control(w) /\ CmdErr(w) /\ Drive /\ Obey(en) /\ hart_sel = 0 /\ cmderr # "busy"
  BY DEF Steady, Edge, Module, Hart, Requested
<1>3. hart_sel' = 0
  <2>1. w.to = "dmcontrol" => w.sel \in host.harts
    BY DEF Writes
  <2>2. host.harts \subseteq {0}
    BY HostTimes DEF Steady
  <2> QED BY <1>2, <2>1, <2>2 DEF Control
<1>4. mst'.op # "requests"
  BY <1>1, <1>2 DEF Drive, ToSelected, InitiatesTransfer, InitiatesExecute, Nothing, Idle, AtRest
<1>5. ~must_set_requests' => asked' = requests'
  <2>1. asked' = requests
    BY <1>1, <1>2 DEF Obey, Told
  <2>2. ~must_set_requests' => requests' = requests
    BY <1>2 DEF Control
  <2> QED BY <2>1, <2>2
<1>6. cmderr' # "busy"
  BY <1>1, <1>2 DEF CmdErr, Idle, AtRest
<1> QED BY <1>1, <1>3, <1>4, <1>5, <1>6 DEF Requested

LEMMA WriteNext ==
    ASSUME NEW en \in BOOLEAN, NEW own \in {"program", "stop"}, NEW w \in Writes,
           Steady(w, en, own), Requested /\ (Idle \/ Commanding)
    PROVE  Idle' \/ Taken'
<1>1. /\ Idle /\ since' = 0 /\ asked = requests /\ ~must_set_requests /\ mst.op # "requests"
      /\ halted_seen => dmactive
      /\ requests # NoRequests => w.to = "dmcontrol" /\ w.ask = NoRequests
      /\ requests = NoRequests =>
             /\ control # "resuming" /\ (halted_seen => halted)
             /\ Lag > 0 => reg = Junk
      /\ control = "halted" => rfw.op = "none"
  BY BeforeAWrite
<1>2. AtRest /\ Unused /\ RunControl /\ data0 = want.data0 /\ reg = want.reg /\ TypeOK /\ TypeOK'
  BY <1>1 DEF Idle, Steady
<1>3. RunControl' /\ Unused'
  BY <1>2, RunControlKept
<1>4. ~Ended /\ ~InitiatesTransfer /\ ~InitiatesExecute /\ ~busy /\ fsm_state = "idle"
  BY <1>2 DEF Ended, InitiatesTransfer, InitiatesExecute, AtRest
<1>5. ~Instructed'
  BY <1>4, NothingToDo
<1>6. Command(w) /\ Control(w) /\ Remember(w, en) /\ patient
  BY DEF Steady, Edge, Module, Relied
<1>7. /\ busy' <=> dmactive /\ Accepts(w)
      /\ fsm_state' = "idle" /\ data0' = IF w.to = "data0" THEN w.data ELSE data0
  <2>1. busy' = (dmactive /\ (Accepts(w) \/ (busy /\ ~Ended)))
    BY <1>6, Zenon DEF Command
  <2>2. busy' <=> dmactive /\ Accepts(w)
    BY <1>4, <2>1, Zenon
  <2>3. fsm_state' = "idle" /\ data0' = IF w.to = "data0" THEN w.data ELSE data0
    BY <1>4, <1>6 DEF Command
  <2> QED BY <2>2, <2>3
<1>8. Ebbing'
  <2>1. SUFFICES ASSUME control' = "halted" PROVE rfw'.op = "none"
    BY DEF Ebbing
  <2>2. Stopped /\ (control = "halted" \/ en)
    BY <1>2, <2>1, OwnControl DEF RunControl
  <2> QED BY <1>1, <1>2, <2>1, <2>2, OwnPipeline
<1>9. Resuming'
  <2>1. Ticks(2, IF Stopped THEN 0 ELSE 1)' /\ (Lag' > 0 => Ticks(2, 4 - Lag)')
    <3>1. \A n \in {0, 1, 2, 3, 4} : Ticks(2, n)'
      <4>1. since' <= 2
        BY <1>1
      <4>2. \A n \in {0, 1, 2, 3, 4} : n \in Nat
        OBVIOUS
      <4> QED BY <1>2, <4>1, <4>2, TicksAtOnce
    <3>2. Lag' \in {0, 1, 2, 3, 4}
      BY DEF Lag
    <3>3. \A l \in {0, 1, 2, 3, 4} : l > 0 => 4 - l \in {0, 1, 2, 3, 4}
      OBVIOUS
    <3> QED BY <3>1, <3>2, <3>3, Zenon DEF Ticks
  <2>2. since' + News' <= 6 + 2 * T' + LastSlot
    <3>1. PICK t \in Nat, n \in Nat : t = T' /\ n = News' /\ n <= LastSlot + 3
      <4>1. T' \in Nat
        BY <1>2, ReveDebugAssumption DEF TypeOK, HistTypeOK, T
      <4> QED BY <1>2, <4>1, NewsBoundNext
    <3>2. t \in Nat /\ n \in Nat /\ n <= LastSlot + 3 /\ LastSlot \in Nat
      BY <3>1, ReveDebugAssumption
    <3>3. 0 + n <= 6 + 2 * t + LastSlot
      BY <3>2
    <3> QED BY <1>1, <3>1, <3>3, Zenon
  <2> QED BY <2>1, <2>2 DEF Resuming
<1>10. CASE Accepts(w)
  <2>1. w.to = "command" /\ halted_seen /\ requests = NoRequests
    BY <1>1, <1>10 DEF Accepts, SelectedIsHalted
  <2>2. dmactive /\ control = "halted" /\ Stopped /\ ~fetch_halt_req /\ exec.op = "none" /\ rfw.op = "none"
    BY <1>1, <1>2, <2>1 DEF RunControl
  <2>3. dmactive' /\ requests' = NoRequests /\ ~must_set_requests'
    BY <1>6, <2>1, <2>2 DEF Control
  <2>4. control' = "halted" /\ halted'
    BY <1>1, <1>2, <2>1, <2>2, OwnControl DEF NoRequests
  <2>5. mst'.op # "requests"
    <3>1. Drive
      BY DEF Steady, Edge, Module
    <3> QED BY <1>1, <1>4, <3>1 DEF Drive, Nothing
  <2>6. Stopped' /\ ~fetch_halt_req' /\ rfw'.op = "none" /\ exec'.op = "none" /\ reg' = reg
    BY <1>2, <2>2, OwnPipeline DEF Stopped
  <2>7. Parked' /\ Fresh'
    BY <1>3, <2>3, <2>4, <2>5, <2>6 DEF Parked, Fresh, Free, Unused
  <2>8. /\ command' = [transfer |-> w.transfer, exec |-> w.exec]
        /\ data0' = data0 /\ progbuf0' = progbuf0
    BY <1>6, <1>7, <1>10, <2>1 DEF Command
  <2>9. want' = [reg |-> IF w.exec THEN progbuf0
                         ELSE IF w.transfer = "write" THEN data0 ELSE want.reg,
                 data0 |-> IF w.transfer = "read" THEN want.reg ELSE want.data0]
    BY <1>6, <1>10 DEF Remember
  <2>10. Before'
    BY <1>2, <2>6, <2>8, <2>9 DEF Before
  <2> QED BY <1>1, <1>5, <1>7, <1>10, <2>2, <2>7, <2>10 DEF Taken
<1>11. CASE ~Accepts(w)
  <2>1. AtRest'
    BY <1>5, <1>7, <1>11 DEF AtRest
  <2>2. reg' = IF en /\ ~Interrupted /\ exec.op = "program" THEN Junk ELSE reg
    BY <1>2, OwnPipeline DEF RunControl, Interrupted
  <2>3. want \in [reg : Words, data0 : Words]
    BY <1>2 DEF TypeOK, HistTypeOK
  <2>4. CASE w.to = "data0"
    <3>1. want' = [want EXCEPT !.data0 = w.data]
      BY <1>6, <1>11, <2>4 DEF Remember
    <3>2. exec.op = "program" => Lag > 0
      BY DEF Lag
    <3>3. reg' = reg
      BY <1>1, <2>2, <2>4, <3>2
    <3> QED BY <1>2, <1>3, <1>7, <1>8, <1>9, <2>1, <2>3, <2>4, <3>1, <3>3 DEF Idle
  <2>5. CASE w.to # "data0"
    <3>1. want' = IF en /\ ~Interrupted /\ exec.op = "program" THEN [want EXCEPT !.reg = Junk] ELSE want
      BY <1>6, <1>11, <2>5 DEF Remember
    <3>2. want'.reg = reg' /\ want'.data0 = data0'
      BY <1>2, <1>7, <2>2, <2>3, <2>5, <3>1
    <3> QED BY <1>3, <1>8, <1>9, <2>1, <3>2 DEF Idle
  <2> QED BY <2>4, <2>5
<1> QED BY <1>10, <1>11

-----------------------------------------------------------------------------
LEMMA PatientInitially ==
    ASSUME Init PROVE PatientInv
<1> USE DEF Init
<1>1. Requested
  BY DEF Requested, Nothing
<1>2. Lag = 0
  BY DEF Lag, Stopped, NoInstruction
<1>3. Idle
  BY <1>2 DEF Idle, AtRest, Unused, Instructed, Nothing, NoInstruction, RunControl, Stopped, Ebbing, Resuming
<1> QED BY <1>1, <1>3 DEF PatientInv

LEMMA PatientKept ==
    ASSUME PatienceSuffices, TypeOK, TypeOK', StatusIsCurrent, PatientInv, Next
    PROVE  PatientInv'
<1>1. PICK en \in BOOLEAN, own \in {"program", "stop"}, w \in Writes \cup {NoWrite} : Edge(w, en, own)
  BY Zenon DEF Next, Own
<1>2. SUFFICES ASSUME Relied' PROVE Requested' /\ (Idle' \/ Commanding')
  BY DEF PatientInv
<1>3. Relied
  BY <1>1, <1>2 DEF Relied, patient, Edge, Remember
<1>4. Requested /\ (Idle \/ Commanding)
  BY <1>3 DEF PatientInv
<1>5. Steady(w, en, own)
  BY <1>1, <1>2, <1>3, <1>4 DEF Steady
<1>6. CASE w \in Writes
  BY <1>4, <1>5, <1>6, RequestsWritten, WriteNext DEF Commanding
<1>7. CASE w = NoWrite
  <2>1. Steady(NoWrite, en, own)
    BY <1>5, <1>7
  <2>2. Requested'
    BY <2>1, RequestsGoOn
  <2>3. Idle => Idle'
    BY <2>1, IdleNext
  <2>4. /\ Taken => Chosen'
        /\ Chosen => Sent' \/ Turning'
        /\ Sent => Given'
        /\ Given => Given' \/ Fetching'
        /\ Fetching => Fetching' \/ Executing'
        /\ Executing => Executing' \/ Retired'
        /\ Retired => Answering'
        /\ Answering => Answering' \/ Turning'
    BY <2>1, TakenNext, ChosenNext, SentNext, GivenNext, FetchingNext, ExecutingNext, RetiredNext,
       AnsweringNext, Zenon
  <2>5. /\ Turning => Calling' \/ Idle'
        /\ Calling => Called'
        /\ Called => Starting'
        /\ Starting => Starting' \/ Started'
        /\ Started => Started' \/ InBuffer'
        /\ InBuffer => InBuffer' \/ AtEbreak'
        /\ AtEbreak => AtEbreak' \/ Ending'
        /\ Ending => Ending' \/ Idle'
    BY <2>1, TurningNext, CallingNext, CalledNext, StartingNext, StartedNext, InBufferNext,
       AtEbreakNext, EndingNext, Zenon
  <2> QED BY <1>4, <2>2, <2>3, <2>4, <2>5, Zenon DEF Commanding
<1> QED BY <1>6, <1>7

(* The situation of a patient host is always one of those above.           *)
THEOREM PatientAlways ==
    ASSUME PatienceSuffices PROVE Spec => []PatientInv
<1>1. Init => PatientInv
  BY PatientInitially
<1>2. TypeOK /\ TypeOK' /\ StatusIsCurrent /\ PatientInv /\ [Next]_vars => PatientInv'
  <2> SUFFICES ASSUME TypeOK, TypeOK', StatusIsCurrent, PatientInv, [Next]_vars PROVE PatientInv'
    OBVIOUS
  <2>1. CASE UNCHANGED vars
    BY <2>1 DEF vars, moduleVars, hartVars, pipeVars, histVars, PatientInv, Relied, patient,
       Requested, Idle, AtRest, Instructed, Unused, RunControl, Stopped, Ebbing, Resuming, Ticks, T, Lag,
       News, ToHart, Commanding, Taken, Chosen, Sent, Given, Fetching, Executing, Retired, Answering,
       Turning, Calling, Called, Starting, Started, InBuffer, AtEbreak, Ending, Parked, Fresh, Free,
       Lingers, Before, After, Transferring, Running
  <2>2. CASE Next
    BY <2>2, PatientKept
  <2> QED BY <2>1, <2>2
<1> QED BY <1>1, <1>2, TypeCorrect, StatusIsNeverStale, PTL DEF Spec

(* A host whose pause covers a command from end to end finds done what it   *)
(* asked for, whatever commands it gives in whatever order, and however the *)
(* RISC-V clock is gated within its bound.                                  *)
THEOREM CommandsAreDone ==
    ASSUME PatienceSuffices PROVE Spec => []DoneAsAsked
<1>1. TypeOK /\ PatientInv => DoneAsAsked
  <2> SUFFICES ASSUME TypeOK, PatientInv, patient, ~spoilt
               PROVE  /\ since = host.gap => data0 = want.data0 /\ (halted => reg = want.reg)
                      /\ cmderr # "busy"
    BY DEF DoneAsAsked
  <2>1. Requested /\ (Idle \/ Commanding) /\ Relied
    BY DEF PatientInv, Relied
  <2>2. since = host.gap => Idle
    BY <2>1, Punctual
  <2> QED BY <2>1, <2>2 DEF Idle, Requested
<1> QED BY <1>1, TypeCorrect, PatientAlways, PTL

(* Such a host's debug instructions only ever take the place of no          *)
(* instruction at all.                                                      *)
THEOREM ProgramIsUntouched ==
    ASSUME PatienceSuffices PROVE Spec => []ProgramUntouched
<1>1. PatientInv => ProgramUntouched
  <2> SUFFICES ASSUME PatientInv, patient, ~spoilt, fetch_debug PROVE fetch = "stopped"
    BY DEF ProgramUntouched
  <2>1. Idle \/ Commanding
    BY DEF PatientInv, Relied
  <2>2. ~Idle
    BY DEF Idle, Unused
  <2>3. Fetching
    BY <2>1, <2>2 DEF Commanding, Taken, Chosen, Sent, Given, Executing, Retired, Answering, Turning,
       Calling, Called, Starting, Started, InBuffer, AtEbreak, Ending, Fresh, Free, Running
  <2> QED BY <2>3 DEF Fetching, Transferring, Parked, Stopped
<1> QED BY <1>1, PatientAlways, PTL
=============================================================================
