------------------------------ MODULE ReveDebug ------------------------------
(***************************************************************************)
(* The older debug module of reve/riscv_i32_debug.v and the hart it talks  *)
(* to: the control half of the hart, the fetch state machine of            *)
(* riscv_i32_pipeline_control.v, and as much of the pipeline as a debug    *)
(* instruction meets.  The module tells a hart what to do by a message of  *)
(* one edge; the hart answers an edge later with its state.  A hart with   *)
(* news raises attention and is polled.  The host writes the registers of  *)
(* the module; whether it may rely on time alone is the question.          *)
(*                                                                         *)
(* Everything runs on one clock, so a step is an edge.  The RISC-V clock   *)
(* is that clock gated by riscv_clk_enable: it ticks at edges with en.     *)
(*                                                                         *)
(* A definition named D_X is D with the fault X; it is not used.           *)
(***************************************************************************)
EXTENDS Naturals

CONSTANTS Values,     \* contents of a register; as a program word v writes v
          LastSlot,   \* harts that can be selected: 0..LastSlot, 63 in the code
          Hosts,      \* gap: edges between two writes; stalls: edges in a row without
                      \* a tick of the RISC-V clock (bound); harts: those it selects;
                      \* words: those it writes
          Patience    \* a host with this gap is a patient one

ASSUME ReveDebugAssumption ==
    /\ LastSlot \in Nat /\ Patience \in Nat
    /\ Hosts \subseteq [gap : Nat \ {0}, stalls : Nat, harts : SUBSET (0..LastSlot), words : SUBSET Values]

VARIABLES
    dmactive, hart_sel, requests, must_set_requests, data0, progbuf0,
    busy, cmderr, command, fsm_state,       \* debug_state of the module
    halted_seen, resumed_seen,              \* what it knows of hart 0
    mst, hart_to_poll,
    asked, attention, debug, hart_data0,    \* debug_state__control of the hart
    waiting_for_read_write, read_write_completed, exec_progbuf_req,
    resumed, halted, control, response,
    fetch, fetch_halt_req, fetch_debug,     \* ifetch_state
    exec, rfw, reg, irq,                    \* the pipeline, one register, the timer
    host,             \* who writes
    since, stalled,   \* edges since the last write; edges without a tick
    want,             \* history: what the commands accepted so far should have done
    spoilt            \* history: an interrupt was pending in debug mode

moduleVars == <<dmactive, hart_sel, requests, must_set_requests, data0, progbuf0, busy, cmderr,
                command, fsm_state, halted_seen, resumed_seen, mst, hart_to_poll>>
hartVars == <<asked, attention, debug, hart_data0, waiting_for_read_write, read_write_completed,
              exec_progbuf_req, resumed, halted, control, response>>
pipeVars == <<fetch, fetch_halt_req, fetch_debug, exec, rfw, reg, irq>>
histVars == <<host, since, stalled, want, spoilt>>
vars == <<moduleVars, hartVars, pipeVars, histVars>>

Slots == 0..LastSlot      \* only hart 0 exists
Junk == "junk"            \* what the hart's own program computes
Words == Values \cup {Junk}
NoRequests == [halt |-> FALSE, resume |-> FALSE]
NoCommand == [transfer |-> "none", exec |-> FALSE]
Nothing == [op |-> "none", select |-> 0, requests |-> NoRequests, data |-> Junk]
NoInstruction == [op |-> "none", data |-> Junk]

Init ==
    /\ dmactive = FALSE /\ hart_sel = 0 /\ requests = NoRequests /\ must_set_requests = FALSE
    /\ data0 = Junk /\ progbuf0 = Junk /\ hart_data0 = Junk /\ reg = Junk
    /\ busy = FALSE /\ cmderr = "none" /\ command = NoCommand /\ fsm_state = "idle"
    /\ halted_seen = FALSE /\ resumed_seen = FALSE
    /\ mst = Nothing /\ hart_to_poll = 0
    /\ asked = NoRequests /\ attention = TRUE /\ debug = [valid |-> FALSE, op |-> "read"]
    /\ waiting_for_read_write = FALSE /\ read_write_completed = FALSE /\ exec_progbuf_req = FALSE
    /\ resumed = FALSE /\ halted = TRUE /\ control = "halted" /\ response = FALSE
    /\ fetch = "stopped" /\ fetch_halt_req = FALSE /\ fetch_debug = FALSE
    /\ exec = NoInstruction /\ rfw = NoInstruction /\ irq = FALSE
    /\ host \in Hosts /\ since = 0 /\ stalled = 0
    /\ want = [reg |-> reg, data0 |-> data0] /\ spoilt = FALSE

-----------------------------------------------------------------------------
(* The debug module: a write of the host, if there is one at this edge.    *)

NoWrite == [to |-> "none"]
Writes ==
    [to : {"dmcontrol"}, active : BOOLEAN, sel : host.harts,
        ask : [halt : BOOLEAN, resume : BOOLEAN] \ {[halt |-> TRUE, resume |-> TRUE]}]
    \cup [to : {"data0", "progbuf0"}, data : host.words]
    \cup [to : {"abstractcs", "unsupported"}]
    \cup [to : {"command"}, transfer : {"none", "read", "write"}, exec : BOOLEAN]

SelectedIsHalted == hart_sel = 0 /\ halted_seen

Accepts_Unchecked(w) == w.to = "command" /\ cmderr = "none" /\ ~busy
Accepts(w) == w.to = "command" /\ cmderr = "none" /\ ~busy /\ SelectedIsHalted

Control(w) ==
    LET here == w.to = "dmcontrol" IN
    /\ dmactive' = IF here THEN w.active ELSE dmactive
    /\ hart_sel' = IF here THEN w.sel ELSE hart_sel
    /\ requests' = IF here THEN w.ask ELSE requests
    /\ must_set_requests' = here

CmdErr(w) ==
    cmderr' =
        IF ~dmactive THEN "none"
        ELSE IF w.to = "abstractcs" THEN IF busy THEN "busy" ELSE "none"
        ELSE IF w.to \notin {"command", "unsupported"} \/ cmderr # "none" \/ Accepts(w) THEN cmderr
        ELSE IF busy THEN "busy"
        ELSE IF ~SelectedIsHalted THEN "haltresume"
        ELSE "notsupported"

-----------------------------------------------------------------------------
(* The messages to the harts, in their order of precedence.                *)

InitiatesTransfer == ~must_set_requests /\ fsm_state = "transfer" /\ command.transfer # "none"
InitiatesExecute == ~must_set_requests /\ fsm_state = "execute" /\ command.exec

NextToPoll == IF hart_to_poll = 0 THEN LastSlot ELSE hart_to_poll - 1

ToSelected(op, asks, data) ==
    /\ mst' = [op |-> op, select |-> hart_sel, requests |-> asks, data |-> data]
    /\ hart_to_poll' = hart_sel

Drive ==
    IF must_set_requests THEN ToSelected("requests", requests, Junk)
    ELSE IF InitiatesTransfer THEN ToSelected(command.transfer, NoRequests, data0)
    ELSE IF InitiatesExecute THEN ToSelected("exec", NoRequests, progbuf0)
    ELSE IF attention THEN
        /\ mst' = [op |-> "poll", select |-> hart_to_poll, requests |-> NoRequests, data |-> Junk]
        /\ hart_to_poll' = NextToPoll
    ELSE mst' = Nothing /\ UNCHANGED hart_to_poll

\* The hart's answer, sent at the edge before.
TransferCompletes_AnyAnswer == response
TransferCompletes == response /\ read_write_completed

LearnStatus ==
    /\ halted_seen' = (dmactive /\ IF response THEN halted ELSE halted_seen)
    /\ resumed_seen' = (dmactive /\ IF response THEN resumed ELSE resumed_seen)

\* The command state machine.  From "executing" it ends at once: nobody tells it when
\* the program buffer is done.
Ended_WhenAnswered == \/ fsm_state = "execute" /\ ~command.exec
                      \/ fsm_state = "executing" /\ TransferCompletes
Ended == \/ fsm_state = "execute" /\ ~command.exec
         \/ fsm_state = "executing"

Command(w) ==
    /\ command' = IF Accepts(w) THEN [transfer |-> w.transfer, exec |-> w.exec]
                  ELSE IF Ended THEN NoCommand ELSE command    \* it is not read any more
    /\ busy' = (dmactive /\ (Accepts(w) \/ (busy /\ ~Ended)))
    /\ fsm_state' =
           IF ~dmactive \/ Ended THEN "idle"
           ELSE IF fsm_state = "idle" /\ busy THEN "transfer"
           ELSE IF InitiatesTransfer THEN "transferring"
           ELSE IF fsm_state = "transfer" /\ command.transfer = "none" THEN "execute"
           ELSE IF fsm_state = "transferring" /\ TransferCompletes THEN "execute"
           ELSE IF InitiatesExecute THEN "executing"
           ELSE fsm_state
    /\ data0' = IF fsm_state = "transferring" /\ TransferCompletes THEN hart_data0
                ELSE IF w.to = "data0" THEN w.data ELSE data0
    /\ progbuf0' = IF w.to = "progbuf0" THEN w.data ELSE progbuf0

Module(w) == Control(w) /\ CmdErr(w) /\ Drive /\ LearnStatus /\ Command(w)

-----------------------------------------------------------------------------
(* The control half of the hart.  Where several lines assign a register at *)
(* one edge the last one counts.                                           *)

Told(op) == mst.op = op /\ mst.select = 0
Transfer == Told("read") \/ Told("write")
Stopped == fetch = "stopped"
Answered == rfw.op # "none" /\ waiting_for_read_write   \* an instruction retired

Stops(en) == control = "halting" /\ en /\ Stopped
Departs(en) == control = "resuming" /\ en /\ ~Stopped
StepsBack == resumed /\ ~asked.resume
Starts == control = "halted" /\ exec_progbuf_req

ProgbufAsked_Kept == Told("exec") \/ exec_progbuf_req
ProgbufAsked == ~Starts /\ (Told("exec") \/ exec_progbuf_req)

Obey(en) ==
    /\ asked' = IF Told("requests") THEN mst.requests ELSE asked
    /\ debug' = [valid |-> Transfer \/ (debug.valid /\ ~en),
                 op |-> IF Transfer THEN mst.op ELSE debug.op]
    /\ hart_data0' = IF Answered THEN rfw.data
                     ELSE IF Transfer \/ Told("exec") THEN mst.data ELSE hart_data0
    /\ waiting_for_read_write' = (~Answered /\ (Transfer \/ waiting_for_read_write))
    /\ read_write_completed' =
           IF read_write_completed /\ response THEN FALSE ELSE read_write_completed \/ Answered
    /\ exec_progbuf_req' = ProgbufAsked

Attention_QuietResume(en) ==
    attention' = \/ Answered \/ Stops(en) \/ Departs(en)
                 \/ attention /\ ~(mst.op # "none" /\ mst.select = 0)
Attention_QuietHalt(en) ==
    attention' = \/ Answered \/ StepsBack \/ Departs(en)
                 \/ attention /\ ~(mst.op # "none" /\ mst.select = 0)
Attention(en) ==
    attention' = \/ Answered \/ StepsBack \/ Stops(en) \/ Departs(en)
                 \/ attention /\ ~(mst.op # "none" /\ mst.select = 0)

HartControl(en) ==
    /\ resumed' = (Departs(en) \/ (resumed /\ asked.resume))
    /\ halted' = ((halted \/ Stops(en)) /\ ~Departs(en))
    /\ control' =
           CASE control = "running" /\ (asked.halt \/ (Stopped /\ en)) -> "halting"
             [] Stops(en) -> "halted"
             [] Starts -> "starting"
             [] control = "halted" /\ ~Starts /\ asked.resume /\ ~resumed -> "resuming"
             [] control = "starting" /\ ~Stopped /\ en -> "executing"
             [] control = "executing" /\ Stopped /\ en -> "halted"
             [] Departs(en) -> "running"
             [] OTHER -> control
    /\ response' = (mst.op # "none" /\ mst.select = 0)

Hart(en) == Obey(en) /\ Attention(en) /\ HartControl(en)

-----------------------------------------------------------------------------
(* The pipeline, at a tick of the RISC-V clock.  A pending interrupt or a  *)
(* request to halt throws away what is executed; debug mode does not mask  *)
(* interrupts.  own is the next instruction of the hart's program, "stop"  *)
(* being an ebreak that enters debug mode.                                 *)

Interrupted == irq \/ fetch_halt_req
Ebreak == ~Interrupted /\ exec.op \in {"ebreak", "stop"}

Fetched(own) ==
    IF fetch_debug THEN [op |-> debug.op, data |-> hart_data0]
    ELSE IF fetch = "buffer" THEN [op |-> "word", data |-> hart_data0]
    ELSE IF fetch = "ebreak" THEN [op |-> "ebreak", data |-> Junk]
    ELSE IF fetch = "program" THEN [op |-> own, data |-> Junk]
    ELSE NoInstruction

Fetch ==
    /\ fetch_debug' = debug.valid
    /\ fetch' =
           IF Stopped THEN IF control = "resuming" THEN "program"
                           ELSE IF control = "starting" THEN "buffer" ELSE "stopped"
           ELSE IF Interrupted /\ (fetch_halt_req \/ fetch # "program") THEN "stopped"
           ELSE IF Ebreak THEN "stopped"
           ELSE IF fetch = "buffer" THEN "ebreak" ELSE fetch
    /\ fetch_halt_req' = (~Stopped /\ control = "halting"
                          /\ ~(Interrupted /\ (fetch_halt_req \/ fetch # "program")))

Execute(own) ==
    /\ exec' = IF (Interrupted \/ Ebreak) /\ ~fetch_debug THEN NoInstruction ELSE Fetched(own)
    /\ rfw' = IF Interrupted THEN NoInstruction
              ELSE IF exec.op = "read" THEN [exec EXCEPT !.data = reg] ELSE exec
    /\ reg' = IF Interrupted \/ exec.op \in {"none", "read", "ebreak", "stop"} THEN reg ELSE exec.data

Pipeline(en, own) ==
    IF en THEN Fetch /\ Execute(own)
    ELSE UNCHANGED <<fetch, fetch_debug, fetch_halt_req, exec, rfw, reg>>

\* The timer may fire at any time; the program, interrupted or not, may quiet it.
Timer(en) ==
    IF fetch = "program" THEN irq' = (irq /\ ~en) ELSE irq' \in {irq, TRUE}

-----------------------------------------------------------------------------
patient == host.gap >= Patience

Remember(w, en) ==
    /\ want' =
           LET after == IF w.transfer = "write" THEN data0 ELSE want.reg IN
           IF ~patient THEN want
           ELSE IF Accepts(w) THEN
               [reg |-> IF w.exec THEN progbuf0 ELSE after,
                data0 |-> IF w.transfer = "read" THEN want.reg ELSE want.data0]
           ELSE IF w.to = "data0" THEN [want EXCEPT !.data0 = w.data]
           ELSE IF en /\ ~Interrupted /\ exec.op = "program" THEN [want EXCEPT !.reg = Junk]
           ELSE want
    /\ spoilt' = (spoilt \/ (irq /\ fetch # "program"))
    /\ stalled' = IF en THEN 0 ELSE stalled + 1
    /\ since' = IF w # NoWrite THEN 0 ELSE IF since < host.gap THEN since + 1 ELSE since

\* Like ReveOCD a host withdraws a request before it does anything else.
Withdraws(w) == requests # NoRequests => w.to = "dmcontrol" /\ w.ask = NoRequests

Edge(w, en, own) ==
    /\ w # NoWrite => since = host.gap /\ Withdraws(w) /\ ~spoilt
    /\ en \/ stalled < host.stalls
    /\ Module(w) /\ Hart(en) /\ Pipeline(en, own) /\ Timer(en) /\ Remember(w, en)
    /\ UNCHANGED host

\* What the hart may execute next of its program, if it runs.
Own == IF fetch = "program" THEN {"program", "stop"} ELSE {"program"}

Next == \E en \in BOOLEAN, own \in Own :
           \/ Edge(NoWrite, en, own)
           \/ \E w \in Writes : Edge(w, en, own)

Spec == Init /\ [][Next]_vars

\* The edges go on.  Writes and stalls leave edges without either; the timer need not fire
\* and the hart's program need not stop.
Tick == Edge(NoWrite, TRUE, "program") /\ (irq' => irq)
FairSpec == Spec /\ WF_vars(Tick)

-----------------------------------------------------------------------------
ModuleTypeOK ==
    /\ dmactive \in BOOLEAN /\ must_set_requests \in BOOLEAN /\ busy \in BOOLEAN
    /\ halted_seen \in BOOLEAN /\ resumed_seen \in BOOLEAN
    /\ hart_sel \in Slots /\ hart_to_poll \in Slots
    /\ requests \in [halt : BOOLEAN, resume : BOOLEAN]
    /\ data0 \in Words /\ progbuf0 \in Words
    /\ command \in [transfer : {"none", "read", "write"}, exec : BOOLEAN]
    /\ fsm_state \in {"idle", "transfer", "transferring", "execute", "executing"}
    /\ cmderr \in {"none", "busy", "notsupported", "haltresume"}
    /\ mst \in [op : {"none", "requests", "read", "write", "exec", "poll"}, select : Slots,
                requests : [halt : BOOLEAN, resume : BOOLEAN], data : Words]

HartTypeOK ==
    /\ asked \in [halt : BOOLEAN, resume : BOOLEAN]
    /\ attention \in BOOLEAN /\ response \in BOOLEAN
    /\ waiting_for_read_write \in BOOLEAN /\ read_write_completed \in BOOLEAN
    /\ exec_progbuf_req \in BOOLEAN /\ resumed \in BOOLEAN /\ halted \in BOOLEAN
    /\ debug \in [valid : BOOLEAN, op : {"read", "write"}] /\ hart_data0 \in Words
    /\ control \in {"running", "halting", "halted", "resuming", "starting", "executing"}

Instructions == [op : {"none", "read", "write", "word", "ebreak", "program", "stop"}, data : Words]
PipeTypeOK ==
    /\ fetch \in {"stopped", "program", "buffer", "ebreak"}
    /\ fetch_halt_req \in BOOLEAN /\ fetch_debug \in BOOLEAN /\ irq \in BOOLEAN
    /\ exec \in Instructions /\ rfw \in Instructions /\ reg \in Words

HistTypeOK ==
    /\ host \in Hosts /\ since \in 0..host.gap /\ stalled \in 0..host.stalls
    /\ want \in [reg : Words, data0 : Words] /\ spoilt \in BOOLEAN

TypeOK == ModuleTypeOK /\ HartTypeOK /\ PipeTypeOK /\ HistTypeOK

(* What the module reports of the hart it has selected (next_halted and     *)
(* next_resumed, by polling) is what the hart is, or a message or an answer *)
(* on its way will correct it: for every host.                              *)
NewsOnTheWay == \/ must_set_requests \/ attention \/ response
                \/ mst.op # "none" /\ mst.select = 0
StatusIsCurrent ==
    dmactive /\ hart_sel = 0 /\ ~NewsOnTheWay => halted_seen = halted /\ resumed_seen = resumed

(* A host that relies on time, as writereg and readreg of ReveOCD do, finds  *)
(* done what it asked for: the register holds what was written last, data0  *)
(* what was read last, and no command was refused for another still under   *)
(* way.  Its pause must cover the program buffer, which busy does not.      *)
DoneAsAsked ==
    patient /\ ~spoilt =>
        /\ since = host.gap => data0 = want.data0 /\ (halted => reg = want.reg)
        /\ cmderr # "busy"

(* A debug instruction of such a host, which the pipeline takes in the      *)
(* place of what it fetches, never takes the place of one of the hart's     *)
(* program or of the program buffer.                                        *)
ProgramUntouched == patient /\ ~spoilt /\ fetch_debug => fetch = "stopped"

(* Every command of the state machine ends, unless an interrupt in debug    *)
(* mode has flushed its debug instruction, which nobody then answers.       *)
CommandFinishes == busy ~> ~busy \/ spoilt

(* A patient host's request to halt is obeyed before it is withdrawn, and   *)
(* the module learns so, even if the program stops by itself meanwhile.     *)
HaltTaken ==
    (patient /\ must_set_requests /\ requests.halt /\ hart_sel = 0)
        ~> (halted_seen \/ ~dmactive \/ hart_sel # 0)

(* So is its request to resume a halted hart: its program runs, whatever    *)
(* commands were given before.                                              *)
ResumeTaken ==
    (patient /\ must_set_requests /\ requests.resume /\ hart_sel = 0 /\ control = "halted" /\ ~resumed)
        ~> fetch = "program"
=============================================================================
