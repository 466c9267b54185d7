----------------------------- MODULE DebugModule -----------------------------
(***************************************************************************)
(* The run-control half of the RISC-V debug module of the pulp SoC: the    *)
(* dmcontrol, abstractcs, command, abstractauto and data0 registers of     *)
(* dm_csrs.sv, the command FSM and the flags of dm_mem.sv, and the park    *)
(* loop of debug_rom.S that every halted hart executes.  ndmreset resets   *)
(* the harts, and nothing of the debug module.                             *)
(*                                                                         *)
(* All of it is clocked by clk: one ClkEdge carries at most one DMI        *)
(* request and at most one bus access of a hart, and computes every        *)
(* register from the values before the edge.                               *)
(***************************************************************************)
EXTENDS Naturals, FiniteSets

CONSTANTS
    Harts,     \* numbers of the harts; 0 is the hart selected after a reset
    Values,    \* contents of data0 and of the one general register modelled
    NoHart,    \* no hart: an edge without a bus access
    DmiGap,    \* clk edges that the crossing leaves between two DMI requests
    Controls   \* the dmcontrol values the debugger writes

Commands == {"none", "read", "write", "exec", "unsupported"}
ControlType == [haltreq : BOOLEAN, resumereq : BOOLEAN, ndmreset : BOOLEAN, dmactive : BOOLEAN,
                hartsel : Harts]

ASSUME ConstantsAssumption ==
    /\ Harts \subseteq Nat /\ 0 \in Harts /\ NoHart \notin Harts /\ 0 \in Values
    /\ DmiGap \in Nat
    /\ Controls \subseteq ControlType

VARIABLES
    dmcontrol_q, cmderr_q, command_q, cmd_valid_q,           \* dm_csrs
    autoexecdata, data_q,                                    \* dm_csrs
    state_q, halted_q, resuming_q,                           \* dm_mem
    pc, reg,        \* per hart: where it is in the debug ROM ("run" outside), its register
    gap,            \* clk edges before the next DMI request can arrive
    owed,           \* history, per hart: asked to resume while halted, and not left the ROM since
    wasReset        \* history, per hart: it was reset since it last reported that it is halted

csrVars  == <<dmcontrol_q, cmderr_q, command_q, cmd_valid_q, autoexecdata, data_q>>
memVars  == <<state_q, halted_q, resuming_q>>
hartVars == <<pc, reg>>
vars     == <<csrVars, memVars, hartVars, gap, owed, wasReset>>

hartsel == dmcontrol_q.hartsel
haltreq_UnlessResuming(h) == dmcontrol_q.haltreq /\ ~dmcontrol_q.resumereq /\ hartsel = h
haltreq(h)   == dmcontrol_q.haltreq /\ hartsel = h
resumereq(h) == dmcontrol_q.resumereq /\ hartsel = h
cmdbusy      == state_q # "Idle"

ResetControl ==
    [haltreq |-> FALSE, resumereq |-> FALSE, ndmreset |-> FALSE, dmactive |-> FALSE, hartsel |-> 0]

\* An edge without a DMI request.
NoReq  == [kind |-> "none"]
Requests ==
    {[kind |-> "control", val |-> c] : c \in Controls}
    \cup {[kind |-> "command", val |-> c] : c \in Commands}
    \cup {[kind |-> "data", val |-> v] : v \in Values}
    \cup {[kind |-> "auto", val |-> v] : v \in BOOLEAN}
    \cup {[kind |-> "abstractcs"], [kind |-> "readdata"]}

Init ==
    /\ dmcontrol_q = ResetControl /\ cmderr_q = "none" /\ command_q = "none"
    /\ cmd_valid_q \in BOOLEAN   \* the one register that the reset leaves as it was
    /\ autoexecdata = FALSE /\ data_q = 0
    /\ state_q = "Idle"
    /\ halted_q = [h \in Harts |-> FALSE] /\ resuming_q = [h \in Harts |-> FALSE]
    /\ pc = [h \in Harts |-> "run"] /\ reg = [h \in Harts |-> 0]
    /\ gap = 0 /\ owed = [h \in Harts |-> FALSE] /\ wasReset = [h \in Harts |-> FALSE]

-----------------------------------------------------------------------------
(* dm_mem: what hart a stores at this edge follows from its place in the ROM. *)

Stores(a, p) == a \in Harts /\ pc[a] = p

Resumable ==
    /\ dmcontrol_q.resumereq /\ ~dmcontrol_q.haltreq
    /\ halted_q[hartsel] /\ ~resuming_q[hartsel]

CommandDone_Level(a)   == halted_q[hartsel]
CommandDone_AnyHart(a) == Stores(a, "signal")
CommandDone(a)         == Stores(a, "signal") /\ a = hartsel

ResumeDone_AtOnce == TRUE
ResumeDone        == resuming_q[hartsel]

FsmNext_ResumeFirst(a) ==
    CASE state_q = "Idle" ->
             IF dmcontrol_q.resumereq THEN (IF Resumable THEN "Resume" ELSE "Idle")
             ELSE IF cmd_valid_q /\ halted_q[hartsel] THEN "Go" ELSE "Idle"
      [] state_q = "Go" -> IF Stores(a, "going") THEN "CmdExecuting" ELSE "Go"
      [] state_q = "Resume" -> IF ResumeDone THEN "Idle" ELSE "Resume"
      [] state_q = "CmdExecuting" -> IF CommandDone(a) THEN "Idle" ELSE "CmdExecuting"

FsmNext(a) ==
    CASE state_q = "Idle" ->
             IF Resumable THEN "Resume"
             ELSE IF cmd_valid_q /\ halted_q[hartsel] THEN "Go" ELSE "Idle"
      [] state_q = "Go" -> IF Stores(a, "going") THEN "CmdExecuting" ELSE "Go"
      [] state_q = "Resume" -> IF ResumeDone THEN "Idle" ELSE "Resume"
      [] state_q = "CmdExecuting" -> IF CommandDone(a) THEN "Idle" ELSE "CmdExecuting"

\* The error the command FSM or the hart raises, "none" if there is none.
CmdError_OfHartOnly(a) ==
    IF Stores(a, "exception") THEN "exception"
    ELSE IF cmd_valid_q /\ command_q = "unsupported" THEN "notsupported" ELSE "none"

CmdError(a) ==
    IF Stores(a, "exception") THEN "exception"
    ELSE IF cmd_valid_q /\ command_q = "unsupported" THEN "notsupported"
    ELSE IF cmd_valid_q /\ ~cmdbusy /\ ~halted_q[hartsel] THEN "haltresume"
    ELSE "none"

DataStore(a) == Stores(a, "exec") /\ command_q = "read"

HaltedNext_Sticky(a) == [h \in Harts |-> halted_q[h] \/ (a = h /\ Stores(a, "signal"))]

HaltedNext(a) ==
    [h \in Harts |->
        IF a = h /\ Stores(a, "signal") THEN TRUE
        ELSE IF a = h /\ Stores(a, "resuming") THEN FALSE ELSE halted_q[h]]

ResumingNext_Sticky(a, clear_resumeack) ==
    [h \in Harts |-> (a = h /\ Stores(a, "resuming")) \/ resuming_q[h]]

ResumingNext(a, clear_resumeack) ==
    [h \in Harts |->
        IF a = h /\ Stores(a, "resuming") THEN TRUE
        ELSE resuming_q[h] /\ ~(clear_resumeack /\ h = hartsel)]

MemEdge_ResetByDmactive(a, clear_resumeack) ==
    /\ state_q' = IF dmcontrol_q.dmactive THEN FsmNext(a) ELSE "Idle"
    /\ halted_q' = HaltedNext(a)
    /\ resuming_q' = ResumingNext(a, clear_resumeack)

\* Registers of their own: dmactive resets none of them.
MemEdge(a, clear_resumeack) ==
    /\ state_q' = FsmNext(a)
    /\ halted_q' = HaltedNext(a)
    /\ resuming_q' = ResumingNext(a, clear_resumeack)

-----------------------------------------------------------------------------
(* dm_csrs: the request of the debugger, then what the hart reports. *)

Written(req) == IF req.kind = "control" THEN req.val ELSE dmcontrol_q

\* resumeack_i is a vector: the acknowledgement of any hart ends the request.
ControlNext(req) ==
    [Written(req) EXCEPT !.resumereq =
        @ /\ ~(dmcontrol_q.resumereq /\ \E h \in Harts : resuming_q[h])]

\* What the debugger asks, whether the register shows a rise or not.
AsksResume(req, h) == req.kind = "control" /\ req.val.resumereq /\ req.val.hartsel = h

ClearResumeack_OnFall(req) == dmcontrol_q.resumereq /\ ~Written(req).resumereq

ClearResumeack(req) == ~dmcontrol_q.resumereq /\ Written(req).resumereq

RequestError(req) ==
    IF req.kind \in {"command", "abstractcs", "auto"} /\ cmdbusy
    THEN IF cmderr_q = "none" THEN "busy" ELSE cmderr_q
    ELSE IF req.kind = "abstractcs" THEN "none" ELSE cmderr_q

Inactive(req) ==
    /\ dmcontrol_q' = [ResetControl EXCEPT !.dmactive = Written(req).dmactive]
    /\ cmderr_q' = "none" /\ command_q' = "none" /\ cmd_valid_q' = FALSE
    /\ autoexecdata' = FALSE /\ data_q' = 0

DataNext_WhileBusy(req, a) ==
    IF DataStore(a) THEN reg[a] ELSE IF req.kind = "data" THEN req.val ELSE data_q

DataNext(req, a) ==
    IF DataStore(a) THEN reg[a]
    ELSE IF req.kind = "data" /\ ~cmdbusy THEN req.val ELSE data_q

\* A command is started by a write of it or, with autoexecdata, by any access to data0.
Starts(req) ==
    ~cmdbusy /\ (req.kind = "command" \/ (req.kind \in {"data", "readdata"} /\ autoexecdata))

Active(req, a) ==
    /\ dmcontrol_q' = ControlNext(req)
    /\ cmderr_q' = IF CmdError(a) # "none" THEN CmdError(a) ELSE RequestError(req)
    /\ cmd_valid_q' = Starts(req)
    /\ autoexecdata' = IF req.kind = "auto" /\ ~cmdbusy THEN req.val ELSE autoexecdata
    /\ command_q' = IF req.kind = "command" /\ ~cmdbusy THEN req.val ELSE command_q
    /\ data_q' = DataNext(req, a)

CsrEdge(req, a) == IF dmcontrol_q.dmactive THEN Active(req, a) ELSE Inactive(req)

-----------------------------------------------------------------------------
(* A hart in the ROM: debug_rom.S, one bus access at a time.               *)

\* The abstract command as the hart executes it: its last step, and its register.
\* The program buffer holds any program: it may change the register or trap.
ExecTo(a) ==
    CASE command_q = "none" -> {"exception"}
      [] command_q = "exec" -> {"signal", "exception"}
      [] OTHER -> {"signal"}

ExecReg(a) ==
    CASE command_q = "write" -> {data_q}
      [] command_q = "exec" -> Values
      [] OTHER -> {reg[a]}

GoFlag(a)     == state_q = "Go" /\ hartsel = a
ResumeFlag_OfRequest(a) == resumereq(a)
ResumeFlag(a) == state_q = "Resume" /\ hartsel = a

\* Where the access takes the hart; "lost" if WhereTo holds no jump for it.
NextPcs(a) ==
    CASE pc[a] = "signal"     -> {"pollGo"}
      [] pc[a] = "pollGo"     -> {IF GoFlag(a) THEN "going" ELSE "pollResume"}
      [] pc[a] = "pollResume" -> {IF ResumeFlag(a) THEN "resuming" ELSE "signal"}
      [] pc[a] = "going"      -> {"whereto"}
      [] pc[a] = "whereto"    -> {IF cmdbusy THEN "exec"
                                  ELSE IF resumereq(a) THEN "resuming" ELSE "lost"}
      [] pc[a] = "exec"       -> ExecTo(a)
      [] pc[a] = "exception"  -> {"signal"}
      [] pc[a] = "resuming"   -> {"run"}

\* A hart that is reset starts its program anew; its register will hold what
\* that leaves in it.
HartEdge(a) ==
    /\ a # NoHart => pc[a] \notin {"run", "lost"}
    /\ IF dmcontrol_q'.ndmreset THEN pc' = [h \in Harts |-> "run"] /\ UNCHANGED reg
       ELSE IF a = NoHart THEN UNCHANGED hartVars
       ELSE
         /\ \E p \in NextPcs(a) : pc' = [pc EXCEPT ![a] = p]
         /\ \E v \in (IF pc[a] = "exec" THEN ExecReg(a) ELSE {reg[a]}) :
                reg' = [reg EXCEPT ![a] = v]

\* A running hart enters the ROM, for a halt request or a breakpoint of its
\* own, with whatever its program has left in the register.
EnterDebug(h) ==
    /\ pc[h] = "run" /\ ~dmcontrol_q.ndmreset
    /\ pc' = [pc EXCEPT ![h] = "signal"]
    /\ \E v \in Values : reg' = [reg EXCEPT ![h] = v]
    /\ UNCHANGED <<csrVars, memVars, gap, owed, wasReset>>

-----------------------------------------------------------------------------
(* The debugger does not select another hart, directly or by deactivating  *)
(* the module, while the selected one has something under way, nor in the  *)
(* write that asks for a resume.  (With one hart the rule is void.)        *)
Selects(req) == {Written(req).hartsel} \cup (IF Written(req).dmactive THEN {} ELSE {0})

HostRule(req) ==
    Selects(req) # {hartsel} =>
        ~cmdbusy /\ ~cmd_valid_q /\ ~dmcontrol_q.resumereq /\ ~Written(req).resumereq

ClkEdge(req, a) ==
    /\ req # NoReq => gap = 0 /\ HostRule(req)
    /\ gap' = IF req # NoReq THEN DmiGap ELSE IF gap > 0 THEN gap - 1 ELSE 0
    /\ CsrEdge(req, a)
    /\ MemEdge(a, ClearResumeack(req))
    /\ HartEdge(a)
    /\ owed' = [h \in Harts |-> pc'[h] # "run" /\ (owed[h] \/ (AsksResume(req, h) /\ halted_q[h]))]
    /\ wasReset' = [h \in Harts |->
           dmcontrol_q'.ndmreset \/ (wasReset[h] /\ ~(Stores(a, "signal") /\ a = h))]

Tick        == ClkEdge(NoReq, NoHart)
HartStep(h) == \E req \in Requests \cup {NoReq} : ClkEdge(req, h)
HostStep    == \E req \in Requests : ClkEdge(req, NoHart)

Next == Tick \/ HostStep \/ \E h \in Harts : HartStep(h) \/ EnterDebug(h)

Spec == Init /\ [][Next]_vars

(* The clock runs, a hart in the ROM keeps executing, and a running hart   *)
(* takes a debug interrupt that stays raised.  Nothing is assumed of the   *)
(* debugger.                                                               *)
Fairness ==
    /\ WF_vars(Tick)
    /\ \A h \in Harts : WF_vars(HartStep(h)) /\ WF_vars(haltreq(h) /\ EnterDebug(h))

FairSpec == Spec /\ Fairness
-----------------------------------------------------------------------------
TypeOK ==
    /\ dmcontrol_q \in ControlType
    /\ cmderr_q \in {"none", "busy", "notsupported", "exception", "haltresume"}
    /\ command_q \in Commands /\ cmd_valid_q \in BOOLEAN /\ autoexecdata \in BOOLEAN
    /\ data_q \in Values
    /\ state_q \in {"Idle", "Go", "Resume", "CmdExecuting"}
    /\ halted_q \in [Harts -> BOOLEAN] /\ resuming_q \in [Harts -> BOOLEAN]
    /\ pc \in [Harts -> {"run", "signal", "pollGo", "pollResume", "going", "whereto", "exec",
                          "exception", "resuming"}]
    /\ reg \in [Harts -> Values]
    /\ gap \in 0 .. DmiGap /\ owed \in [Harts -> BOOLEAN] /\ wasReset \in [Harts -> BOOLEAN]

(* The debugger is never told that a running hart is halted, but for a     *)
(* hart that was reset: dm_mem then keeps the flag of its last halt.       *)
HaltedIsParked == \A h \in Harts : halted_q[h] /\ ~wasReset[h] => pc[h] # "run"

(* While a hart works on a command the module is busy with it, so that the *)
(* debugger can neither disturb the command nor mistake it for finished.   *)
InCommand == {"going", "whereto", "exec", "exception"}
BusyWhileExecuting == \A h \in Harts : pc[h] \in InCommand => cmdbusy /\ hartsel = h

(* A finished register command has moved the value it was asked to move,   *)
(* unless its hart was reset meanwhile: halted again, it ends the command. *)
CommandEffect ==
    [][state_q = "CmdExecuting" /\ state_q' = "Idle" /\ command_q \in {"read", "write"}
       /\ ~wasReset[hartsel]
          => data_q = reg[hartsel]]_vars

(* No acknowledgement is left over from an earlier resume: a halted hart   *)
(* that the debugger has asked to go on is not reported as resumed before  *)
(* it has left the ROM, whichever of its requests asked.                   *)
ResumeAckIsFresh == \A h \in Harts : resuming_q[h] => ~owed[h]

(* A command the module took is executed or leaves an error behind, unless *)
(* a resume took its place in the FSM: a requested resume that the hart    *)
(* cannot follow, or has followed already, costs no command.               *)
NoCommandLost ==
    [][cmd_valid_q /\ ~cmd_valid_q' /\ dmcontrol_q.dmactive
          => state_q' = "Go" \/ cmderr_q' # "none" \/ "Resume" \in {state_q, state_q'}]_vars

(* "No abstract command is started until the value [of cmderr] is reset    *)
(* to 0", dm_csrs.sv lines 336-339.                                        *)
NoStartAfterError == [][state_q = "Idle" /\ state_q' = "Go" => cmderr_q = "none"]_vars

(* "The resume ack signal is lowered when the resume request is            *)
(* deasserted", dm_mem.sv line 199.                                        *)
ResumeAckFollowsRequest ==
    [][dmcontrol_q.resumereq /\ ~dmcontrol_q.resumereq' => ~resuming_q'[hartsel]]_vars

\* The selected hart was reset and has not been halted since.
Reborn == wasReset[hartsel] /\ pc[hartsel] = "run"

(* Every command finishes; one cut off by a reset when the hart halts.     *)
CommandFinishes == cmdbusy ~> (~cmdbusy \/ Reborn)

(* A halt request that stays raised halts the hart, a reset one too.       *)
HaltTaken ==
    dmcontrol_q.haltreq /\ ~dmcontrol_q.ndmreset
        ~> ((halted_q[hartsel] /\ ~wasReset[hartsel]) \/ ~dmcontrol_q.haltreq \/ dmcontrol_q.ndmreset)

(* A resume request for a halted hart that is neither withdrawn nor        *)
(* overruled by a halt request is acknowledged.                            *)
ResumeTaken ==
    dmcontrol_q.resumereq /\ halted_q[hartsel]
        ~> (resuming_q[hartsel] \/ ~dmcontrol_q.resumereq \/ dmcontrol_q.haltreq \/ Reborn)
=============================================================================
