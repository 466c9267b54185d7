-------------------------- MODULE DebugModule_proofs --------------------------
(***************************************************************************)
(* Proofs about the run control of DebugModule, for any set of harts, any  *)
(* set of register contents and any pace of the debugger.                  *)
(***************************************************************************)
EXTENDS DebugModule, TLAPS

(* A hart works on a command only while the FSM waits for that very hart:  *)
(* in Go until the hart has stored its going flag, in CmdExecuting after.  *)
CommandOwner ==
    \A h \in Harts :
        /\ pc[h] = "going" => state_q = "Go" /\ hartsel = h
        /\ pc[h] \in {"whereto", "exec", "exception"} => state_q = "CmdExecuting" /\ hartsel = h

(* A deactivated module that still selects another hart than hart 0 is     *)
(* about to select hart 0, and has nothing under way for the other.        *)
DeselectIsQuiet ==
    ~dmcontrol_q.dmactive /\ hartsel # 0 =>
        state_q = "Idle" /\ ~cmd_valid_q /\ ~dmcontrol_q.resumereq

(* A resume request raised for a hart lowers the acknowledgement it finds, *)
(* and one that has been acknowledged falls before the hart can halt again.*)
AckBeforeHalt == \A h \in Harts : resumereq(h) /\ resuming_q[h] => ~halted_q[h]

RunControlInv ==
    /\ TypeOK /\ CommandOwner /\ DeselectIsQuiet
    /\ HaltedIsParked /\ AckBeforeHalt /\ ResumeAckIsFresh

(* The dmcontrol value a request leaves behind is a dmcontrol value. *)
LEMMA WrittenType ==
    ASSUME TypeOK, NEW req \in Requests \cup {NoReq}
    PROVE  Written(req) \in ControlType
PROOF BY ConstantsAssumption DEF TypeOK, Requests, NoReq, Written

(* A request that lowers an acknowledgement is for the selected hart. *)
LEMMA ClearsSelected ==
    ASSUME NEW req, req # NoReq => HostRule(req), NoReq = req => Written(req) = dmcontrol_q,
           ClearResumeack(req)
    PROVE  Written(req).hartsel = hartsel
PROOF BY DEF HostRule, Selects, ClearResumeack

(* The hart selected after an edge is the one selected before, or nothing  *)
(* was under way for the latter.                                           *)
LEMMA SelectionIsQuiet ==
    ASSUME TypeOK, DeselectIsQuiet,
           NEW req \in Requests \cup {NoReq}, NEW a \in Harts \cup {NoHart}, ClkEdge(req, a)
    PROVE  hartsel' = hartsel \/
             (state_q = "Idle" /\ ~cmd_valid_q /\ ~dmcontrol_q.resumereq)
<1>1. CASE ~dmcontrol_q.dmactive
  <2>1. hartsel' = 0
    BY <1>1, ConstantsAssumption DEF ClkEdge, CsrEdge, Inactive, ResetControl, hartsel
  <2> QED BY <1>1, <2>1 DEF DeselectIsQuiet
<1>2. CASE dmcontrol_q.dmactive
  <2>1. hartsel' = Written(req).hartsel
    BY <1>2, WrittenType DEF ClkEdge, CsrEdge, Active, ControlNext, hartsel, ControlType
  <2>2. CASE req = NoReq
    BY <2>1, <2>2 DEF Written, NoReq, hartsel
  <2>3. CASE req # NoReq
    BY <2>1, <2>3 DEF ClkEdge, HostRule, Selects, cmdbusy
  <2> QED BY <2>2, <2>3
<1> QED BY <1>1, <1>2

(* An edge of clk keeps the types. *)
LEMMA ClkEdgeType ==
    ASSUME TypeOK, CommandOwner,
           NEW req \in Requests \cup {NoReq}, NEW a \in Harts \cup {NoHart}, ClkEdge(req, a)
    PROVE  TypeOK'
<1> USE DEF TypeOK, ClkEdge
<1>1. dmcontrol_q' \in ControlType
  <2>1. CASE dmcontrol_q.dmactive
    BY <2>1, WrittenType DEF CsrEdge, Active, ControlNext, ControlType
  <2>2. CASE ~dmcontrol_q.dmactive
    BY <2>2, WrittenType, ConstantsAssumption DEF CsrEdge, Inactive, ResetControl, ControlType
  <2> QED BY <2>1, <2>2
<1>2. cmderr_q' \in {"none", "busy", "notsupported", "exception", "haltresume"}
  BY DEF CsrEdge, Active, Inactive, CmdError, RequestError
<1>3. command_q' \in Commands /\ data_q' \in Values
  BY ConstantsAssumption
     DEF CsrEdge, Active, Inactive, DataNext, DataStore, Stores, Requests, NoReq, Commands
<1>4. cmd_valid_q' \in BOOLEAN /\ autoexecdata' \in BOOLEAN
  <2>1. cmd_valid_q' \in BOOLEAN
    BY Zenon DEF CsrEdge, Active, Inactive, Starts
  <2>2. req.kind = "auto" => req.val \in BOOLEAN
    BY DEF Requests, NoReq
  <2> QED BY <2>1, <2>2 DEF CsrEdge, Active, Inactive
<1>5. state_q' \in {"Idle", "Go", "Resume", "CmdExecuting"}
  BY DEF MemEdge, FsmNext
<1>6. halted_q' \in [Harts -> BOOLEAN] /\ resuming_q' \in [Harts -> BOOLEAN]
  <2>1. HaltedNext(a) \in [Harts -> BOOLEAN]
    BY DEF HaltedNext
  <2>2. ResumingNext(a, ClearResumeack(req)) \in [Harts -> BOOLEAN]
    BY Zenon DEF ResumingNext
  <2> QED BY <2>1, <2>2 DEF MemEdge
<1>7. pc' \in [Harts -> {"run", "signal", "pollGo", "pollResume", "going", "whereto", "exec",
                          "exception", "resuming"}] /\ reg' \in [Harts -> Values]
  <2>0. CASE dmcontrol_q'.ndmreset
    BY <2>0 DEF HartEdge
  <2>1. CASE ~dmcontrol_q'.ndmreset /\ a = NoHart
    BY <2>1 DEF HartEdge, hartVars
  <2>2. CASE ~dmcontrol_q'.ndmreset /\ a \in Harts
    <3>1. pc[a] = "whereto" => cmdbusy
      BY <2>2 DEF CommandOwner, cmdbusy
    <3>2. NextPcs(a) \subseteq {"run", "signal", "pollGo", "pollResume", "going", "whereto",
                                "exec", "exception", "resuming"}
      BY <2>2, <3>1, ConstantsAssumption DEF HartEdge, NextPcs, ExecTo
    <3>3. (IF pc[a] = "exec" THEN ExecReg(a) ELSE {reg[a]}) \subseteq Values
      BY <2>2 DEF ExecReg
    <3> QED BY <2>2, <3>2, <3>3, ConstantsAssumption DEF HartEdge
  <2> QED BY <2>0, <2>1, <2>2
<1>8. gap' \in 0 .. DmiGap
  BY ConstantsAssumption
<1>9. owed' \in [Harts -> BOOLEAN] /\ wasReset' \in [Harts -> BOOLEAN]
  BY Zenon
<1> QED BY <1>1, <1>2, <1>3, <1>4, <1>5, <1>6, <1>7, <1>8, <1>9

(* An edge of clk keeps the owner of the command. *)
LEMMA ClkEdgeOwner ==
    ASSUME TypeOK, CommandOwner, DeselectIsQuiet,
           NEW req \in Requests \cup {NoReq}, NEW a \in Harts \cup {NoHart}, ClkEdge(req, a)
    PROVE  CommandOwner'
<1> SUFFICES ASSUME NEW h \in Harts
             PROVE  /\ pc'[h] = "going" => state_q' = "Go" /\ hartsel' = h
                    /\ pc'[h] \in {"whereto", "exec", "exception"}
                         => state_q' = "CmdExecuting" /\ hartsel' = h
  BY DEF CommandOwner, hartsel
<1>1. state_q' = FsmNext(a)
  BY DEF ClkEdge, MemEdge
<1>2. state_q \in {"Go", "CmdExecuting"} => hartsel' = hartsel
  BY SelectionIsQuiet
<1>0. CASE dmcontrol_q'.ndmreset
  BY <1>0 DEF ClkEdge, HartEdge
<1>3. CASE a = h /\ ~dmcontrol_q'.ndmreset
  <2>1. a # NoHart /\ pc[h] \notin {"run", "lost"} /\ pc'[h] \in NextPcs(h)
    BY <1>3, ConstantsAssumption DEF ClkEdge, HartEdge, TypeOK
  <2> QED
    BY <1>1, <1>2, <1>3, <2>1
       DEF TypeOK, CommandOwner, NextPcs, ExecTo, GoFlag, FsmNext, Stores, CommandDone
<1>4. CASE a # h /\ ~dmcontrol_q'.ndmreset
  <2>1. pc'[h] = pc[h]
    BY <1>4 DEF ClkEdge, HartEdge, hartVars, TypeOK
  <2> QED BY <1>1, <1>2, <1>4, <2>1 DEF TypeOK, CommandOwner, FsmNext, Stores, CommandDone
<1> QED BY <1>0, <1>3, <1>4

(* An edge of clk leaves nothing under way for a hart about to be deselected. *)
LEMMA ClkEdgeQuiet ==
    ASSUME TypeOK, DeselectIsQuiet,
           NEW req \in Requests \cup {NoReq}, NEW a \in Harts \cup {NoHart}, ClkEdge(req, a)
    PROVE  DeselectIsQuiet'
<1>1. CASE ~dmcontrol_q.dmactive
  <2>1. hartsel' = 0
    BY <1>1, ConstantsAssumption DEF ClkEdge, CsrEdge, Inactive, ResetControl, hartsel
  <2> QED BY <2>1 DEF DeselectIsQuiet
<1>2. CASE dmcontrol_q.dmactive
  <2> SUFFICES ASSUME ~dmcontrol_q'.dmactive, hartsel' # 0
               PROVE  state_q' = "Idle" /\ ~cmd_valid_q' /\ ~dmcontrol_q'.resumereq
    BY DEF DeselectIsQuiet
  <2>1. /\ hartsel' = Written(req).hartsel
        /\ dmcontrol_q'.dmactive = Written(req).dmactive
        /\ dmcontrol_q'.resumereq => Written(req).resumereq
    BY <1>2, WrittenType DEF ClkEdge, CsrEdge, Active, ControlNext, hartsel, ControlType
  <2>2. req.kind = "control"
    BY <1>2, <2>1 DEF Written
  <2>3. req # NoReq
    BY <2>2 DEF NoReq
  <2>4. ~cmdbusy /\ ~cmd_valid_q /\ ~dmcontrol_q.resumereq /\ ~Written(req).resumereq
    BY <2>1, <2>3 DEF ClkEdge, HostRule, Selects
  <2>5. ~cmd_valid_q'
    BY <1>2, <2>2 DEF ClkEdge, CsrEdge, Active, Starts
  <2>6. state_q' = "Idle"
    BY <2>4 DEF ClkEdge, MemEdge, FsmNext, Resumable, cmdbusy
  <2> QED BY <2>1, <2>4, <2>5, <2>6
<1> QED BY <1>1, <1>2

(* An edge of clk keeps a hart that is reported halted in the ROM. *)
LEMMA ClkEdgeParked ==
    ASSUME TypeOK, HaltedIsParked,
           NEW req \in Requests \cup {NoReq}, NEW a \in Harts \cup {NoHart}, ClkEdge(req, a)
    PROVE  HaltedIsParked'
<1> SUFFICES ASSUME NEW h \in Harts, halted_q'[h], ~wasReset'[h]
             PROVE  pc'[h] # "run"
  BY DEF HaltedIsParked
<1>0. ~dmcontrol_q'.ndmreset /\ (~wasReset[h] \/ (a = h /\ Stores(a, "signal")))
  BY DEF ClkEdge
<1>1. CASE a = h
  <2>1. a # NoHart /\ pc[h] # "run" /\ pc'[h] \in NextPcs(h)
    BY <1>0, <1>1, ConstantsAssumption DEF ClkEdge, HartEdge, TypeOK
  <2>2. pc[h] # "resuming"
    BY <1>1 DEF ClkEdge, MemEdge, HaltedNext, Stores, TypeOK
  <2> QED BY <2>1, <2>2 DEF NextPcs, ExecTo, TypeOK
<1>2. CASE a # h
  <2>1. pc'[h] = pc[h]
    BY <1>0, <1>2 DEF ClkEdge, HartEdge, hartVars, TypeOK
  <2> QED BY <1>0, <1>2, <2>1 DEF ClkEdge, MemEdge, HaltedNext, HaltedIsParked, TypeOK
<1> QED BY <1>1, <1>2

(* An acknowledgement that an edge of clk leaves up was up before and was  *)
(* not lowered, unless the hart has just left the ROM.                     *)
LEMMA AckKept ==
    ASSUME TypeOK, NEW req \in Requests \cup {NoReq}, NEW a \in Harts \cup {NoHart},
           ClkEdge(req, a), NEW h \in Harts, resuming_q'[h]
    PROVE  \/ pc'[h] = "run" /\ ~halted_q'[h]
           \/ resuming_q[h] /\ (ClearResumeack(req) => Written(req).hartsel # h)
<1>1. CASE Stores(a, "resuming") /\ a = h
  <2>1. ~halted_q'[h]
    BY <1>1 DEF ClkEdge, MemEdge, HaltedNext, Stores
  <2>2. pc'[h] = "run"
    BY <1>1, ConstantsAssumption DEF ClkEdge, HartEdge, NextPcs, Stores, TypeOK
  <2> QED BY <2>1, <2>2
<1>2. CASE ~(Stores(a, "resuming") /\ a = h)
  <2>1. resuming_q[h] /\ ~(ClearResumeack(req) /\ h = hartsel)
    BY <1>2 DEF ClkEdge, MemEdge, ResumingNext
  <2>2. ClearResumeack(req) => Written(req).hartsel = hartsel
    BY ClearsSelected DEF ClkEdge, Written, NoReq
  <2> QED BY <2>1, <2>2
<1> QED BY <1>1, <1>2

(* An edge of clk leaves no acknowledged request standing at a halted hart. *)
LEMMA ClkEdgeAckBeforeHalt ==
    ASSUME TypeOK, AckBeforeHalt,
           NEW req \in Requests \cup {NoReq}, NEW a \in Harts \cup {NoHart}, ClkEdge(req, a)
    PROVE  AckBeforeHalt'
<1> SUFFICES ASSUME NEW h \in Harts, dmcontrol_q'.resumereq, dmcontrol_q'.hartsel = h,
                    resuming_q'[h], halted_q'[h]
             PROVE  FALSE
  BY DEF AckBeforeHalt, resumereq, hartsel
<1>1. resuming_q[h] /\ (ClearResumeack(req) => Written(req).hartsel # h)
  BY AckKept
<1>2. dmcontrol_q.dmactive
  BY WrittenType DEF ClkEdge, CsrEdge, Inactive, ResetControl, ControlType
<1>3. /\ Written(req).resumereq /\ Written(req).hartsel = h
      /\ ~(dmcontrol_q.resumereq /\ \E k \in Harts : resuming_q[k])
  BY <1>2, WrittenType DEF ClkEdge, CsrEdge, Active, ControlNext, ControlType
<1>4. ClearResumeack(req)
  BY <1>1, <1>3 DEF ClearResumeack
<1> QED BY <1>1, <1>3, <1>4

(* An edge of clk leaves no acknowledgement up for a hart that still owes  *)
(* its resume: a request that shows as a rise lowers it, and one that does *)
(* not would find an acknowledged request standing at a halted hart.       *)
LEMMA ClkEdgeAck ==
    ASSUME TypeOK, AckBeforeHalt, ResumeAckIsFresh,
           NEW req \in Requests \cup {NoReq}, NEW a \in Harts \cup {NoHart}, ClkEdge(req, a)
    PROVE  ResumeAckIsFresh'
<1> SUFFICES ASSUME NEW h \in Harts, resuming_q'[h], owed'[h]
             PROVE  FALSE
  BY DEF ResumeAckIsFresh
<1>1. pc'[h] # "run" /\ (owed[h] \/ (AsksResume(req, h) /\ halted_q[h]))
  BY DEF ClkEdge
<1>2. resuming_q[h] /\ (ClearResumeack(req) => Written(req).hartsel # h)
  BY <1>1, AckKept
<1>3. AsksResume(req, h) /\ halted_q[h]
  BY <1>1, <1>2 DEF ResumeAckIsFresh
<1>4. Written(req).resumereq /\ Written(req).hartsel = h /\ req # NoReq
  BY <1>3 DEF AsksResume, Written, NoReq
<1>5. dmcontrol_q.resumereq
  BY <1>2, <1>4 DEF ClearResumeack
<1>6. hartsel = h
  BY <1>4 DEF ClkEdge, HostRule, Selects
<1> QED BY <1>2, <1>3, <1>5, <1>6 DEF AckBeforeHalt, resumereq

(* A hart that enters the ROM keeps the invariant. *)
LEMMA EnterDebugKeeps ==
    ASSUME RunControlInv, NEW h \in Harts, EnterDebug(h)
    PROVE  RunControlInv'
<1> USE DEF EnterDebug, csrVars, memVars
<1>1. TypeOK'
  BY DEF RunControlInv, TypeOK
<1>2. CommandOwner'
  BY DEF RunControlInv, TypeOK, CommandOwner, hartsel
<1>3. DeselectIsQuiet' /\ AckBeforeHalt' /\ ResumeAckIsFresh'
  BY DEF RunControlInv, DeselectIsQuiet, AckBeforeHalt, resumereq, ResumeAckIsFresh, hartsel
<1>4. HaltedIsParked'
  BY DEF RunControlInv, TypeOK, HaltedIsParked
<1> QED BY <1>1, <1>2, <1>3, <1>4 DEF RunControlInv

(* The invariant holds at the reset. *)
LEMMA InitRunControl == Init => RunControlInv
<1> SUFFICES ASSUME Init PROVE RunControlInv
  OBVIOUS
<1>1. TypeOK
  <2>1. dmcontrol_q \in ControlType
    BY ConstantsAssumption DEF Init, ResetControl, ControlType
  <2>2. autoexecdata \in BOOLEAN /\ cmd_valid_q \in BOOLEAN
    BY Zenon DEF Init
  <2>3. /\ cmderr_q = "none" /\ command_q \in Commands /\ data_q \in Values /\ state_q = "Idle"
        /\ gap \in 0 .. DmiGap
    BY ConstantsAssumption DEF Init, Commands
  <2>4. /\ halted_q \in [Harts -> BOOLEAN] /\ resuming_q \in [Harts -> BOOLEAN]
        /\ owed \in [Harts -> BOOLEAN] /\ wasReset \in [Harts -> BOOLEAN]
    BY DEF Init
  <2>5. pc = [h \in Harts |-> "run"] /\ reg \in [Harts -> Values]
    BY ConstantsAssumption DEF Init
  <2> QED BY <2>1, <2>2, <2>3, <2>4, <2>5 DEF TypeOK
<1>2. CommandOwner /\ DeselectIsQuiet /\ HaltedIsParked /\ AckBeforeHalt /\ ResumeAckIsFresh
  BY DEF Init, CommandOwner, DeselectIsQuiet, HaltedIsParked, AckBeforeHalt, ResumeAckIsFresh,
     hartsel, ResetControl
<1> QED BY <1>1, <1>2 DEF RunControlInv

(* Every step keeps the invariant. *)
LEMMA NextRunControl == RunControlInv /\ [Next]_vars => RunControlInv'
<1> SUFFICES ASSUME RunControlInv, [Next]_vars PROVE RunControlInv'
  OBVIOUS
<1>1. ASSUME NEW req \in Requests \cup {NoReq}, NEW a \in Harts \cup {NoHart}, ClkEdge(req, a)
      PROVE  RunControlInv'
  BY <1>1, ClkEdgeType, ClkEdgeOwner, ClkEdgeQuiet, ClkEdgeParked, ClkEdgeAckBeforeHalt, ClkEdgeAck
     DEF RunControlInv
<1>2. CASE Tick
  BY <1>1, <1>2 DEF Tick
<1>3. CASE HostStep
  BY <1>1, <1>3 DEF HostStep
<1>4. ASSUME NEW h \in Harts, HartStep(h) PROVE RunControlInv'
  BY <1>1, <1>4 DEF HartStep
<1>5. ASSUME NEW h \in Harts, EnterDebug(h) PROVE RunControlInv'
  BY <1>5, EnterDebugKeeps
<1>6. CASE UNCHANGED vars
  BY <1>6 DEF RunControlInv, TypeOK, CommandOwner, DeselectIsQuiet, HaltedIsParked,
     AckBeforeHalt, resumereq, ResumeAckIsFresh, vars, csrVars, memVars, hartVars, hartsel
<1> QED BY <1>2, <1>3, <1>4, <1>5, <1>6 DEF Next

(* The types, and a hart in the ROM never finds WhereTo without a jump for *)
(* it: no sequence of requests of the debugger makes the hart run astray.  *)
THEOREM TypesHold == Spec => []TypeOK
<1>1. Spec => []RunControlInv
  BY InitRunControl, NextRunControl, PTL DEF Spec
<1>2. RunControlInv => TypeOK
  BY DEF RunControlInv
<1> QED BY <1>1, <1>2, PTL

(* A hart that dm_mem reports as halted is in the park loop or executes a  *)
(* command, and never runs the program.                                    *)
THEOREM HaltedStaysParked == Spec => []HaltedIsParked
<1>1. Spec => []RunControlInv
  BY InitRunControl, NextRunControl, PTL DEF Spec
<1>2. RunControlInv => HaltedIsParked
  BY DEF RunControlInv
<1> QED BY <1>1, <1>2, PTL

(* While a hart works on a command, the module is busy with this hart. *)
THEOREM ExecutingIsBusy == Spec => []BusyWhileExecuting
<1>1. Spec => []RunControlInv
  BY InitRunControl, NextRunControl, PTL DEF Spec
<1>2. RunControlInv => BusyWhileExecuting
  BY DEF RunControlInv, CommandOwner, BusyWhileExecuting, InCommand, cmdbusy
<1> QED BY <1>1, <1>2, PTL

(* A halted hart that was asked to resume, by whichever write of resumereq,*)
(* is reported as resumed only once it has left the ROM.                   *)
THEOREM ResumeAckStaysFresh == Spec => []ResumeAckIsFresh
<1>1. Spec => []RunControlInv
  BY InitRunControl, NextRunControl, PTL DEF Spec
<1>2. RunControlInv => ResumeAckIsFresh
  BY DEF RunControlInv
<1> QED BY <1>1, <1>2, PTL

-----------------------------------------------------------------------------
(* While the FSM waits for a command, the selected hart is at work on it,  *)
(* or has done what a register command asks for.                           *)
CommandAtWork ==
    state_q = "CmdExecuting" /\ ~wasReset[hartsel] =>
        /\ pc[hartsel] \in {"whereto", "exec", "exception", "signal"}
        /\ pc[hartsel] = "exception" => command_q \notin {"read", "write"}
        /\ pc[hartsel] = "signal" /\ command_q \in {"read", "write"} => data_q = reg[hartsel]

(* An edge of clk within a command leaves the command and the data alone,  *)
(* but for the hart and for a deactivation.                                *)
LEMMA BusyRegisters ==
    ASSUME TypeOK, cmdbusy,
           NEW req \in Requests \cup {NoReq}, NEW a \in Harts \cup {NoHart}, ClkEdge(req, a),
           command_q' \in {"read", "write"}
    PROVE  command_q' = command_q /\ data_q' = IF DataStore(a) THEN reg[a] ELSE data_q
BY DEF ClkEdge, CsrEdge, Active, Inactive, DataNext

(* An edge of clk keeps the selected hart at work on its command. *)
LEMMA ClkEdgeAtWork ==
    ASSUME TypeOK, CommandOwner, DeselectIsQuiet, CommandAtWork,
           NEW req \in Requests \cup {NoReq}, NEW a \in Harts \cup {NoHart}, ClkEdge(req, a)
    PROVE  CommandAtWork'
<1> SUFFICES ASSUME state_q' = "CmdExecuting", ~wasReset'[hartsel']
             PROVE  /\ pc'[hartsel'] \in {"whereto", "exec", "exception", "signal"}
                    /\ pc'[hartsel'] = "exception" => command_q' \notin {"read", "write"}
                    /\ pc'[hartsel'] = "signal" /\ command_q' \in {"read", "write"}
                         => data_q' = reg'[hartsel']
  BY DEF CommandAtWork, hartsel
<1>0. hartsel \in Harts
  BY DEF TypeOK, ControlType, hartsel
<1>1. state_q \in {"Go", "CmdExecuting"} /\ state_q' = FsmNext(a)
  BY DEF ClkEdge, MemEdge, FsmNext, TypeOK
<1>2. hartsel' = hartsel
  BY <1>1, SelectionIsQuiet
<1>3. ~dmcontrol_q'.ndmreset /\ (~wasReset[hartsel] \/ (a = hartsel /\ Stores(a, "signal")))
  BY <1>0, <1>2 DEF ClkEdge
<1>4. ASSUME a = hartsel
      PROVE  /\ pc[a] \notin {"run", "lost"}
             /\ pc'[a] \in NextPcs(a)
             /\ reg'[a] \in (IF pc[a] = "exec" THEN ExecReg(a) ELSE {reg[a]})
  BY <1>0, <1>3, <1>4, ConstantsAssumption DEF ClkEdge, HartEdge, TypeOK
<1>5. ASSUME a # hartsel PROVE pc'[hartsel] = pc[hartsel] /\ reg'[hartsel] = reg[hartsel]
  BY <1>0, <1>3, <1>5 DEF ClkEdge, HartEdge, hartVars, TypeOK
<1>6. CASE state_q = "Go"
  <2>1. Stores(a, "going")
    BY <1>1, <1>6 DEF FsmNext
  <2>2. a = hartsel
    BY <2>1 DEF Stores, CommandOwner
  <2>3. pc'[a] = "whereto"
    BY <1>4, <2>1, <2>2 DEF Stores, NextPcs
  <2> QED BY <1>2, <2>2, <2>3
<1>7. CASE state_q = "CmdExecuting"
  <2>1. ~(a = hartsel /\ Stores(a, "signal"))
    BY <1>1, <1>7 DEF FsmNext, CommandDone
  <2>2. ~wasReset[hartsel] /\ cmdbusy
    BY <1>3, <1>7, <2>1 DEF cmdbusy
  <2>3. CASE a = hartsel
    <3>1. pc[a] \in {"whereto", "exec", "exception"}
      BY <1>0, <1>7, <2>1, <2>2, <2>3 DEF CommandAtWork, Stores
    <3>2. pc'[a] \in {"exec", "exception", "signal"}
      BY <1>4, <2>2, <2>3, <3>1 DEF NextPcs, ExecTo
    <3>3. ASSUME command_q' \in {"read", "write"} PROVE pc'[a] # "exception"
      <4>1. command_q \in {"read", "write"}
        BY <2>2, <3>3, BusyRegisters
      <4> QED BY <1>4, <1>7, <2>2, <2>3, <3>1, <4>1 DEF NextPcs, ExecTo
    <3>4. ASSUME command_q' \in {"read", "write"}, pc'[a] = "signal" PROVE data_q' = reg'[a]
      <4>1. command_q' = command_q /\ data_q' = IF DataStore(a) THEN reg[a] ELSE data_q
        BY <2>2, <3>4, BusyRegisters
      <4>2. pc[a] = "exec"
        BY <1>4, <1>7, <2>2, <2>3, <3>1, <3>4, <4>1 DEF NextPcs, CommandAtWork
      <4> QED BY <1>0, <1>4, <2>3, <3>4, <4>1, <4>2 DEF ExecReg, DataStore, Stores
    <3> QED BY <1>2, <2>3, <3>2, <3>3, <3>4
  <2>4. CASE a # hartsel
    <3>1. ~DataStore(a)
      BY <1>7, <2>4 DEF CommandOwner, DataStore, Stores
    <3>2. command_q' \in {"read", "write"} => command_q' = command_q /\ data_q' = data_q
      BY <2>2, <3>1, BusyRegisters
    <3> QED BY <1>2, <1>5, <1>7, <2>2, <2>4, <3>2 DEF CommandAtWork
  <2> QED BY <2>3, <2>4
<1> QED BY <1>1, <1>6, <1>7

(* Every step keeps the selected hart at work on its command. *)
LEMMA NextAtWork == RunControlInv /\ CommandAtWork /\ [Next]_vars => CommandAtWork'
<1> SUFFICES ASSUME RunControlInv, CommandAtWork, [Next]_vars PROVE CommandAtWork'
  OBVIOUS
<1>1. ASSUME NEW req \in Requests \cup {NoReq}, NEW a \in Harts \cup {NoHart}, ClkEdge(req, a)
      PROVE  CommandAtWork'
  BY <1>1, ClkEdgeAtWork DEF RunControlInv
<1>2. CASE Tick
  BY <1>1, <1>2 DEF Tick
<1>3. CASE HostStep
  BY <1>1, <1>3 DEF HostStep
<1>4. ASSUME NEW h \in Harts, HartStep(h) PROVE CommandAtWork'
  BY <1>1, <1>4 DEF HartStep
<1>5. ASSUME NEW h \in Harts, EnterDebug(h) PROVE CommandAtWork'
  <2>1. hartsel \in Harts
    BY DEF RunControlInv, TypeOK, ControlType, hartsel
  <2> QED BY <1>5, <2>1 DEF EnterDebug, RunControlInv, TypeOK, CommandAtWork, csrVars, memVars, hartsel
<1>6. CASE UNCHANGED vars
  BY <1>6 DEF CommandAtWork, vars, csrVars, memVars, hartVars, hartsel
<1> QED BY <1>2, <1>3, <1>4, <1>5, <1>6 DEF Next

(* A register command that the debugger sees finished has moved its value, *)
(* for any number of harts, unless the hart was reset under it.            *)
THEOREM CommandsTakeEffect == Spec => CommandEffect
<1>1. Init => CommandAtWork
  BY DEF Init, CommandAtWork
<1>2. CommandAtWork /\ RunControlInv /\ [Next]_vars =>
        [state_q = "CmdExecuting" /\ state_q' = "Idle" /\ command_q \in {"read", "write"}
           /\ ~wasReset[hartsel] => data_q = reg[hartsel]]_vars
  <2> SUFFICES ASSUME CommandAtWork, RunControlInv, Next, state_q = "CmdExecuting",
                      state_q' = "Idle", command_q \in {"read", "write"}, ~wasReset[hartsel]
               PROVE  data_q = reg[hartsel]
    OBVIOUS
  <2>1. PICK req \in Requests \cup {NoReq}, a \in Harts \cup {NoHart} : ClkEdge(req, a)
    BY DEF Next, Tick, HostStep, HartStep, EnterDebug, memVars
  <2>2. pc[hartsel] = "signal"
    BY <2>1 DEF ClkEdge, MemEdge, FsmNext, CommandDone, Stores
  <2> QED BY <2>2 DEF CommandAtWork
<1> QED BY <1>1, <1>2, InitRunControl, NextRunControl, NextAtWork, PTL DEF Spec, CommandEffect

-----------------------------------------------------------------------------
(* A command just taken meets an idle FSM, or one that has begun a resume  *)
(* that is still requested; the next request is not there yet.             *)
FreshCommand ==
    dmcontrol_q.dmactive /\ cmd_valid_q =>
        gap = DmiGap /\ (state_q = "Idle" \/ (state_q = "Resume" /\ dmcontrol_q.resumereq))

(* An edge of clk keeps that, with one hart and a pause between requests.  *)
LEMMA ClkEdgeFresh ==
    ASSUME Harts = {0}, DmiGap > 0, TypeOK, FreshCommand,
           NEW req \in Requests \cup {NoReq}, NEW a \in Harts \cup {NoHart}, ClkEdge(req, a)
    PROVE  FreshCommand'
<1> SUFFICES ASSUME dmcontrol_q'.dmactive, cmd_valid_q'
             PROVE  gap' = DmiGap
                    /\ (state_q' = "Idle" \/ (state_q' = "Resume" /\ dmcontrol_q'.resumereq))
  BY DEF FreshCommand
<1>1. dmcontrol_q.dmactive /\ Starts(req)
  BY DEF ClkEdge, CsrEdge, Active, Inactive
<1>2. state_q = "Idle" /\ req # NoReq /\ req.kind # "control"
  BY <1>1 DEF Starts, cmdbusy, NoReq
<1>3. gap' = DmiGap /\ ~cmd_valid_q
  BY <1>1, <1>2, ConstantsAssumption DEF ClkEdge, FreshCommand
<1>4. state_q' = IF Resumable THEN "Resume" ELSE "Idle"
  BY <1>2, <1>3 DEF ClkEdge, MemEdge, FsmNext
<1>5. Resumable => dmcontrol_q'.resumereq
  <2>1. hartsel = 0
    BY DEF TypeOK, ControlType, hartsel
  <2>2. Written(req) = dmcontrol_q
    BY <1>2 DEF Written
  <2> QED BY <1>1, <2>1, <2>2 DEF Resumable, ClkEdge, CsrEdge, Active, ControlNext, TypeOK, ControlType
<1> QED BY <1>3, <1>4, <1>5

(* With one hart, and a pause between requests, the module never loses a   *)
(* command that it takes but to a resume it begins or is about.            *)
THEOREM NoCommandIsLost ==
    ASSUME Harts = {0}, DmiGap > 0
    PROVE  Spec => NoCommandLost
<1>1. Init => FreshCommand
  BY DEF Init, FreshCommand, ResetControl
<1>2. TypeOK /\ FreshCommand /\ [Next]_vars => FreshCommand'
  <2> SUFFICES ASSUME TypeOK, FreshCommand, [Next]_vars PROVE FreshCommand'
    OBVIOUS
  <2>1. ASSUME NEW req \in Requests \cup {NoReq}, NEW a \in Harts \cup {NoHart}, ClkEdge(req, a)
        PROVE  FreshCommand'
    BY <2>1, ClkEdgeFresh
  <2>2. CASE UNCHANGED <<csrVars, memVars, gap>>
    BY <2>2 DEF FreshCommand, csrVars, memVars
  <2> QED BY <2>1, <2>2 DEF Next, Tick, HostStep, HartStep, EnterDebug, vars
<1>3. TypeOK /\ FreshCommand /\ [Next]_vars =>
        [cmd_valid_q /\ ~cmd_valid_q' /\ dmcontrol_q.dmactive
           => state_q' = "Go" \/ cmderr_q' # "none" \/ "Resume" \in {state_q, state_q'}]_vars
  <2> SUFFICES ASSUME TypeOK, FreshCommand, Next, cmd_valid_q, ~cmd_valid_q',
                      dmcontrol_q.dmactive, state_q # "Resume", state_q' # "Resume"
               PROVE  state_q' = "Go" \/ cmderr_q' # "none"
    OBVIOUS
  <2>1. PICK req \in Requests \cup {NoReq}, a \in Harts \cup {NoHart} : ClkEdge(req, a)
    BY DEF Next, Tick, HostStep, HartStep, EnterDebug, csrVars
  <2>2. state_q = "Idle" /\ ~Resumable
    BY <2>1 DEF FreshCommand, ClkEdge, MemEdge, FsmNext
  <2>3. CASE halted_q[hartsel]
    BY <2>1, <2>2, <2>3 DEF ClkEdge, MemEdge, FsmNext
  <2>4. CASE ~halted_q[hartsel]
    BY <2>1, <2>2, <2>4 DEF ClkEdge, CsrEdge, Active, CmdError, cmdbusy
  <2> QED BY <2>3, <2>4
<1> QED BY <1>1, <1>2, <1>3, TypesHold, PTL DEF Spec, NoCommandLost
=============================================================================
