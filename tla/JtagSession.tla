----------------------------- MODULE JtagSession -----------------------------
(***************************************************************************)
(* A debug session, bit by bit: PulpOCD calls the JTAG engine, the engine  *)
(* plans its way with a copy of the TAP state, the transport turns that    *)
(* into edges of TCK, and the TAP of dmi_jtag_tap.sv follows them.         *)
(*                                                                         *)
(* Everything is one synchronous program on the host's side, so a call is  *)
(* unfolded in three levels: plan holds the engine's calls that are left   *)
(* of it, steps the controller's operations of the call under way, wire    *)
(* the edges of the operation under way.  Bits are sent and kept with the  *)
(* least significant one first.                                            *)
(***************************************************************************)
EXTENDS Naturals, Sequences, SequencesExt

CONSTANTS
    Controller,  \* "ftdi": pyftdi's JtagController, "sim": JtagSimController
    DmiLen,      \* bits of the dmi register, 41 in the source
    DtmcsLen,    \* bits of dtmcs, 32 in the source
    Words        \* words for the dmi register

Bit == {0, 1}
Zeros(k) == [i \in 1..k |-> 0]
Ones(k)  == [i \in 1..k |-> 1]

ASSUME ConstantsAssumption ==
    /\ Controller \in {"ftdi", "sim"}
    /\ DmiLen \in Nat \ {0} /\ DtmcsLen \in Nat \ {0}
    /\ Words \subseteq [1..DmiLen -> Bit]

VARIABLES
    opened, currentir,  \* a session is past its opening; PulpOCD.currentir
    plan, steps, wire,  \* what is left to do on the three levels
    sm, last,           \* the engine's copy of the TAP state; the bit held back
    tap, irShift, ir, dr,  \* the TAP: its state, IR shift register, IR, the selected DR
    owed, delivered,    \* history: what the call has yet to deliver; the last delivery
    captured, got       \* history: the word the TAP captured last; the bits read since

hostVars == <<opened, currentir, plan, steps, sm, last>>
tapVars  == <<tap, irShift, ir, dr>>
history  == <<owed, delivered, captured, got>>
vars     == <<hostVars, wire, tapVars, history>>

-----------------------------------------------------------------------------
(* The state table of pyftdi's JtagStateMachine: where 0 and 1 lead.       *)

Exits ==
    [test_logic_reset |-> <<"run_test_idle", "test_logic_reset">>,
     run_test_idle    |-> <<"run_test_idle", "select_dr_scan">>,
     select_dr_scan   |-> <<"capture_dr", "select_ir_scan">>,
     capture_dr       |-> <<"shift_dr", "exit_1_dr">>,
     shift_dr         |-> <<"shift_dr", "exit_1_dr">>,
     exit_1_dr        |-> <<"pause_dr", "update_dr">>,
     pause_dr         |-> <<"pause_dr", "exit_2_dr">>,
     exit_2_dr        |-> <<"shift_dr", "update_dr">>,
     update_dr        |-> <<"run_test_idle", "select_dr_scan">>,
     select_ir_scan   |-> <<"capture_ir", "test_logic_reset">>,
     capture_ir       |-> <<"shift_ir", "exit_1_ir">>,
     shift_ir         |-> <<"shift_ir", "exit_1_ir">>,
     exit_1_ir        |-> <<"pause_ir", "update_ir">>,
     pause_ir         |-> <<"pause_ir", "exit_2_ir">>,
     exit_2_ir        |-> <<"shift_ir", "update_ir">>,
     update_ir        |-> <<"run_test_idle", "select_dr_scan">>]
States == DOMAIN Exits

\* All walks of n edges, as <<from, to, events>>.
Standing == {<<s, s, <<>>>> : s \in States}
Further(walks) ==
    {<<w[1], Exits[w[2]][e + 1], Append(w[3], e)>> : w \in walks, e \in Bit}
Walks[n \in 0..7] == IF n = 0 THEN Standing ELSE Further(Walks[n - 1])

\* The events of a shortest path, none if the machine is already there.  No path
\* needs more than seven, the most one write_tms takes.
Between(ends, n) == {w \in Walks[n] : w[1] = ends[1] /\ w[2] = ends[2]}
Shortest(ends) ==
    CHOOSE n \in 0..7 : Between(ends, n) # {} /\ \A k \in 0 .. n - 1 : Between(ends, k) = {}
Paths == [ends \in States \X States |-> (CHOOSE w \in Between(ends, Shortest(ends)) : TRUE)[3]]
find_path(from, to) == Paths[<<from, to>>]

-----------------------------------------------------------------------------
(* The engine: every call is a list of operations of the controller.       *)

Goto(to) == [op |-> "goto", to |-> to]
Put(bits)  == [op |-> "put", bits |-> bits]     \* write, the last bit held back
Push(bits) == [op |-> "push", bits |-> bits]    \* write without holding back
Get(k)     == [op |-> "get", len |-> k]
Wait(k)    == [op |-> "wait", len |-> k]        \* write_tms with zeros
Ones5      == [op |-> "reset"]

reset       == <<Ones5>>
go_idle     == <<Goto("run_test_idle")>>
write_ir(w) == <<Goto("shift_ir"), Put(w), Goto("update_ir")>>
write_dr(w) == <<Goto("shift_dr"), Put(w), Goto("update_dr")>>
read_dr(k)  == <<Goto("shift_dr"), Get(k), Goto("update_dr")>>
capture_ir  == <<Goto("capture_ir")>>
shift_register(w) == <<Goto("shift_ir"), Push(w)>>
write_tms(k) == <<Wait(k)>>

VIR == <<0, 1, 1, 1, 0, 0, 0, 0, 0, 0>>   \* 0xE in ten bits
VDR == <<0, 0, 1, 1, 0, 0, 0, 0, 0, 0>>   \* 0xC
write_vir(w) == <<write_ir(VIR), write_dr(Append(w, 1)), write_ir(VDR)>>

-----------------------------------------------------------------------------
(* PulpOCD and the opening of a session in dbgjtag.py.                     *)

Code == [dmi |-> <<1, 0, 0, 0, 1>>, dtmcs |-> <<0, 0, 0, 0, 1>>, idcode |-> <<1, 0, 0, 0, 0>>]

\* PulpOCD takes write_vir if the controller has an attribute named virtual.
HasVirtual == Controller = "sim"

Instruct(i) == IF HasVirtual THEN write_vir(Code[i]) ELSE <<write_ir(Code[i])>>

SelectIr_Cached(current, i) == IF current # "none" THEN <<>> ELSE Instruct(i)
SelectIr(current, i)        == IF current = i THEN <<>> ELSE Instruct(i)

Resting == plan = <<>> /\ steps = <<>> /\ wire = <<>>

Calls(calls, jobs) ==
    /\ opened = "open" /\ Resting
    /\ plan' = calls /\ owed' = owed \o jobs /\ got' = <<>>
    /\ UNCHANGED <<opened, steps, wire, sm, last, tapVars, delivered, captured>>

PutApb(w) == <<write_dr(w), go_idle, write_tms(5), write_tms(5)>>
GetApb(w) == <<write_dr(w), go_idle, write_tms(7), write_tms(7), write_tms(7), read_dr(DmiLen)>>

writeapb(w) ==
    /\ Calls(SelectIr(currentir, "dmi") \o PutApb(w), <<<<"dmi", w>>>>)
    /\ currentir' = "dmi"

readapb(w) ==
    /\ Calls(SelectIr(currentir, "dmi") \o GetApb(w), <<<<"dmi", w>>, <<"dmi", Zeros(DmiLen)>>>>)
    /\ currentir' = "dmi"

\* The two reset bits, 3<<16 in dtmcs: just above its middle.
DmiResets ==
    [i \in 1..DtmcsLen |-> IF i \in {DtmcsLen \div 2 + 1, DtmcsLen \div 2 + 2} THEN 1 ELSE 0]

resetdm(w) ==
    /\ Calls(SelectIr(currentir, "dtmcs")
                 \o <<write_dr(DmiResets), go_idle, write_dr(Zeros(DtmcsLen)), go_idle>>
                 \o SelectIr("dtmcs", "dmi") \o PutApb(w) \o <<go_idle>>,
             <<<<"dtmcs", DmiResets>>, <<"dtmcs", Zeros(DtmcsLen)>>, <<"dmi", w>>>>)
    /\ currentir' = "dmi"

\* A new process; detect_register_size leaves the TAP in Shift-IR behind any bits.
Open ==
    /\ opened = "closed" /\ opened' = "opening"
    /\ sm' = "test_logic_reset" /\ last' = <<>> /\ currentir' = "none"
    /\ \E b \in Bit : plan' = <<reset, read_dr(2), go_idle, go_idle, capture_ir, shift_register(<<b>>)>>
    /\ UNCHANGED <<steps, wire, tapVars, history>>

Opened ==
    /\ opened = "opening" /\ Resting /\ opened' = "open"
    /\ UNCHANGED <<currentir, plan, steps, wire, sm, last, tapVars, history>>

\* The process ends or is killed, between two edges at the worst.
Close ==
    /\ opened # "closed" /\ opened' = "closed"
    /\ plan' = <<>> /\ steps' = <<>> /\ wire' = <<>> /\ owed' = <<>> /\ got' = <<>>
    /\ UNCHANGED <<currentir, sm, last, tapVars, delivered, captured>>

EngineCall ==
    /\ wire = <<>> /\ steps = <<>> /\ plan # <<>>
    /\ steps' = Head(plan) /\ plan' = Tail(plan)
    /\ UNCHANGED <<opened, currentir, wire, sm, last, tapVars, history>>

-----------------------------------------------------------------------------
(* The controllers.  write_tms sends the held back bit: the FTDI chip      *)
(* keeps it on TDI for the whole command, the simulation for one edge.     *)

Edge(tms, tdi)  == [tms |-> tms, tdi |-> tdi, sampled |-> FALSE]
Shifted(bits)   == [i \in 1..Len(bits) |-> Edge(0, bits[i])]

HeldBit_Dropped(i) == 0
HeldBit(i) ==
    IF last = <<>> THEN 0 ELSE IF Controller = "ftdi" \/ i = 1 THEN last[1] ELSE 0
TmsEdges_MsbFirst(events) == [i \in 1..Len(events) |-> Edge(events[Len(events) + 1 - i], HeldBit(i))]
TmsEdges(events) == [i \in 1..Len(events) |-> Edge(events[i], HeldBit(i))]

SendTms(events, state) ==
    /\ wire' = TmsEdges(events) /\ sm' = state
    /\ last' = IF events = <<>> THEN last ELSE <<>>
    /\ UNCHANGED got

Send(op) ==
    \/ op.op = "goto" /\ SendTms(find_path(sm, op.to), op.to)
    \/ op.op = "wait" /\ SendTms(Zeros(op.len), sm)
    \/ op.op = "reset" /\ SendTms(Ones(5), "test_logic_reset")
    \/ op.op = "put" /\ wire' = Shifted(Front(op.bits)) /\ last' = <<Last(op.bits)>> /\ UNCHANGED <<sm, got>>
    \/ op.op = "push" /\ wire' = Shifted(op.bits) /\ UNCHANGED <<sm, last, got>>
    \/ op.op = "get" /\ wire' = [i \in 1..op.len |-> [tms |-> 0, tdi |-> 0, sampled |-> TRUE]]
                     /\ got' = <<>> /\ UNCHANGED <<sm, last>>

ControllerOp ==
    /\ wire = <<>> /\ steps # <<>>
    /\ Send(Head(steps))
    /\ steps' = Tail(steps)
    /\ UNCHANGED <<opened, currentir, plan, tapVars, owed, delivered, captured>>

-----------------------------------------------------------------------------
(* The TAP of dmi_jtag_tap.sv at a rising edge of TCK.                     *)

TapNext(t) ==
    CASE tap = "test_logic_reset" -> IF t = 1 THEN "test_logic_reset" ELSE "run_test_idle"
      [] tap \in {"run_test_idle", "update_dr", "update_ir"} ->
             IF t = 1 THEN "select_dr_scan" ELSE "run_test_idle"
      [] tap = "select_dr_scan" -> IF t = 1 THEN "select_ir_scan" ELSE "capture_dr"
      [] tap \in {"capture_dr", "shift_dr"} -> IF t = 1 THEN "exit_1_dr" ELSE "shift_dr"
      [] tap = "exit_1_dr" -> IF t = 1 THEN "update_dr" ELSE "pause_dr"
      [] tap = "pause_dr" -> IF t = 1 THEN "exit_2_dr" ELSE "pause_dr"
      [] tap = "exit_2_dr" -> IF t = 1 THEN "update_dr" ELSE "shift_dr"
      [] tap = "select_ir_scan" -> IF t = 1 THEN "test_logic_reset" ELSE "capture_ir"
      [] tap \in {"capture_ir", "shift_ir"} -> IF t = 1 THEN "exit_1_ir" ELSE "shift_ir"
      [] tap = "exit_1_ir" -> IF t = 1 THEN "update_ir" ELSE "pause_ir"
      [] tap = "pause_ir" -> IF t = 1 THEN "exit_2_ir" ELSE "pause_ir"
      [] tap = "exit_2_ir" -> IF t = 1 THEN "update_ir" ELSE "shift_ir"

Selected ==
    IF \E r \in DOMAIN Code : ir = Code[r] THEN CHOOSE r \in DOMAIN Code : ir = Code[r]
    ELSE "bypass"

ShiftIn_MsbFirst(reg, tdi) == <<tdi>> \o Front(reg)
ShiftIn(reg, tdi) == Append(Tail(reg), tdi)

IrNext(tdi) ==
    /\ irShift' = CASE tap = "shift_ir" -> ShiftIn(irShift, tdi)
                    [] tap = "capture_ir" -> <<1, 0, 1, 0, 0>>
                    [] tap = "test_logic_reset" -> Zeros(5)
                    [] OTHER -> irShift
    /\ ir' = CASE tap = "update_ir" -> irShift
               [] tap = "test_logic_reset" -> Code["idcode"]
               [] OTHER -> ir

\* What Capture-DR loads; dmi holds any word of the debug module.
Loaded ==
    CASE Selected = "dmi" -> Words
      [] Selected = "dtmcs" -> {Zeros(DtmcsLen)}
      [] Selected = "idcode" -> {<<1, 0>>}
      [] Selected = "bypass" -> {<<0>>}

\* What Test-Logic-Reset puts into the registers is lost at the next Capture-DR.
DrNext(tdi) ==
    CASE tap = "capture_dr" -> dr' \in Loaded /\ captured' = dr'
      [] tap = "shift_dr" -> dr' = ShiftIn(dr, tdi) /\ UNCHANGED captured
      [] OTHER -> UNCHANGED <<dr, captured>>

\* Update-DR acts only in the dmi and the dtmcs register.
Update ==
    IF tap = "update_dr" /\ Selected \in {"dmi", "dtmcs"}
    THEN /\ delivered' = <<Selected, dr>>
         /\ owed' = IF owed = <<>> THEN owed ELSE Tail(owed)
    ELSE UNCHANGED <<owed, delivered>>

TckEdge ==
    /\ wire # <<>> /\ wire' = Tail(wire)
    /\ tap' = TapNext(Head(wire).tms)
    /\ IrNext(Head(wire).tdi)
    /\ DrNext(Head(wire).tdi)
    /\ Update
    /\ got' = IF Head(wire).sampled THEN Append(got, dr[1]) ELSE got
    /\ UNCHANGED hostVars

Init ==
    /\ opened = "closed" /\ currentir = "none"
    /\ plan = <<>> /\ steps = <<>> /\ wire = <<>>
    /\ sm = "test_logic_reset" /\ last = <<>>
    /\ tap = "run_test_idle" /\ irShift = Zeros(5) /\ ir = Code["idcode"] /\ dr = <<1, 0>>
    /\ owed = <<>> /\ delivered = <<"none", <<>>>> /\ captured = <<1, 0>> /\ got = <<>>

Next ==
    \/ \E w \in Words : writeapb(w) \/ readapb(w) \/ resetdm(w)
    \/ Open \/ Opened \/ Close
    \/ EngineCall \/ ControllerOp \/ TckEdge

Spec == Init /\ [][Next]_vars
-----------------------------------------------------------------------------
(* The engine's copy of the TAP state is the state of the TAP whenever the *)
(* controller has done what it was told: also after a session that was cut *)
(* off anywhere, and although read_dr sends one edge more than it reads.   *)
InStep == wire = <<>> /\ sm # "test_logic_reset" /\ opened # "closed" => sm = tap

(* Between two calls the instruction register holds what PulpOCD remembers *)
(* having put there; otherwise it scans into a register nobody looks at.   *)
InstructionInForce ==
    opened = "open" /\ Resting /\ currentir # "none" => Selected = currentir

(* readapb returns all bits of the word the TAP captured, in their order.  *)
ReadReturnsCaptured == Resting /\ got # <<>> => got = captured

(* The calls deliver exactly the words they were given: see DmiPort.       *)
Port == INSTANCE DmiPort WITH open <- (opened = "open"), Nop <- <<"dmi", Zeros(DmiLen)>>
PortSpec == Port!Spec
=============================================================================
