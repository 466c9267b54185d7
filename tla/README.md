# TLA+ models of PyOCD-RISCV32

PyOCD-RISCV32 debugs RISC-V soft cores over JTAG. A Python program shifts bits
into a TAP; on the other side Verilog turns the bits into requests to a debug
module, which halts and resumes a hart, lets it run short commands and reads
and writes memory. The models follow that path, from the calls of `ocd.py` down to the
hart, through the two targets whose hardware is in the repository as source: the pulp SoC and the
older Reve SoC.

## 1. The system

```
 dbgjtag.py  PulpOCD / ReveOCD / MuraxOCD / SaxonOCD            (debugger, Python)
     |       JtagOCDEngine: a copy of the TAP state, scans
     |       Blaster | JtagSimController | pyftdi                (transports)
     |                 pulp                                        reve
 ----+---- TMS/TDI/TDO ----------- TCK domain -----------------------------------
     |  dmi_jtag_tap.sv  TAP, ir, dtmcs           jtag_tap.v        TAP
     |  dmi_jtag.sv      dmi register, its FSM    riscv_jtag_apb_dm.v
     |  dmi_cdc.sv       = 2 x cdc_2phase.sv          four-phase handshake
 ----+---------------------------- clk / APB clock domain -----------------------
     |  dm_csrs.sv       registers, fifo_v3       riscv_i32_debug.v  module
     |  dm_mem.sv        command FSM, flags           | messages  ^ answers
     |  dm_sba.sv        bus master               riscv_i32_pipeline_control.v
     |  debug_rom.S      the halted harts' loop       debug instructions in the pipeline
   harts and system bus                            hart
```

### Inventory

| component | state | operations | hard behaviour | what makes it correct | modelled |
|---|---|---|---|---|---|
| `cdc_2phase.sv` | toggles, two synchroniser chains, the data register | accept, consume, one edge of either clock, reset | two unrelated clocks, wires sampled while they settle | every word crosses once, whole and in order; both sides make progress | yes |
| `dmi_jtag_tap.sv`, `dmi_jtag.sv`, `dmi_cdc.sv` | TAP state, `ir`, `dtmcs_q`, `dr_q`, the request in progress, sticky error | scan, capture, update, launch, answer, dmireset | the host does not wait; answers of writes are mixed with those of reads; a full response queue | a read returns its own answer, nothing is dropped silently, requests are executed once and in order | partly |
| `fifo_v3.sv` | two pointers, count, memory | push, pop, flush | full and empty at once, three wraps of different widths, a word that passes through | a bounded queue | yes |
| `dm_csrs.sv`, `dm_mem.sv`, `debug_rom.S` | `dmcontrol_q`, `cmderr_q`, `command_q`, `data_q`; FSM, `halted_q`, `resuming_q`; where each hart is in the ROM | register writes; the hart's HALTED, GOING, RESUMING, EXCEPTION stores; entering debug mode; ndmreset | the hart reacts after any number of cycles; requests, a deactivation or a reset of the hart arrive in the middle; several harts | flags tell the truth, a command runs to its end undisturbed, whatever is asked for happens | partly |
| `dm_sba.sv` and the sb registers | `sbcs_q`, `sbaddr_q`, `sbdata_q`, FSM | address write, data write, data read, grant, answer, deactivation | a bus slower than the debugger; auto-increment; a new session in the middle of an access | memory holds what was written, a read is current, or the busy error tells | partly |
| `pulp/ocd.py` | `currentir`, `lastwradr` | `halt`, `resume`, `readreg`, `writereg`, `setpc`, `readbus`, `writebus`, `setreg2`, `resetdm` | never looks at a status: relies on fixed waits | its waits suffice; runs of writes really are contiguous | partly |
| `dbgjtag.py` engine, `pyftdi/jtag.py` | a copy of the TAP state | `change_state`, `write_ir`, `write_dr`, `read_dr`, `write_vir` | any edge not counted leaves the copy out of step | copy = TAP at every call | partly |
| `blaster.py`, `sim.py` | `_last`, a bit held back until its TMS is known | `write`, `read`, `write_tms` | bit left over between scans; counts at multiples of 64 bytes | the bits on the wire are those of the scan | partly |
| `reve/riscv_jtag_apb_dm.v`, `jtag_tap.v` | four handshake levels in twelve synchroniser bits, `op_status`, the APB access | update, capture, dtmcs reset, an APB access of any length | a level left over from the request before; any ratio of the clocks | a request is performed once and answered with its own answer | partly |
| `reve/riscv_i32_debug.v`, `riscv_i32_pipeline_control.v` and the fetch and trap stages | the module's registers, FSM and view of its harts; the hart's flags and state machine; the instruction under way | dmcontrol, command, data0, progbuf writes; messages, polls, answers; halt, resume, debug instructions, the program buffer | state known only from answers; several assignments at one edge; a gated clock; interrupts | the status is current, a host that waits finds done what it asked for | partly |
| `reve/ocd.py` | `currentir` | as `PulpOCD` | never looks at `busy`, `cmderr` or `op_status` | its waits suffice | partly |
| `simframework/*.h` | sockets, UART sampler | virtual JTAG server, UART | partial reads | the other end sees the same bits | no |
| `murax/ocd.py`, `saxon/ocd.py` | instruction injection | the same calls | relies on a plugin that is only there as generated Verilog | as `PulpOCD` | no |

`PROJECT.json` names every component with its status and what is left out, and the hazards with
the properties that cover them. Section 6 says why the rest is not modelled.

## 2. The modules

| module | models | composed of |
|---|---|---|
| `OnePlaceLink` | what the crossing promises: a place for one word between two clocks | |
| `Cdc2Phase` | `cdc_2phase.sv`, register by register | refines `OnePlaceLink` |
| `BoundedQueue` | what a FIFO promises | |
| `Fifo` | `fifo_v3.sv` with every parameter | refines `BoundedQueue` |
| `DmiDtm` | TAP data scans, `dmi_jtag.sv`, two crossings, response queue | two instances of `Cdc2Phase` |
| `DebugModule` | run control and abstract commands: `dm_csrs.sv`, `dm_mem.sv`, `debug_rom.S` | |
| `SystemBus` | `PulpOCD.writebus/readbus`, the sb registers, `dm_sba.sv` | |
| `DmiPort` | what a session promises PulpOCD: the words of a call reach their registers, once, in order | |
| `JtagSession` | `PulpOCD`'s three transfers, `dbgjtag.py`'s opening, the engine, two transports, the whole TAP, bit by bit | refines `DmiPort` |
| `RemoteAccess` | what a transport promises: a request is performed once and answered with its own answer | |
| `ReveDtm` | `riscv_jtag_apb_dm.v`, the pacing of `ReveOCD` | refines `RemoteAccess` |
| `ReveDebug` | `riscv_i32_debug.v` and the debug half of its hart, down to the pipeline | |
| `*_proofs` | theorems about the module before the underscore | `DmiDtm_proofs` instantiates `Cdc2Phase_proofs` twice |
| `MC*` | constants for TLC | |

A definition named `D_X` is `D` with a plausible fault `X`. The specifications
never use it; it shows which property would notice that fault.

### Cdc2Phase

`SrcEdge(valid, data)` and `DstEdge(ready)` are one rising edge of either clock
with the inputs sampled at it. The edges interleave freely, so all frequencies
and phases are covered. The source constrains the wires between the domains to
one period of the faster clock (`CONSTRAINT`, lines 14-17): after a toggle, one
edge of the other side may still find them moving and then samples the old bit,
the new bit or, on the data wires, anything. `out` is the history variable the
refinement needs: the last word handed over.

### Fifo

`ClkEdge(push, pop, data)` is one edge with any inputs, also those the assertions of
`fifo_v3.sv:142-152` forbid (a push when full, a pop when empty), which the code ignores: the queue
stays a queue without its callers' discipline. `POINTERS` is 2^`ADDR_DEPTH`, so that the pointer compared with a
depth cut to its own width is modelled (`Advance`). `DEPTH = 0`, a queue without slots, and
fall-through are covered. `DmiDtm` takes the queue of `dm_csrs.sv` for a sequence of bounded length, which is what `Fifo` is
proved to implement.

### DmiDtm

A TCK edge moves the TAP and steps the FSM of `dmi_jtag.sv`, the source half of
the request crossing and the destination half of the response crossing; a clk
edge does the other halves and the queue. The FSM's branches are the actions `Accept`,
`Launch`, `Answer` and `Stay`. Requests carry a number instead of an address and
data, so that an answer can be matched with its question; `data_q` says whether
the word in the register came from the host or from the debug module. The TAP
skips what the host never uses (Pause, Exit2); an IR scan, long in reality, is one
edge, which only gives the host less time to wait. `Init` picks a `host`: how long it stays in
Run-Test/Idle after each operation (`idleAfter`), how many TCK edges its cable makes within one
clk edge at most, and whether it is `patient`, that is, takes it for granted that it waits long enough.
`dmi_reset_o` is a bit of the *shift* register, so while dtmcs is shifted the
model lets it take any value at each edge. `dmihardreset` has no effect in the code (`dmi_rst_no` is `rst_ni`, line 42).

### DebugModule

One `ClkEdge(req, a)` carries at most one DMI request and one bus access of at
most one hart, and computes all registers from the values before it, as the two
`always_comb` blocks and their flip-flops do. `pc[h]` is the next access of hart
`h` in `debug_rom.S`: it reports `signal`, polls the go and the resume flag, reports
`going`, loads the jump at `WhereTo`, executes, and reports again, or reports
`exception`, or `resuming`. The contents of the program buffer are arbitrary: it may change the register
or trap. Whether `WhereTo` holds a jump is decided when the hart loads it; a
hart that finds none would be `"lost"`, a value that `TypeOK` excludes. An
abstract command is one step of the hart, `autoexecdata` starts one at an access to data0. The debugger writes any
register at any time, at least `DmiGap` edges apart (see `RequestsSpaced`
below). With several harts it must not select another one in the middle of a command
(`HostRule`; void for the one hart of this SoC).

`ndmreset` puts the harts back to `"run"` and resets nothing of the debug module (`riscv_soc.sv`): a hart may
be reset in the middle of a command, and `halted_q` then goes on saying that it is halted. `wasReset` marks a hart from its reset to its next
HALTED report. `cmd_valid_q` is missing from the power-on reset (`dm_csrs.sv:527-539`): its initial value is any.

### SystemBus

The calls of PulpOCD put their requests into `todo`; a `Request` hands over the first
at a clk edge, `Tick` is an edge without one. The bus grants and answers
whenever it likes within `maxLatency` edges; `Init` picks the bus. `wanted` is the memory as the calls
describe it. `NewSession` is another debugger that first writes dmactive to 0 and to 1, as OpenOCD
does (`src/pulp/tb/debug` configures one): the registers of `dm_csrs.sv` are cleared, the bus master is
not, and a write that still waits for its grant then goes, one byte wide, to address 0. `cut` has the two words concerned.

### JtagSession

The host is one synchronous program, so a call is unfolded on three levels: `plan`
holds the engine's calls that are left (`write_ir`, `go_idle`, ...), `steps` the
controller's operations of the call under way (`Goto` a state, `Put` a word, `Get` bits),
`wire` the edges of TCK that are left of an operation. `EngineCall`, `ControllerOp` and
`TckEdge` take the first of each. A word is a sequence of bits, the least significant first.
`HeldBit` is the only difference between the two transports besides the attribute `virtual`:
the FTDI chip keeps the bit held back on TDI for the whole TMS command, the
simulation for its first edge. `find_path` is a shortest path in the state
table, which is written twice: `Exits` is the table of `pyftdi/jtag.py`, `TapNext` the FSM of
`dmi_jtag_tap.sv`. `Close` may happen between any two edges: the session ended, or was killed;
the hardware keeps its state and the next `Open` starts with a new engine.
The rounds of `detect_register_size` are one push of any bit, which leaves the TAP where
they do. What `Capture-DR` loads into dmi is any word; `DmiDtm` says which.

### ReveDtm

`TckEdge(act)` and `ApbEdge(pready)` are one edge of either clock. Four levels (ready, ready_ack, complete,
complete_ack) each cross through three flip-flops; `moving` names those that changed and that the
other side has not sampled yet, so that its first flip-flop reads the old or the new value. `act` is what the TAP does at
the edge; the shift register itself is left to the pulp model. The host is either any host or one paced like
`ReveOCD` (`HostAct`). `performed` counts the bus accesses of a request.

### ReveDebug

Module, hart and pipeline share one clock, so a step is an edge; the RISC-V clock is that clock gated, and ticks at the edges with
`en`. `Module(w)` is the debug module with at most one APB write `w`, `Hart(en)` the debug half of the hart, `Pipeline(en, own)` the
fetch state machine and the two stages a debug instruction passes. Where several lines of `riscv_i32_pipeline_control.v` assign a register
at one edge the last one counts; each register therefore has one operator that writes out the order of precedence.
`mst` is the message to the harts, answered at the next edge. A debug instruction takes the place of
whatever the pipeline fetches; one register and the effect of an instruction on it (`read`, `write`, or a `word` of the program
buffer) stand for the data. `Init` is the state one edge after the reset, when the hart first drives its attention.
`want` is what the accepted commands should have done; `spoilt` marks an interrupt that was pending in debug mode, after which
a command may never end (section 5), and the host writes no more. An interrupt of the *running* program changes nothing the
debugger sees and is left out: `irq` rises only outside of it.

## 3. The runs

| run | bounds | states | question |
|---|---|---|---|
| `cdc` | 2 words | 130 | Is the crossing a one-place link, and live? |
| `fifo` | depth 3, pointers of 2 bits, fall-through, 3 words | 1,008 | Is the ring a bounded queue? |
| `dmi` | a host without waits, 7 TCK edges per clk edge, and PulpOCD, 3 per clk edge; queue of 2, 4 numbers | 596,693 | Answers, errors, order, queue, spacing, progress; do PulpOCD's waits suffice? |
| `dm` | 1 hart, 2 values, gap 1 | 114,627 | Run control and commands of the real SoC, with resets and deactivations |
| `dm_cmderr`, `dm_resume_ack` | as `dm` | | Two comments the code does not follow (section 5) |
| `sba` | 3 words in a space of 4, gap 3, a bus of latency 3 and one of 7 | 5,621,830 | Is memory what the calls asked for? Is a fast enough bus never busy? |
| `jtag` | dmi of 3 bits, dtmcs of 4, idcode of 2, 2 words, FTDI | 21,608 | Do the bits arrive, also after an aborted session? |
| `jtag_sim` | the same with `JtagSimController` | | Does PulpOCD work in simulation? (section 5) |
| `reve` | 2 addresses, 2 APB edges per TCK edge, access up to 40 edges; any host, and ReveOCD's waits | 263,158 | Is a request performed once, and the host never refused or stuck? |
| `reve_complete` | as `reve` | | A comment the code does not follow (section 5) |
| `reve_debug` | 1 hart of 2 that can be selected; a host with 10 edges between writes, and one with 27 and a RISC-V clock that may stand still every other edge | 436,152 | Is the status current, is done what was asked for, does everything end? |

Why the bounds are enough:

* *`cdc`, `fifo`.* Words are opaque; two show a mixed-up or torn word, a third tells the reset
  word of a slot from both. A depth that is no power of two meets the explicit wrap and pointer values that must not occur. Theorems cover all
  words, depths and modes.
* *`dmi`.* Shift lengths are the real ones (41 and 32 edges): the ratio of a scan to the
  delay of the crossing matters. At most one request and one answer to an older
  one are under way together, so four numbers do not wrap ambiguously.
  `maxTckPerClk` is the interesting bound and was moved to find the limits: with a host that does not wait everything holds up to 8 TCK
  edges per clk edge (7 in the run, for its time; at 8 an Update-DR may find the request before it still at work, below that the sticky
  error does the dropping); at 9 `ReadReturnsOwnAnswer` fails: the answer to a write is still in the
  crossing when the next read begins to wait, and is taken for its data. With
  PulpOCD's waits the busy error cannot occur at 3 and can at 4. On the boards TCK
  is far slower than clk, so these are the limits of the design, not faults.
* *`dm`.* `DmiGap = 1` is less than the three edges that `RequestsSpaced` promises, so the run shows more than the SoC needs.
  What concerns several harts is proved for any number of them. The dmcontrol values are all combinations but a resume during a
  reset; the word that deactivates asks for nothing or for a resume.
* *`sba`.* Three words and one address the memory does not have are
  enough for a run of writes, a break in it, a read in between, and the wrap.
  A bus of latency 3 keeps up with the gap of 3; one of 7 is still busy with an access when the second request after it comes.
* *`jtag`.* The lengths of the data registers occur only as the number of edges between
  the first bit and the held-back last one; three bits have a first, a middle and a last. The two words are neither reversed nor
  rotated copies of one another. The instruction register has its real five bits and codes.
* *`reve`.* The waits are those of `ReveOCD`, in edges of TCK (58 after a read, 51 for a scan). With them `NeverBusy` is proved for
  bus accesses of up to 76 APB edges (`FixedWaitsSuffice`); TLC finds it to hold up to 78 and to fail at 80, so the theorem gives away
  next to nothing. The ratio is the one that matters: two APB edges per TCK edge is the least at
  which the handshake is live, see section 5; safety is proved for every ratio.
* *`reve_debug`.* Two slots are polled in turn, of which one has a hart. How long a host has to wait depends on that number, as a command may have to wait for a
  round of polling: the run has the pause for which `CommandsAreDone` is proved, `10 + 8 * (stalls + 1) + LastSlot` edges, that is 27 for
  a RISC-V clock that stands still for at most `stalls` = 1 edge in a row and for `LastSlot` = 1. The least pause for which TLC finds `DoneAsAsked` to hold is
  shorter: 22 for one stall and up to 7 slots more, then 28, 36 and, with the 64 slots of the code, more than 80; 16 to 31 without stalls and with up to 16 slots.
  With 64 slots the proved bound is 89 edges for one stall and 105 for three in a row; a write of `ReveOCD` takes at least 53 edges of TCK, which
  are 106 APB edges at the ratio of `reve`. So its pause suffices if the RISC-V clock stands still for three edges at most.

### Properties

*Cdc2Phase.* `LinkSpec` (refinement of `OnePlaceLink`), `HandshakeInv` (which combinations
of toggles occur; the inductive invariant), `OfferIsStable`, `BothSidesProgress` (an accepted word is
offered, and the source becomes ready again).

*Fifo.* `RingInv` (the two pointers and the count agree), `QueueSpec` (refinement of `BoundedQueue`).

*DmiDtm.* `ReadReturnsOwnAnswer`: a word read with status 0 after a read is the answer
to that read. `NoSilentDrop`: a scan that was dropped leaves a busy error until
dmireset. `ExecutedInOrder`: the debug module executes the accepted requests, each once, in
order. `QueueNeverFull`, `RequestsSpaced`, `EventuallyIdle`, and for a patient host `NeverBusy`.

*DebugModule.* `HaltedIsParked`, `BusyWhileExecuting`, `CommandEffect`, `ResumeAckIsFresh`,
`NoCommandLost`, and the liveness properties `CommandFinishes`, `HaltTaken`, `ResumeTaken`.
`ResumeAckIsFresh` compares `resuming_q` with a history that uses nothing of the acknowledgement: `owed[h]` is set by every write that
asks halted hart `h` to resume, also one that the register does not show as a rise, and falls when the hart is outside the ROM. It holds
because only a rise is needed: an acknowledged request has fallen before its hart can halt again (`AckBeforeHalt`, in the proof).
`NoCommandLost` allows one loss: when a resume is begun, `dm_mem.sv:134-137` overrides the transition to Go and the
command vanishes without an error. A resume request that the FSM does not follow must not cost one. Where a hart was reset (`wasReset`) the code does not keep the stronger
statements: `halted_q` survives ndmreset (`dm_mem.sv:466`), and a command cut off by it is ended by the next HALTED report without
having been executed.

*SystemBus.* `MemoryAsAsked` and `ReadIsCurrent` speak about calls whose requests were not
dropped (`sbbusyerror` clear); `NeverBusy` says when none is. In one sequence of calls the
code really fails: `lastwradr` survives a `readbus` (`ocd.py:121-129`), so
`writebus(a)`, `readbus(x)`, `writebus(a + 4)` sends only the data word; the
bus master then writes it to `x`, for the read has set sbaddress0 and
turned the auto-increment off. No document of the
repository promises otherwise, and `dbgjtag.py` makes no such sequence, so it is
recorded as a hazard. `MemoryAsAsked` bounds the damage: such a call may cost the word it means and the word the address register
was left at, and a session that cuts off a write that word and word 0; `cut` notes them, every other word is as asked, and so are the two once they have been written again. A busy error that a new session has wiped out (`wiped`) sets the memory aside.

*JtagSession.* `InStep`: the engine's copy of the TAP state is the TAP's state between any two operations.
`InstructionInForce`: between calls the instruction register holds what `currentir` says.
`ReadReturnsCaptured`: `read_dr` returns the captured word, all of it and in order.
`PortSpec` (refinement of `DmiPort`): while a session is open Update-DR happens only with the words the calls gave and in
their order, the empty request left behind by a read included, and no word is still owed when the next call
starts, except that one. It also shows an oddity: the empty request of a read is delivered only when the *next* call leaves Update-DR.
After an aborted session the TMS reset may deliver a fragment of a word; `DmiPort!Stray` permits this, because the code does nothing against it.

*ReveDtm.* `RemoteSpec` (refinement of `RemoteAccess`), `HandshakeInv` (the phases of the four levels; the inductive
invariant), `NeverBusy` (a host with ReveOCD's waits is never refused), `EventuallyIdle`.

*ReveDebug.* `StatusIsCurrent`: what the module shows of its hart is true, or a message or an answer is on its way, for every host.
`DoneAsAsked`: a patient host finds the register and data0 as its commands should have left them, and no command refused for another still under way.
`ProgramUntouched`: its debug instructions never replace one of the program or of the program buffer. `CommandFinishes`, `HaltTaken`, `ResumeTaken`.

Each module has one type invariant. Those of `Cdc2Phase`, `Fifo` and `ReveDtm` are conjuncts of the invariant the run checks, those of
`DebugModule` and `DmiDtm` are checked and proved, those of `SystemBus`, `ReveDebug` and `JtagSession` are only proved, the last as
a conjunct of `SessionInv`.

### Fairness

* `Cdc2Phase`: weak fairness of each clock, and the destination does not refuse an offered word
  for ever (`Consume`): in `dmi_jtag.sv` ready is constantly 1, in `dm_csrs.sv` it is a queue with room.
* `DmiDtm`: weak fairness of each clock only, `dmi_resp_ready` and the queue being part of the model. TCK is
  driven by the host, which keeps it running while a session lasts.
* `DebugModule`: weak fairness of the clock and of every hart in the ROM (it executes
  a loop with no way to stop), and of a running hart entering debug mode while
  its interrupt stays raised. The program buffer is assumed to end, in `ebreak` or in a trap. Nothing is
  assumed of the debugger.
* `ReveDtm`: weak fairness of each clock; the bus answers within `MaxWait` edges.
* `ReveDebug`: weak fairness of `Tick`, an edge with a RISC-V tick, without a write and without an event from outside:
  writes are at least a gap apart and the gated clock stands still for a bounded time.
* `Fifo`, `SystemBus` and `JtagSession` state safety only.

Deadlock is checked in every run.

## 4. The proofs

TLAPS proves, for every value of the constants:

| theorem | says |
|---|---|
| `Cdc2Phase_proofs!HandshakeIsInvariant`, `ImplementsLink`, `OfferStays` | `Spec => []HandshakeInv`, `Spec => LinkSpec`, `Spec => OfferIsStable`, for any set of words |
| `Fifo_proofs!RingStaysWhole`, `ImplementsQueue` | the pointers and the count agree, and the ring is a bounded queue, for any depth, pointer width, mode and words |
| `DmiDtm_proofs!TypesHold`, `DropsAreReported`, `RequestsKeepTheirOrder` | `TypeOK`, `NoSilentDrop`, `ExecutedInOrder`, for any host, any ratio of the clocks, any lengths and queue |
| `DmiDtm_proofs!QueueHasRoom` | `QueueNeverFull`, for a queue of two places or more, if `CableInTime`: every cable makes less than a fifth as many TCK edges within a clk edge as a dmi scan has bits |
| `DmiDtm_proofs!ReadsReturnTheirAnswer` | `ReadReturnsOwnAnswer`, if `CableInTime`, for any depth of the queue and hosts that do not wait |
| `DmiDtm_proofs!PatientHostsAreNeverBusy` | `NeverBusy`, if `CableInTime` and a patient host stays in Run-Test/Idle for five clk edges and four TCK edges after a read |
| `DmiDtm_proofs!CrossingSpacesRequests` | `RequestsSpaced` if `DmiGap <= 3`: the crossing alone leaves three edges between two requests |
| `DebugModule_proofs!TypesHold`, `HaltedStaysParked`, `ExecutingIsBusy`, `ResumeAckStaysFresh`, `CommandsTakeEffect` | the four invariants and `CommandEffect`, for any number of harts, any register contents, any debugger that keeps `HostRule` |
| `DebugModule_proofs!NoCommandIsLost` | `NoCommandLost`, for one hart and any gap above 0 |
| `SystemBus_proofs!SlowDebuggerIsNeverBusy` | `NeverBusy`: on a bus no slower than the debugger the busy error is never set, for any memory |
| `SystemBus_proofs!BusTypesHold`, `MemoryIsAsAsked`, `ReadsAreCurrent` | `TypeOK`, `MemoryAsAsked`, `ReadIsCurrent`, for any memory, address space, bus and pace |
| `JtagSession_proofs!SessionIsInductive`, `TapStaysInStep` | `SessionInv` and `InStep`, for either transport, registers of any length, any words, and sessions cut off anywhere |
| `JtagSession_proofs!RememberedIsSelected`, `ReadsAreWhole`, `SessionIsPort` | `InstructionInForce`, `ReadReturnsCaptured`, `PortSpec`, for the same with the FTDI transport; `jtag_sim` shows that the first fails with the other |
| `ReveDtm_proofs!HandshakeHolds`, `ImplementsRemote` | `HandshakeInv` and `RemoteSpec`, for any ratio of the clocks, any bus latency and any host |
| `ReveDtm_proofs!FixedWaitsSuffice` | `NeverBusy`, for two APB edges or more per TCK edge, any waits and any bus, if the crossing there and back with the longest access fits into both waits (`WaitsSuffice`) |
| `ReveDebug_proofs!TypeCorrect`, `StatusIsNeverStale` | `TypeOK` and `StatusIsCurrent`, for any number of harts, any words and any pacing |
| `ReveDebug_proofs!CommandsAreDone`, `ProgramIsUntouched` | `DoneAsAsked` and `ProgramUntouched`, for any number of harts, any words and any bound on the stalls of the RISC-V clock, if a patient host leaves `Deadline` edges between its writes and selects the hart there is |

The assumptions are the named `ASSUME`s of the modules (sets are non-empty, bounds are naturals) and the hypotheses in the table. The hypotheses
are met by the constants of the runs.

*The crossing.* `HandshakeInv` is inductive as it stands. The seven handshake bits, in the order in
which a toggle travels, differ in at most one place (`OneToggle`); a wire moves only while its toggle
has not entered the other domain (`MovingIsNew`); the word on offer is the word accepted (`DataIntact`).
For the refinement the link holds a word exactly while `req_src_q` and `ack_dst_q` differ.

*The transport.* What one crossing does is not proved again: `DmiDtm_proofs` instantiates `Cdc2Phase_proofs` once per direction and cites its
lemmas. `OrderInv` says how far the last accepted number is ahead of the last executed one: by one
for a request that waits in the FSM and by one for a request that travels, and that the one
travelling is the next. `SpacingInv` says that gap has counted an edge for each flip-flop of the destination that a new toggle has passed.

*The timing of the transport.* `PaceInv` relates where a request or an answer is in its crossing to `Scanned`, a lower bound on the TCK edges since the FSM took the
request. A place is left with every clk edge, and a clk edge comes after at most `maxTckPerClk` of TCK; a new request needs a whole scan. With `CableInTime` the scan is longer than
the five clk edges a request needs, so at most one request or answer is under way that the FSM does not wait for (`OneInFlight`), and the queue
drains faster than it fills. `OwnAnswerInv` adds that the answer found while the FSM waits is the one to its request, `PatientInv` that
after a patient read the FSM is idle again before the next capture. `CableInTime` is sharp for 41 bits: 8 TCK edges per clk edge are covered, and TLC shows `ReadReturnsOwnAnswer`
violated at 9. So are the waits: with 3 TCK edges per clk edge the theorem asks for 19 edges of Run-Test/Idle, TLC finds 18 too few,
and PulpOCD makes 21.

*The queue.* `RingInv` is inductive: the write pointer is the slot as far behind the read pointer as the count says.
`AdvanceWraps` shows that the two ways of wrapping a pointer, by comparison and by overflow, come to the same.

*The debug module.* None of the invariants is inductive. `RunControlInv` adds `CommandOwner`
(in `Go` only the selected hart can be about to report `going`, and only in `CmdExecuting` is a hart,
the selected one, past it), `AckBeforeHalt` (a resume request that stands acknowledged has no halted hart: a rise would have lowered the
acknowledgement, and the hart can report halted only after the edge at which the request falls) and `DeselectIsQuiet` (a module that was deactivated while another hart than 0
was selected has nothing under way for it). `CommandOwner` is what makes a command found at `WhereTo`
always a jump, `BusyWhileExecuting`, and the `halted` report at its end unambiguous. There is
one lemma per conjunct for a clock edge, and `EnterDebugKeeps` for a hart that enters debug mode. These invariants
do not depend on how far requests are apart. `CommandAtWork` (past `exec`, the register and data0 agree) gives `CommandEffect`; `FreshCommand`
(a command is taken one edge after its request, by a module that was idle then) gives `NoCommandLost`; its proof uses the gap.

*The system bus.* `PaceInv` bounds what an access may still take by what the debugger still
has to wait: `sbbusy => gap + latency >= DmiGap`, with `latency` at most `maxLatency - 1`;
when the gap is used up the access has ended. tlapm's SMT translation does not
do sums of primed variables, so the arithmetic is in lemmas about constants.
`MemoryInv` follows a call: `todo` is always what is left of one call at some stage (`Rest`), `Track` says where the address register then
stands and whether it will be incremented, `Memory` that a word of the memory may differ from what was wanted only while it
is owed, by the call or by the write the master has not been granted yet, and that the master holds the right word; `Reading` is the same for a
word to be fetched. For a run that strays `Track` says that both its words are in `cut`. All of it is suspended once a busy error is noted.

*The Reve transport.* `HandshakeInv` is inductive: one change travels round the complete ring at a time (`OneChange`), ready rises and falls
once per request (`ReadyOnce`), its acknowledgement overtakes nothing (`AckFirst`), and what is left of the request before has drained when it could be mistaken
(`Drained`). For the refinement the stage of a request is `jtag_busy` and the number of accesses performed.

*The fixed waits of ReveOCD.* `PaceInv` gives every state of the handshake the number of TCK edges that have passed since the request at most: the longest access and nine
APB edges until complete rises, six until it has fallen, and what the flip-flops of TCK add (`Latency`). `apbEdges` counts the
edges since the last of TCK, which ties the two clocks together.

*The Reve debug module.* `StatusIsCurrent` is inductive relative to `TypeOK`: an edge that changes the hart's flags raises
attention in the same edge, whatever else happens at it.

*Commands of the Reve module.* Nothing in the module says that a command has ended in the hart: busy falls when the program buffer is started. So `PatientInv` names the
sixteen stages of a command, each with all the registers of module, hart and pipeline that matter at it, and with the edge by which it has ended, in edges since the write and ticks
of the RISC-V clock: `Taken`, `Chosen` and `Sent` in the module, `Given`, `Fetching`, `Executing` and `Retired` in the pipeline, `Answering` (within `News` edges, the
distance of the hart's answer, which includes the round of polling), `Turning` and `Calling` for the program buffer, then `Called` to `Ending`. Between commands, `Idle` has a run control that may still be at work on a halt or resume (`Resuming`;
`Lag` counts the ticks to the first instruction of the program, which makes the register unknown). When the last stage has passed no later than `Deadline`, the next write finds
`Idle`. The stages are also why no debug instruction meets one of the program.

*The session.* `SessionInv` describes a session from the side of what is still to come. A `Situation` is where the TAP may rest between two calls of the engine: its state, the register that the instruction
selects, the words still owed, whether a read has been kept. `Leads(p, a, b)` says that the calls `p` go from one to another, and `Ahead` that those left in `plan` end where
PulpOCD remembers to be. For the call under way there is one predicate per place a scan can be in (on the way to the register, shifting, leaving it), down to the bits already in the register
(`Filled`) and those on the wire; `Resetting` counts the five ones that bring a TAP in an unknown state back after a session that was cut off. That `find_path` takes the
intended ways is proved from the two tables: the walks of up to four edges from the states the engine starts in (`FromHub`), and the shortest of them (`ShortestPath`).

Only model-checked: the liveness properties (`BothSidesProgress`, `EventuallyIdle`, `CommandFinishes`, `HaltTaken`, `ResumeTaken`), because TLAPS handles neither fairness nor
ENABLED; and that the properties of the four runs of section 5 fail. Every invariant, action property and refinement that a passing run checks is also a theorem. No module uses RECURSIVE operators.

## 5. Findings

* `dm_csrs.sv:336-339` says that no abstract command is started until cmderr is 0. The
  code starts it (`dm_csrs.sv:350-354`, `dm_mem.sv:124`): run `dm_cmderr`.
* `dm_mem.sv:199` says that the resume acknowledgement is lowered when the request is
  deasserted. It is lowered when the next request is raised (`dm_csrs.sv:470-472`): run `dm_resume_ack`.
* `ocd.py:43` takes `write_vir` for every controller with an attribute `virtual`. `JtagSimController`
  has it, set to False (`sim.py:13`), so in simulation the last instruction scan is the ten
  bits of 0xC in a five-bit register: BYPASS. `src/readme.md:25-26` describes this very use
  (`python3 dbgjtag.py s pulp`): run `jtag_sim`. `reve/ocd.py:39-44` does the same; `murax/ocd.py` tests the value.
* `riscv_jtag_apb_dm.v:388-390` says that complete is indicated after ready has been taken away. It is raised as soon as the access is over
  (lines 425-434): run `reve_complete`. It matters when TCK is as fast as the APB clock: `ready_ack` may then still stand when the next request comes,
  whose ready is withdrawn before the APB side has seen it, and the request is lost for good. With two APB edges or more per TCK edge, or with the behaviour of the
  comment at any ratio, `EventuallyIdle` holds.

Met while modelling, and not checked by a run:

* *Reve.* `riscv_i32_debug.v:741` has an assertion "ASSERTION FAILED:Argh" for a state that every program buffer reaches: busy is cleared before the program buffer has run.
  Debug mode does not mask interrupts: one that is pending with mstatus.mie set flushes debug instructions, which nobody then answers, and
  the command stays busy until dmactive is cleared or the hart resumed; it overwrites depc, too, as an ebreak that coincides with a halt does.
  A resume request that is made to a running hart, and held until its program stops by itself, starts it again. Once dmactive was low only the selected hart's status is refreshed.
  `haltsum0` selects with bit 4 of the hart number where bit 5 is meant (line 186).
* *`reve/ocd.py`.* `op_status` 3 drops every later request until dtmcs is written, and cmderr blocks every later command until it is cleared; ReveOCD looks at neither.
* *`dbgjtag.py:195-196`* calls `ocd.reset()` and `resetrelease()`, which PulpOCD and ReveOCD do not define, and `JtagError` is not imported.
* *`dm_csrs.sv:242`.* DataEnd and ProgBufEnd are the first address behind their range, yet the comparison is inclusive.

## 6. Not modelled, and what is left

* *Vendored code.* `src/ppci` (a compiler), `src/usb`, `src/pyftdi` beyond the state table and the transport, and the pulp IP under `src/pulp/ips` other than
  riscv-dbg are by far the most of the lines of the repository. They are other projects' code, used through a few calls or instantiated as a whole, and not the logic of the debugger; a model
  of them would say nothing about it. This is why the models cover a small share of all lines.
* *Murax and Saxon.* The instruction injection of `murax/ocd.py` is right or wrong by what the VexRiscv debug plugin does with the instruction, and the plugin is in the repository
  only inside generated Verilog of whole SoCs. A model would check the debugger against a guess.
* *`Blaster`.* Its byte shifts and virtual JTAG are not used by the two debuggers modelled; the odd case of `blaster.py:75` (a multiple of 64 bytes) is not reached by any register
  of theirs.
* *`setreg2`* is arithmetic on constants without state; `loadbinary` and the script of `dbgjtag.py` are sequences of the calls that are modelled as coming in any order.
* *Simulation framework.* The server of `simframework/jtag.h` keeps no state between two requests.
* *The pace of the pulp hart* (`src/pulp/ips/riscv`, vendored): `PulpOCD.halt` lowers haltreq one scan after it raised it (`ocd.py:93-96`) and never looks whether the hart
  has halted. How long the hart takes depends on its pipeline; `DebugModule` lets it take any time, so `HaltTaken` speaks of a request that still stands.
* *Within the modelled parts:* TRST, havereset, autoexecprogbuf, `haltsum`, sbaccess other than words, sbreadondata and sberror; in Reve single step, breakpoints, depc, and idcode.

What could come next, in this order: a `PulpSession` that puts the calls of `PulpOCD` on top of `DebugModule` with the spacing and order that `DmiDtm` promises, to ask whether the
fixed waits of `readreg` suffice; `Blaster` as a third transport of `JtagSession`.
