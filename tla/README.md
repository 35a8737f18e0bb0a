# A verification project for smsggrecomp

smsggrecomp translates Sega Master System and Game Gear ROMs into C and runs
the result against a model of the rest of the machine. This directory holds
TLA+ modules for the parts of it whose correctness depends on order, time and
history, TLC configurations that check them on small instances, and proofs of
the main results for every value of the parameters.

Contents: [the system](#the-system), [the modules](#the-modules),
[runs](#runs), [bounds](#bounds), [fairness](#fairness), [proofs](#proofs),
[disagreements](#disagreements), [assumptions](#assumptions-on-the-compiled-program),
[what is not modelled](#what-is-not-modelled), [plan](#plan). File names are
relative to the repository's root.

## The system

Two programs share a ROM. `SmsRecomp` (`recompiler/src`) discovers the routines
of the ROM, each under a bank, and emits one C function per routine and a
dispatch function `call_by_address`. The runner (`runner`) links that C with a
bus, a mapper, a VDP, a PSG, interrupts, and superzazu's Z80 interpreter, to
which it hands any address the compiler did not know. What had to be interpreted
is written to a manifest, which the next build of the game reads.

Everything runs on one thread. The concurrency is in the C call stack: a tick
before an instruction may run the video, an interrupt handler and, inside that,
further ticks, before the instruction's own body runs. `frame_completed` may
also leave the whole run with `longjmp` from any depth.

| Component | State | Operations | Interacts with |
|---|---|---|---|
| Timing and interrupts (`runner/glue.c` 459-735) | `g_z80.cyc`, `g_next_line_cyc`, `g_sync_deadline`, `g_frame`, IFF1, `ei_block`, `halted` | `sms_tick`, `sms_sync`, `advance_vdp`, `take_irq`, `sms_halt`, `frame_completed` | called by compiled code before every instruction; drives the VDP and the PSG; calls the handler |
| VDP (`runner/video/sms_vdp.c`) | registers, VRAM, CRAM, address and code, line, counters, flags | port reads and writes, `vdp_step_line`, `vdp_irq_asserted`, rendering | ports from compiled and interpreted code; lines from `advance_vdp` |
| Compiled code (`code_generator.c`) | none of its own: `g_z80`, the Z80's memory, the C stack | one C function per routine; CALL, RET, JP, ticks | `call_by_address`, ticks, bus, ports |
| Calls and returns (`code_generator.c` 615-700, `glue.c` 641-679, 804-892) | Z80 stack in memory, C stack, the interpreter's `entry_sp` and `depth` | push and call, RET as C return, the propagation guard, the interpreter's exit rule | compiled code, interrupts, interpreter |
| Hybrid interpreter driver (`glue.c` 777-892) | `g_hz`, base time | enter, step, leave | copies registers both ways; same bus, ports and video |
| Mapper and bus (`glue.c` 345-401) | `g_bank`, RAM | `sms_read8`, `sms_write8`, `sms_slot_bank` | dispatch, interpreter, manifest |
| Dispatch and manifest (`glue.c` 178-221, 1087-1125) | `g_manifest`, `dispatch_manifest.txt` | miss, record, load | next build's `manifest_seed` |
| Discovery (`function_finder.c`) | function list, pagers, dispatch slots, data intervals, per-trace bank state | trace, seed, iterate to a fixpoint | reads the ROM through `rom_parser.c`, feeds the generator |
| Z80 decoder (`z80_decoder.c`) | none | length, operands and control flow of an instruction | tracer, generator |
| Generator (`code_generator.c`) | current trace and bank state | direct or dispatched targets, emission order, cycles of each instruction | function list |
| Flat backend (`code_generator.c` 950-1200) | images of one program | one guarded case an address, one instruction a call | a host that interprets what misses |
| Seeding (`main_sms.c`) | function list | vectors, extra entries, jump tables, manifest | `game.toml`, manifest file |
| PSG (`runner/audio/sn76489.c`) | registers, counters, sample scratch, leftover cycles | write, advance, render, save, load | advanced by `advance_vdp`, drained at frame end |
| Differential harness (`glue.c` 901-1084) | snapshots | run both engines on one routine and compare | freezes the video |
| Coverage route (`coverage_route.c`) | events, next event | commands at frame ends | RAM, pads, captures |
| Host (`host_sdl.c`, `main.c`) | window, pads, frame deadline | present, pace | called by `frame_completed` |

What is hard here, and what makes each part correct:

- **Time.** Compiled code charges cycles ahead of each instruction and looks at
  the VDP only when a precomputed deadline is reached. Correct means: no line or
  frame event is skipped, repeated or early, an interrupt is taken where a Z80
  would take it, and this through nested handlers, HALT loops, block
  instructions and stretches run by the interpreter on its own clock.
- **Two stacks.** A RET adds 2 to `sp` and returns in C. Correct means that C
  control is always where the Z80's program counter would be.
- **Two readings of the ROM.** The compiler fixes a bank for every byte it
  decodes, the machine switches banks while it runs. Correct means that compiled
  code only ever runs over the bytes it was compiled from, and that what has to
  be interpreted once is compiled in the next build.
- **Discovery.** Passes over a growing list of entries, each reading what the
  passes before it found. Correct means that every routine the program reaches
  is an entry in the end, in whatever order things are found; that a body's C
  goes where the Z80 goes, though it is emitted in address order; and that a
  jump table whose size is claimed proven misses no pointer.
- **One instruction, three readers.** Decoder, generator and interpreter each
  have tables of lengths, branches and cycles. A byte of difference misaligns
  the code behind it, a cycle moves every interrupt.
- **Frame ends.** `frame_completed` runs scripts, a route, the sound, a dump and
  the window, and any of them may end the run by a `longjmp` that skips the
  rest. Correct means that nothing due is skipped and nothing is done twice,
  that sound and report account for every cycle, and that pacing does not drift.
- **Latches.** VDP and PSG take commands a byte at a time, and a handler may cut
  in between. Correct means that a transfer reaches the cell it names, for
  programs that mask interrupts where the devices demand it.
- **Testing in flight.** The harness runs a routine twice in the middle of a
  program. Correct means that its verdict is about the routine and that the
  program does not notice.

`PROJECT.json` lists every component with its status and every hazard at the
line where it bites.

## The modules

| Module | Models |
|---|---|
| `VdpTiming` | the VDP as a record and its operations as functions: line counter, line-interrupt counter, flags, enables |
| `SmsTiming` | cycles, deadline, sync, handlers, HALT, block instructions, hybrid interpreter and reference interpreter |
| `Z80Irq` | abstract: the interrupt contract of a Z80, without clock, deadline or C stack; `SmsTiming` implements it |
| `CallStack` | the Z80's stack and the C stack, the guard of every call, the interpreter's exit rule |
| `Banking` | live banks, compiled banks, dispatch, misses, manifest, rebuilds |
| `PsgStream` | the PSG's sample clock and scratch buffer, as functions |
| `Session` | a whole run, from the command line to the exit status, with the stages of every frame's end |
| `Ports` | the VDP's memories and the PSG's registers behind their latches, under a program and its handler |
| `Discover` | the tracer, the fixpoint over entries, what each pass harvests, emission order; and the emitted code beside the Z80 |
| `JumpTable` | the symbolic simulation that recognises a jump table, beside a Z80 |
| `DiffHarness` | a test of one routine inside a running program |
| `Decoder` | decoder and generator against the interpreter, for every encoding |
| `FlatStep` | the flat backend's cases against live memory; extends `Decoder` |
| `MCSmsTiming`, `MCCallStack`, `MCBanking`, `MCSession`, `MCDiscover` | the instances TLC checks |
| `SmsTimingProofs`, `CallStackProofs`, `BankingProofs`, `SessionProofs`, `PortsProofs`, `DiffHarnessProofs` | theorems about the module of that name |
| `CompilerProofs` | theorems about `Decoder`, `FlatStep` and `JumpTable` |
| `DataLemmas` | facts the proofs share: sequences used as stacks, induction, functions defined by recursion |

Definitions named "Mistake" in a comment are not used by the specifications.
Each is a plausible wrong version of the definition that follows it, and serves
to confirm that the properties notice it.

### SmsTiming

The variables are the globals of `glue.c` by name (see the comments). `ctl` is
the part of the C stack that time can see: the instructions whose `sms_sync`
waits for a handler. `pc` says what the innermost activity is.

| Action | Code |
|---|---|
| `Tick`, `BeginBlock` | the `sms_tick(n)` emitted before a body; repeating block instructions have none |
| `AdvanceLine` | one turn of `advance_vdp`, with `frame_completed`'s count, limit and `longjmp` |
| `AcceptIrq`, `NoIrq`, `Return` | `sms_sync` from the interrupt test on: `take_irq`, the new deadline, the return of the handler |
| `Plain`, `EnableIrq`, `DisableIrq`, `AccessPort`, `BlockIteration` | bodies; a taken branch adds cycles with no tick (`Surcharges`) |
| `BeginHalt`, `HaltSync`, `HaltBail`, `HaltWake` | `sms_halt` |
| `EnterHybrid`, `HybridStep`, `HybridContinue`, `ExitHybrid` | `hybrid_interpret`; started with `top` set (`Engines`), `glue_run_interp` |

`sms_tick` and `sms_tick_post` live in the z80-recomp-core submodule, whose
source is not in this repository. Their order (charge, sync at the deadline,
then end the EI slot) is taken from how the emitted code and `sms_sync` use
them; for `sms_tick_post`, where the slot may end before or after sampling, both
are allowed.

### CallStack

`z` is the Z80's stack, `frames` the C frames that wait for a C function. A
return address is a serial number, so that "the frame that resumes is the one
whose address was popped" can be said. `Idioms` says what the program does
beyond calls and balanced data: discard return addresses ("abort N frames"),
have interrupts, make computed calls in interpreted code, pop its caller's
registers there. Interpreted code is modelled instruction by instruction with
`z80_step`'s order: execute, then possibly accept an interrupt in the same step.

### Banking

Addresses are cells: `SlotSize` of them in a slot, the first `FixedSize` never
paged, one for RAM. The code at a cell *is* the bank number it was read from, so
"runs the right code" is `Decoded(fn, pc) = Live(pc)`: the bank the compiler
decoded is the bank the bus would read. `Flow` moves inside a body, `Call`,
`TailJump` and `Return` between bodies, `Map` stores to a mapper register,
`Restart` runs the same build again, and `Rebuild` compiles with the manifest
as it stands on disk. A row's checksum is abstracted to what it decides: whether
the compiler reads the bytes the runtime read.

### Session and PsgStream

`opt` is the command line as `main` parses it, `pc` where the run is: `main`,
`guest`, `exit` or one of the stages of `frame_completed`. The guest is reduced
to the cycles it takes and who runs them (compiled code or the interpreter), and
its memory to the one cell that a route writes and tests.

| Action | Code |
|---|---|
| `Start` | `main` up to the run: refused arguments, the frame limit, a route's frame 0 |
| `GuestStep` | one call of `advance_vdp`, from `sms_sync` or from `hybrid_interpret`, with the PSG's advance and the interpreter's accounting |
| `GuestStores`, `GuestReturns` | a store to the cell; the reset routine returns |
| `ScriptInput` | `press_provider` |
| `RouteCommand`, `RouteFails`, `RouteDone` | `coverage_route_frame`, a command at a time, and its failure |
| `DrainSound` | a turn of the loop that empties the PSG's scratch into the sink |
| `Dump` | the frame to dump |
| `Headless`, `Present` | the window: keyboard, `host_pace`, closing |
| `LimitReached` | the last frame |

Four of these leave the run with `longjmp`; `ending` says which did. `used` and
`host.worst` are histories: the cycles the guest really took and the most time
the host lost in a frame.

### Ports

Two programs, main and handler, each with its transfer in progress (`job`): it
selects a cell and a direction with two control bytes (`Control`), then moves
data (`Write`, `Read`), or sends a latch and a data byte to the PSG
(`SoundWrite`). `Interrupt` may come between any two of main's accesses that
main has not masked, and begins with the status read that resets the latch.
`Manners` says what main masks: the two bytes of a command, if the handler
leaves the ports alone otherwise ("pair"), or a whole transfer ("job"). `meant`
is the history the devices are compared with.

### Discover

An instruction is its length, its control flow and what the finder reads of its
operation. `Visit` is one turn of `ff_discover`'s inner loop (trace the entry,
harvest its body in order: pagers, tables, vectors, islands, calls), `NextPass`
its outer loop, `Settle` its end. Then `Enter` calls a routine of the compiled
program and `Execute` runs it beside the Z80: `Fall`, `Branch`, `Computed` and
`Return` move the C by the emission order and the labels of the body, and the
Z80 by its own rules: it has a stack, with its caller's return address at the
bottom, and returns to what is on top of it, while the C returns to its caller
or goes to the label that `CallReturn` (`trace_computed_call`) recovered. A
called routine may change HL; the value is then `Unknown`, and so is where a
return to it leads. A program also lists the routines it calls and those of
them that keep HL, as the truth that discovery is compared with.

### JumpTable

A block is written one instruction at a time, so the state after n steps stands
for every block of n instructions. `sim` is what `detect_jump_table` knows (the
range of the index, the symbolic HL, the halves it holds to be zero), `cpu` a
Z80 on the path to the `jp (hl)`, entered with every index. `Idioms` says what
blocks may do besides; the checked ones do none of it. The names `BlockSpec` and
the like leave the usual ones to `FlatStep`, which `CompilerProofs` extends too.

### DiffHarness

`Enter` is `sms_diff_enter` up to the native run, `Native` an instruction of
it, `NativeReturns` the switch to the interpreter, `Super` and `SuperReturns`
`diff_run_super` and the comparison, `Abort` the way out by `longjmp`, `Program`
the program between two tests. The compiled form of the routine may be wrong in
one instruction, in a register, in memory or in time (`bug`); `Final` runs each
form alone and says what the verdict should be. `diff.env` is the environment's
wish for traces, which `sms_diff_enter` reads anew for each test.

### Decoder and FlatStep

`z80_decode`, `cyc_base` and `Emitted` are the compiler's reading of an
instruction, as functions of its bytes. The actions are the interpreter's: one
per handler (`exec_opcode`, `_cb`, `_ed`, `_ddfd`, `_dcb`) or per kind of
instruction in it, from fetch to fetch, to stage "done". Encodings on which the
two are known to differ are admitted by `Oddities` only. `FlatStep` then
compiles the address from images that may differ from memory (`Compile`); `Case`
is the bytes that the generated case executes, and `First` the alternative whose
operands a case may read live. Where the C tests one condition after the other,
so do the definitions: arms of a `CASE` never overlap.

## Runs

| Run | Properties | Shows |
|---|---|---|
| `timing` | `TypeOK` `Lockstep` `NeverAhead` `DeadlineSound` `PollUnlessArmed` `BodyInLine` `EiSlot` `HaltEndsByIrq` | the game run compiled (with handlers, HALT, block instructions and interpreted routines mixed freely) or by the reference interpreter: video and CPU keep step, no deadline is lost, an unsampled interrupt is only ever the one a register write raised since the last sync, bodies run on their line, EI's slot survives every handoff, HALT with interrupts on ends by its interrupt and not by the guard |
| `refine` | `ImplementsZ80Irq` `PollContract` `RunEnds` | compiled code implements `Z80Irq` if the program enables an interrupt source only while its flag is clear; a run with a frame limit ends |
| `calls` | `TypeOK` `ResumesWhereZ80Does` | calls, tail jumps, aborts, interrupts, computed calls: C resumes where the Z80 would |
| `tail_entered` | `ResumesWhereZ80Does` | an interpreted routine entered by a jump may pop its caller's registers and abort frames |
| `banking` | `TypeOK` `RunsLiveCode` `LearntNeverMisses` | an upper slot paged at will, rows refused, restarts and rebuilds |
| `fixed_region` | `RunsLiveCode` | slot 0 paged under the fixed kilobyte |
| `session` | `RouteOnTime` `PassMeansComplete` `PadIsScripts` `SoundExact` `ReportExact` `LimitExact` `Realtime` | whole runs, left at any of the exits of a frame: scripts and routes act on time, a status of 0 means a complete route, sound and report account for every cycle, limit and pace are exact |
| `ports` | `MemoriesAsMeant` `ReadsAsMeant` `SoundAsMeant` | program and handler share the devices, on both machines: every transfer reaches the cell and register it names |
| `discover` | `FlowFaithful` `RoutinesFound` `Closed` | thousands of small programs compiled and run: every routine is found, discovery ends closed, and the emitted code follows the Z80 and its stack |
| `diff` | `VerdictRight` `Unperturbed` `Pinpoints` | every short routine with every single fault: the verdict is right, the trace names the faulty instruction, the program goes on undisturbed |
| `jump_table` | `ProvenCovers` `MatchedFromBase` | every dispatch of a few instructions: a proven table holds every pointer that can be read, and is read from its base |
| `decoder` | `SameStream` `SameCost` `FlatExact` `FlatComplete` | every encoding under all flags: the same bytes, the same way, the same cycles; and flat code compiled from stale images misses or executes exactly what is there |

## Bounds

- *Timing.* 3 lines a frame with one active line, 3 cycles a line, instructions
  of 1 and 2 cycles, branch surcharges of 0 and 1, interrupt latency 2, two
  frames, two nested handlers. A line is as short as instructions allow, so an
  instruction can end before, at and after a line event, one instruction can
  cross a whole line after a handler, and every VDP line kind (active, VBlank,
  wrap) occurs. `FrameLimit` bounds the clock; the state space is finite without
  any other constraint. `timing` starts in either engine and uses every instruction
  class, `refine` only what compiled code does by itself. `HaltSpins` stands for
  the guard of `sms_halt`, kept
  above what one frame of waiting takes. `CHECK_DEADLOCK FALSE` there because a
  run really stops, at `quit`.
- *CallStack.* 3 return addresses, 4 words of stack, 4 C frames (3 in
  `tail_entered`, a caller, its callee and the tail jump): an abort can skip two
  frames with a tail jump or a handler between them, and the interpreter can
  hold an inner call while an interrupt is pending.
- *Banking.* 4 banks, the least ROM that has a mapper and a bank that no slot
  maps at reset; 2 manifest rows, so that the table fills; 2 waiting
  frames, so that a caller's bank can be paged out and back under it; slots of 2
  or 3 cells so that a body has a second cell, on either side of the fixed
  boundary in `fixed_region`. One slot is paged in each run.
- *Session.* Frame length, sample divisor, scratch and sink are the code's own
  numbers. Ten command lines: each kind of refusal, scripts out of order and
  with two directives for one frame, routes with and without a limit, with two
  and more commands on a frame, with and without sound and window. The guest
  advances by a whole frame or by 20003 cycles, a third of a frame and no
  multiple of 16, so that frames end late and sample frames are cut. A frame of
  the host may lose nothing, its period, or six periods, past the limiter's
  resynchronisation. 3 frames, for runs with no limit of their own.
- *Ports.* 8 cells of VRAM in 2 rows of 4, 2 colours, 2 registers, transfers
  of 2 cells from the first cell, across a carry of the address and across the
  end of memory; 3 transfers, so that a handler's falls inside one of main's with
  another behind it; both machines and both manners.
- *Discover.* Slots of 32 addresses, 4 of them fixed. The programs are generated
  by family: all bodies of 3 branches, calls and returns into and out of each
  other (twice 12^3), all blocks of 4 pushes, pops, loads, other writes of HL and
  calls of routines that keep or change it before a `jp (hl)`, as far as they are
  `WellPushed` (see [assumptions](#assumptions-on-the-compiled-program)), and
  hand-picked ones for paging (in line, by a helper, from a helper that
  pages twice, by a conditional call, with A lost), tables (proven or not,
  ended by a handler, by code, by a word of RAM, banked), vectors and islands.
- *JumpTable.* A byte of 4 values (a word of 16), one table base, operands 0 and
  2, blocks of up to 7 instructions: enough for index, bound, branch, scaling
  and both ways of adding. The code's window is 64 instructions.
- *DiffHarness.* Routines of up to 3 of 14 operations and a RET, one fault; 2
  tests, so that one can nest or follow; traces of 4 entries, so that one
  overflows.
- *Decoder.* Every encoding, all 16 sets of flags, up to 3 rounds of a loop.
  Operands are zeros: no reading looks at them. In `FlatStep` up to 2 images,
  each the live bytes cut short or with one byte of 4 others: a different
  opcode, operand, or prefix. `CHECK_DEADLOCK FALSE` because an instruction,
  once read and compiled, is over.

The proofs remove these bounds for the properties they cover.

## Fairness

Only the `refine` run needs it: `FairSpec == Spec /\ WF_vars(Next)`. The runner is
one thread that never blocks, so weak fairness of the whole next-state relation
is exactly "the thread keeps executing". No fairness is assumed between actions:
`RunEnds` holds because every path through ticks, halts and handlers costs
cycles, and cycles end frames.

## Proofs

All theorems hold for every value of the constants that satisfies the `ASSUME`s
of the modules, with the extra assumptions named below.

| Theorem | States | Extra assumption |
|---|---|---|
| `SmsTimingProofs!TypeCorrect` | `[]TypeOK` | |
| `SmsTimingProofs!VideoLockstep` | `[]Lockstep` | |
| `SmsTimingProofs!VideoNeverAhead` | `[]NeverAhead` | |
| `SmsTimingProofs!DeadlinesSound` | `[]DeadlineSound` | |
| `SmsTimingProofs!PollsEveryBoundary` | `[]PollContract` | `CleanEnables` |
| `SmsTimingProofs!CodeImplementsZ80Irq` | `ImplementsZ80Irq` | `CleanEnables`, and no instruction reaches the interpreter |
| `SmsTimingProofs!UnsampledOnlyArmed` | `[]PollUnlessArmed` | |
| `SmsTimingProofs!EiSlotKept` | `EiSlot` | |
| `SmsTimingProofs!BodiesInLine` | `[]BodyInLine` | |
| `SmsTimingProofs!HaltsEndByIrq` | `HaltEndsByIrq` | `HasVBlank`: `VBlankLine` in `1 .. LinesPerFrame`; `HaltSpins >= LinesPerFrame` (192 of 262 lines, and a guard of 1048000, in the code) |
| `CallStackProofs!TypeCorrect` | `[]TypeOK` | |
| `CallStackProofs!ReturnsAgree` | `ResumesWhereZ80Does` | `Tame`: not `abort`, `preempt` and `irqabort` together; `below` or `inner` without `cont` and `irq`; `inner` without `preempt` |
| `BankingProofs!TypeCorrect` | `[]TypeOK` | |
| `BankingProofs!CompiledFromLive` | `[]RunsLiveCode` | `WellBehaved`: `Idioms = {}` |
| `BankingProofs!LearntIsCompiled` | `[]LearntNeverMisses` | `WellBehaved` |
| `SessionProofs!Types` | `[]Typed`, that is `TypeOK` and `rd <= wr` | |
| `SessionProofs!Reports` | `[]ReportExact` | |
| `SessionProofs!Limits` | `[]LimitExact` | |
| `SessionProofs!Sounds` | `[]SoundExact` | |
| `SessionProofs!Paces` | `[]Realtime` | |
| `SessionProofs!RoutesOnTime` | `[]RouteOnTime` | |
| `SessionProofs!PassesComplete` | `[]PassMeansComplete` | |
| `SessionProofs!ScriptsHold` | `[]PadIsScripts` | |
| `PortsProofs!TypeCorrect` | `[]TypeOK` | |
| `PortsProofs!WritesLand` | `[]MemoriesAsMeant` | |
| `PortsProofs!ReadsTrue` | `[]ReadsAsMeant` | |
| `PortsProofs!SoundLands` | `[]SoundAsMeant` | |
| `CompilerProofs!ReadAlike` | `[]SameStream` | `Agreeing`: `Oddities = {}` |
| `CompilerProofs!CostAlike` | `[]SameCost` | `Agreeing` |
| `CompilerProofs!FlatIsExact` | `[]FlatExact` | `Agreeing` |
| `CompilerProofs!FlatIsComplete` | `[]FlatComplete` | `Agreeing` |
| `CompilerProofs!TypeCorrect` | `[]TypeOK` | |
| `CompilerProofs!MatchesFromBase` | `[]MatchedFromBase` | `Idioms` within `wrap` and `flags` |
| `CompilerProofs!TablesCovered` | `[]ProvenCovers` | `Idioms = {}` |
| `DiffHarnessProofs!TypeCorrect` | `[]TypeOK` | |
| `DiffHarnessProofs!LeavesNoTrace` | `[]Unperturbed` | |
| `DiffHarnessProofs!JudgesRight` | `[]VerdictRight` | |
| `DiffHarnessProofs!NamesTheMistake` | `[]Pinpoints` | |

How the arguments go:

- **Timing.** `Lockstep` is inductive on top of types: only `AdvanceLine` moves
  the line, the frame or the due cycle. `NeverAhead` needs that the
  interpreter's clock starts at the CPU's and only gains on it (`HybridClock`),
  or the handoff could turn time back. `DeadlineSound` speaks of instruction
  boundaries; to be inductive it must also hold in bodies and in the HALT loop,
  from which control returns to a boundary with no new deadline, and say that
  inside a sync the deadline has been reached (`DeadlineInv`). `PollContract`
  is strengthened the same way (`PollInv`), and `PollUnlessArmed` by `ArmInv`.
  `EiInv` follows the EI slot from its instruction to the end of the next.
  `Paced` counts surcharges: each return adds one and each handler in progress
  still has one to add, hence `late * (MaxNest - Len(ctl))`; that no more than
  `MaxNest` handlers nest is `NestInv`, since only EI sets IFF1. `HaltInv` adds
  the syncs of a HALT to the lines left until the frame flag: the first sync may
  be early, every later one is a line, so the sum stays within a frame's lines.
- **Refinement.** A step of `SmsTiming` is a step of `Z80Irq` or a stutter:
  everything from the tick to the end of its sync is one boundary, and a body is
  the instruction. The lemma that makes it work is `SlotInv`: the EI slot is
  over whenever a body that followed a tick runs.
- **Stacks.** `CallInv` has five parts. `Serials`: serial numbers grow along
  the Z80's stack and along the C frames. `Placed`: every return address on the
  stack has its frame, at the `sp` that frame expects, and lies below what later
  frames put there. `IrqKept`: an interrupted address stays on the stack until
  its handler's RET. `Unwound`: during a C return one frame waits for exactly
  the address that was popped and every later one expects a deeper stack.
  `Interpreted`: what the interpreter pushed lies above `entry_sp`, native
  addresses below, and `depth` counts no more than the inner addresses there
  are (`Inside`). Then the guard's comparison of `sp` decides exactly whether
  the frame's address was the one popped. A routine that pops its caller's words
  or drops its own calls (`Strays`) takes the stack below `entry_sp`, and the
  count turns round: the interpreter's words still lie above the native ones,
  and `depth` counts no fewer than there are, exactly as many unless some are
  dropped (`Astray`). A RET that leaves, at depth 0, then leaves none behind; a
  count too high only delays it, to a RET whose frame still waits. Hence the
  exclusions of `Tame`: a computed call or an interrupt's push makes the count
  too low, and a delayed exit passes over an interrupt's frame, which `take_irq`
  resumes without a guard. `Tame` excludes no more than it must: with each of
  the six combinations it names, and nothing else, TLC finds the property
  violated at the bounds of `tail_entered` (`{"abort", "preempt", "irqabort"}`,
  `{"below", "irq"}`, `{"below", "cont"}`, `{"inner", "irq"}`,
  `{"inner", "cont"}`, `{"inner", "preempt"}`).
- **Banking.** `LiveInv` says besides the types that no live or recorded bank
  exceeds the ROM and unpaged slots keep their reset bank (`BanksInv`), that an
  entry of the fixed region is bound to bank 0 unless slot 0 itself is paged
  (`FixedInv`), and that on the stack the running routine agrees with the live
  banks while every waiting one agrees with the bank it left in its slot
  (`StackInv`). A return re-establishes the first from the second, a dispatch
  from its switch on the live bank. `LearntInv` adds that every pair on record
  at the build is an entry.

- **Session.** Each theorem has its own invariant over `Typed`, none needs more
  than the others' types except where said. `Clock` places the guest's time
  within its frame, by stage: before the frame it is in, after the one it has
  just completed; with `Dumps` (every stage behind the dump has it) it gives
  `LimitExact`. `Audio` says that the scratch is empty when a frame begins and
  that a frame's time is all in it: `Clock` bounds that time by two frames,
  hence the scratch by 7468 of its 8192 places, so it never drops a sample.
  `Pace` bounds the deadline from both sides by the frames shown. `Script` says
  by stage which commands are behind `next`; that a route is in the order of its
  frames, which `coverage_route_load` checks only for neighbours, is `Sorted`,
  an induction carried by the least counterexample (`Least`).
- **Ports.** `Inv` says of each program between two of its bytes that the
  devices' latches hold what it put there: the first control byte (`Latched`),
  the PSG's register (`Named`), the address of the next cell with the read-ahead
  buffer (`Addressed`), the low half of a colour (`Coloured`). `Exclusive` says
  that only one program is between two bytes of a kind, which is what masking is
  for; a step of one then leaves the other's facts alone, and the handler's
  status read resets a latch nobody needs. `Held`, on top of it, compares the
  memories with `meant`. The arithmetic is that of rings: a step on in one is a
  step on in the address, and because `VramSize` is even, the parity of an
  address survives the wrap, so that a colour's halves meet.
- **Scripts.** `press_provider` searches the directives one by one and keeps
  the best so far: the model's search is a recursive function over them, and
  `ProviderFinds` says of each of its values that it is the last directive of
  the latest frame among those searched. `Handed` carries that from the stage
  that asks to the guest that reads the pad.
- **Jump tables.** `AddressInv` says what the symbolic registers mean: HL is
  `base + scale * a` in a word (`Address`), a pair with a constant holds it
  (`Pairs`), a half held to be zero or a copy of A is one (`HalvesHeld`); and that
  what the address is made of has been loaded and will not be again, which is
  what the idioms excluded are about. Each way of adding is a lemma on remainders
  (`Moved`, `Shifted`). `RangeInv` says that A is within the range the simulation
  gives it and that the carry is that of the compare it remembers; so an index
  that the block lets through reads within the proven table. `And` is the Z80's,
  a recursive function of the bytes, and is shown to exceed neither operand.
- **Decoder.** The interpreter reads an instruction byte by byte, the compiler at
  once, so the invariant (`ReadInv`) says, handler by handler, which byte is in
  hand and how many cycles and refreshes are counted so far (`AtStep`, `AtBase`,
  `AtDdfd`, `AtCb`, `AtEd`, `AtDcb`), and at the end that the readings agree
  (`Agree`). A block instruction comes back to its first byte with `left` rounds
  to go and 21 cycles charged for each done (`Spent`): that makes the theorem
  hold for any number of rounds. `Decoded` reduces the decoder to the bytes in
  front, `Classified`, `IndexedFacts` and `ExtendedFacts` compare the tables and
  cases of the three sources opcode by opcode. `Agreeing` leaves out the
  encodings listed under [disagreements](#disagreements), nothing else.
- **Flat code.** `HeadDecides` is the heart: if two sequences agree on as many
  bytes as the instruction of either of them has, they hold the same
  instruction. So the live instruction, cut out of memory and padded with zeros,
  decodes to itself (`Guarded`), and an image whose alternative equals the live
  bytes has been decoded to the live instruction, not to a longer or shorter one
  (`Unmixed`). Where operands are read live only the bytes in front are
  compared: `LiveHead` shows that an instruction of one of those shapes has its
  opcode there, behind at most one prefix, and `LiveCase` that the comparison
  then decides. The images are any sequences of bytes (`ImagesInv`); how they
  differ from memory does not matter. An instruction behind any number of
  prefixes is covered too: `Reach` says what its last prefix and its opcode
  settle of it.
- **Trials.** A run is where its engine alone would be (`Follows`): the states
  of a routine run alone, `Path`, are a function by recursion on its length,
  and the run's machine agrees with it in all that an instruction can see,
  because nothing is sampled, synced or tested inside a trial (`Frozen`).
  `EndsRight` is the heart of the verdict: the interpreter's condition on `sp`
  holds exactly where the routine returns, since its stack is where its
  instructions took it (`Compared`, `Level`) and `Routine` keeps returns above
  the entry's level and calls below it. For the trace, `Traced` says that
  entries of one logical instruction follow each other and that the first of
  them is of the state before it; so the number of heads up to an entry is its
  instruction (`StepOf`), the two traces are compared in step, and the first
  difference is where the paths part: after the mistranslated instruction
  (`PathsAgree`, `PathsPart`).
- **Data.** The library's induction theorems cannot be used by the installed
  provers. `DataLemmas` goes round them: `Least` gives every nonempty set of
  numbers a least element, from the well-foundedness of `<`; `Climb` is
  induction over an interval for a set instead of a predicate; `Recursion` and
  `Chaining` give the functions that are defined by recursion their values.

Checked by TLC only: liveness (`RunEnds`) and fairness, which the prover does
not handle; and `Discover`. It follows a worklist by a recursive operator, which
the prover does not accept. Its properties are also not true of every program:
`RoutinesFound` compares with a truth that is listed with each program, and
`FlowFaithful` and `Closed` fail for the programs listed at the end of
`MCDiscover`.

## Disagreements

Where the code does something else than a comment says. None is a run: each is
seen by adding the idiom named, or as told, to the run's configuration; in
`discover.cfg`, by giving `Programs` the programs named.

Timing, calls and banks:

- A VDP register write that raises /INT leaves the deadline at the next line, so
  the ticks up to it do not sample; `glue.c:703-709` says every boundary samples
  while /INT is up (`PollContract` with `CleanEnables = FALSE`; `timing` checks
  the weaker `PollUnlessArmed`).
- A request latched by the interpreter outlives the status read that cleared its
  source, if the instruction at that boundary is DI; `glue.c:703-709`: "until
  ... the source is cleared". An interrupt is then accepted with /INT low.
- The H-counter read in interpreted code subtracts the line's start from a clock
  that stands still, and goes negative (`glue.c:412-413`).
- An interrupt accepted in the same step as a POP or CALL is not counted by the
  interpreter's exit rule, and its handler's RET may be taken for the routine's
  own (`CallStack` with `Idioms = {"irq", "below"}`; `glue.c:811`, `852-853`).
- A tail-entered routine that popped its caller's registers and then makes a
  computed call: the RET to the continuation is taken for the routine's own
  (`Idioms = {"below", "cont"}`; `glue.c:846-853`).
- An interpreted routine that drops a return address of its own leaves `depth`
  one too high: its own RET is taken for an inner one and the compiled caller is
  interpreted. That ends well (`tail_entered`) unless a computed call, an
  interrupt or the frame of a preempted instruction comes in between
  (`Idioms = {"inner", "cont"}`, `{"inner", "irq"}`, `{"inner", "preempt"}`;
  `glue.c:873-876`).
- A handler that discards the interrupted address: `take_irq` resumes the
  preempted instruction whatever `sp` is, unlike the guard of
  `code_generator.c:644-649` (`Idioms = {"abort", "preempt", "irqabort"}`).
- A jump into a paged slot is a goto into code decoded under the reset bank;
  `code_generator.c:321-325` says pageable targets are dispatched (`Banking`
  with `Idioms = {"cross"}`).
- An entry under a bank beyond the ROM is an empty function that dispatch
  enters, where `code_generator.c:739-740` says the runtime resolves the rest
  (`Idioms = {"mirror"}`); a manifest row under such a bank never passes the
  next build's checksum (`glue.c:181-184`).
- Targets of a listed jump table inherit the table's bank in every slot
  (`Idioms = {"table"}`; `main_sms.c:150-151`, `code_generator.c:325`).
- A full manifest drops new misses, which `glue.c:186-188` says are "added, not
  lost" (`Record` in `Banking`).
- The guard of `sms_halt` counts turns of its loop; with /INT up and interrupts
  off a turn lasts one cycle, so it trips after about 18 frames where
  `glue.c:730` says 1000 (`HaltSync`, `HaltBail` in `SmsTiming`).

Discovery and emission:

- The continuation of a computed call, which `function_finder.c:429` says is
  recovered, is followed only where it is no entry; where it is one, the emitted
  code leaves by a tail jump and the callee's RET skips the continuation
  (`EnteredContinuation` in `MCDiscover`).
- A stale continuation. `insn_writes_rp` stops the trace at whatever redefines
  the pushed pair, "so a stale immediate is never mistaken for a live
  continuation" (`function_finder.c:274-278`). It does not list CALL, though the
  routine may write any register, nor INC and DEC of a half nor EXX; and the
  trace follows addresses, not branches. So after `ld hl,A; call f; push hl;
  ld hl,B; jp (hl)` the emitted code goes to A where the Z80 returns to what f
  left in HL (`StaleByCall`, which violates `FlowFaithful`); likewise with INC L in the
  place of the call (`StaleByBump`), with a load that is branched over
  (`StaleLoad`), and with a push that is (`StalePush`).
- Overlapping instructions: the body is emitted in address order, so the first
  of them falls into the second instead of over it (`Skip`).
- A new pager does not ask for another pass, though calls visited before it used
  its absence (`LatePager`; comment around `function_finder.c:148-158`).
- `insn_clobbers_a` does not list IN A,(n) and IN A,(C), and takes calls to
  preserve A (`function_finder.c:97-100`); `funclist_has_code` looks at every
  other address only; the tail-jump seeding at 886-888 is never reached.
- In jump tables: an index whose arithmetic wraps a byte, an A changed after it
  was copied, and flags changed between a compare and its branch make a proven
  table too short; a register of the address that is loaded twice makes it a
  table from another base (`Idioms = {"wrap"}`, `{"stale"}`, `{"flags"}`,
  `{"reload"}` of `JumpTable`).

Instructions (`Oddities` of `Decoder`):

- OTDR repeats cost 16 cycles in the interpreter, 21 emitted, where
  `code_generator.c:529-535` says "exactly like the interpreter" (`otdr`).
- ED 5D, 6D and 7D return in the interpreter only (`retn`); RETI copies iff in
  emitted code only; ED 4E and 6E set the interrupt mode in one of them.
- A DD or FD before DJNZ or JR cc is emitted as another condition
  (`prefixed_jr`), before HALT it does not halt (`prefixed_halt`), before ED it
  loses 4 cycles (`prefixed_ed`), and repeated it costs nothing and exceeds the
  length of 4 (`prefixed_twice`).
- The refreshes of a repeated block instruction are counted once in emitted
  code, each round in the interpreter; `code_generator.c:755-757` says the
  counts match. The flat backend counts right.

Runs and tests:

- `--press 0:KEYS` takes effect in frame 1 (`main.c:88`). A route's run that the
  game or the player ends early returns 0 with commands undone. `--frames 0`
  with a route of frame-0 commands runs without a limit.
- The limiter's period is truncated to a count of the host's clock
  ("drift-free", `host_sdl.c:78`).
- The harness ends the interpreted run at the RET of an inner call if the
  routine has popped its return address by then, and reports a divergence that
  is none (`glue.c:897-898`); a traced error in RAM is named at the instruction
  that first shows it in a register. It restores neither the PSG's registers nor
  the manifest, and a routine that calls the hybrid interpreter resets the
  deadline inside a run meant to be frozen. HALT in a trial sets the clock to
  its maximum.
- The compiler strips a 512-byte copier header, the runtime's CRC and size check
  is of the whole file.

Each needs a program that does something the two games in bring-up may never do;
none is visible in a build that keeps to the assumptions below.

## Assumptions on the compiled program

Named in the modules; the disagreements above show what happens without them:

- `CleanEnables` (timing): interrupt sources are enabled while their flag is
  clear.
- `Idioms` (CallStack, Banking): see the comments there.
- A routine puts back the bank its caller runs in before it returns to it, and
  code does not page out the slot it runs in (`Return` and `Map` in `Banking`).
  A real Z80 would run other bytes there too; such code cannot be compiled
  routine by routine.
- Handlers stop enabling interrupts at `MaxNest`, a bound.
- Interrupt mode 1, as `take_irq` assumes; no NMI (the runner never raises one).
- `Manners` (Ports): interrupts are masked where the devices' latches demand it,
  and Game Gear colours are written whole.
- `WellPushed` (MCDiscover): a routine that jumps through HL has pushed at most
  one word more than it popped, and that word was in HL, unchanged, since it was
  loaded by an immediate. A pushed address that is reached by RET instead of by
  the return from a computed call, or was read from memory, is not recovered: the
  C returns to its caller where the Z80 goes to that address.
- `Routine` (DiffHarness): a routine under test returns to an address its caller
  pushed and calls nothing while that address is off the stack.

## What is not modelled

- Clocks are natural numbers: the 64-bit ones cannot wrap in practice, the
  interpreter's own (`unsigned long`, 32 bits on some builds) can, in
  `glue_run_interp`, after 20 minutes.
- The 16M-instruction backstop of `hybrid_interpret`, and the C stack that a
  cycle of tail jumps grows: the code has no guard to say anything about.
- `g_mapper_cm`: nothing sets it, so the Codemasters stores of `sms_write8` are
  dead code. ROMs of 48 KB and less have no mapper and no paging to go wrong.
- In `Banking`, a rebuild's discovery adds at most one entry beyond the seeds.
- A manifest line torn by a kill: where it tears is up to the C library.
- In `Discover`, the registries' limits (64 pagers, 256 vectors, 512 data
  intervals, 4096 pending targets), jump tables of the game's configuration and
  register pairs other than HL.
- In `DiffHarness`, routines that call the hybrid interpreter or HALT.
- The PSG's tone and noise generators, and SDL's audio queue: arithmetic and a
  library.
- VDP rendering: a pure function from the VDP's state to pixels, whose
  correctness is that of hardware tables.
- PNG output, option parsing, TOML and `game.toml` reading, the diagnostic rings
  and reports, the tests and tools: pure functions or plain I/O.
- superzazu's core is vendored: its fetches, control flow, cycles, step order and
  interrupt logic are modelled, the arithmetic of its instructions is not, nor
  is that of the emitted bodies.

## Plan

Everything the inventory calls hard is modelled, except as listed above. What
would add most next:

1. Proofs: that a traced body in `Discover` is closed under its branches, with
   the worklist as a recursive function.
2. `ManifestFile`: token-level reads of a torn file, two processes appending.
3. The width of the interpreter's clock, as a modulus in `SmsTiming`.
4. The registries' limits in `Discover`, with small ones.
