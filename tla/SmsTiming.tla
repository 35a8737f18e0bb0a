----------------------------- MODULE SmsTiming -----------------------------
(***************************************************************************)
(* Time and interrupts in the runner (runner/glue.c): how the recompiled    *)
(* code, sms_halt and the hybrid interpreter share one cycle counter, drive *)
(* the VDP line by line, sample /INT and call the IM1 handler.              *)
(*                                                                          *)
(* Everything runs on one thread.  What interleaves is the C call stack:    *)
(* sms_tick, called before an instruction's body, may run sms_sync, which   *)
(* may call the handler, whose instructions tick and sync again, before the *)
(* interrupted body runs.  ctl is that stack: the instructions (or the      *)
(* sms_halt loop, "spin") whose sms_sync is waiting for a handler to        *)
(* return.  pc says what the top of the stack is doing:                     *)
(*   fetch    recompiled code at an instruction boundary                    *)
(*   advance  inside advance_vdp, called by sms_sync for cur                *)
(*   body     the tick of cur is over, its body is due                      *)
(*   halt     the loop test of sms_halt                                     *)
(*   hyb      hybrid_interpret (or glue_run_interp) before its next step    *)
(*   hadv     inside advance_vdp, called by the interpreter loop            *)
(*   quit     frame_completed has left the run with longjmp                 *)
(***************************************************************************)
EXTENDS VdpTiming, Sequences

CONSTANTS
  CycPerLine,    \* SMS_CYC_PER_LINE
  Costs,         \* T-states an instruction may tick (sms_tick's argument)
  Surcharges,    \* extra T-states a taken branch adds with no tick, and 0
  IrqLatency,    \* T-states take_irq charges
  FrameLimit,    \* g_frame_limit; 0 means no limit
  HaltSpins,     \* the guard of sms_halt
  MaxNest,       \* bound: handlers the program lets nest before it stops EI
  Ops,           \* the instruction classes the program may use
  Engines,       \* how the game is run: glue_run or glue_run_interp
  CleanEnables   \* the program sets an enable bit only with its flag clear

AllEngines == {"run", "interp"}
AllOps == {"nop", "ei", "di", "status", "reg", "halt", "ret", "miss", "block"}

ASSUME TimingAssumption ==
  /\ CycPerLine \in Nat \ {0}
  /\ Costs \subseteq Nat \ {0}
  /\ Surcharges \subseteq Nat
  /\ IrqLatency \in Nat
  /\ FrameLimit \in Nat
  /\ HaltSpins \in Nat
  /\ MaxNest \in Nat
  /\ Ops \subseteq AllOps
  /\ Engines \subseteq AllEngines
  /\ CleanEnables \in BOOLEAN

VARIABLES
  cyc,       \* g_z80.cyc
  nextLine,  \* g_next_line_cyc
  deadline,  \* g_sync_deadline
  frame,     \* g_frame
  vdp,       \* g_vdp
  iff1,      \* g_z80.iff1 (iff2 always equals it: there is no NMI)
  eiBlock,   \* g_z80.ei_block
  halted,    \* g_z80.halted
  pc,        \* what the thread is doing, see above
  cur,       \* the instruction being executed, or "spin"
  ctl,       \* the suspended sms_sync calls, innermost last
  spins,     \* guard in sms_halt
  hz,        \* g_hz, the interpreter's own registers
  armed,     \* history: a register write raised /INT and no sync came since
  slot       \* history: the last instruction completed was EI

cpu    == <<iff1, eiBlock, halted>>
timers == <<nextLine, frame>>
ghosts == <<armed, slot>>
vars   == <<cyc, nextLine, deadline, frame, vdp, iff1, eiBlock, halted,
            pc, cur, ctl, spins, hz, armed, slot>>

Phases == {"fetch", "advance", "body", "halt", "hyb", "hadv", "quit"}
Syncs  == AllOps \union {"spin"}

Interpreter == [cyc : Nat, iff1 : BOOLEAN, delay : BOOLEAN, pend : BOOLEAN,
                halted : BOOLEAN, isr : Nat, top : BOOLEAN]

\* g_hz when no interpreter runs: nothing of it is read before state_to_hz.
HzIdle == [cyc |-> 0, iff1 |-> FALSE, delay |-> FALSE, pend |-> FALSE,
           halted |-> FALSE, isr |-> 0, top |-> FALSE]

\* Mistake: the deadline is a line away from the sync, not at the next line.
LineAwayDeadline(v, t, next) ==
  IF IrqAsserted(v) THEN t + 1 ELSE t + CycPerLine

\* Mistake: an asserted /INT is sampled at the next line like everything else.
LineOnlyDeadline(v, t, next) == next

\* The deadline sms_set_sync_deadline sets at time t.
SyncDeadline(v, t, next) == IF IrqAsserted(v) THEN t + 1 ELSE next

\* Handlers in progress, whichever engine runs them.
Nest == Len(ctl) + hz.isr

\* The program: EI only while another handler may still nest (MaxNest), RET
\* out of a handler only in one.
Allowed(op) == /\ op \in Ops
               /\ op = "ei" => Nest < MaxNest

\* The register writes the program makes.
ProgramWrites == {v \in RegisterWrites(vdp) :
                    CleanEnables => (IrqAsserted(v) => IrqAsserted(vdp))}

Init == /\ cyc = 0
        /\ nextLine = CycPerLine
        /\ deadline = CycPerLine
        /\ frame = 0
        /\ vdp = VdpReset
        /\ iff1 = FALSE
        /\ eiBlock = FALSE
        /\ halted = FALSE
        /\ \/ "run" \in Engines /\ pc = "fetch" /\ hz = HzIdle
           \/ "interp" \in Engines /\ pc = "hyb" /\ hz = [HzIdle EXCEPT !.top = TRUE]
        /\ cur = "nop"
        /\ ctl = << >>
        /\ spins = 0
        /\ armed = FALSE
        /\ slot = FALSE

\* Mistake: the tick ends the EI slot before it syncs.
SlotFirstTick(op, n) ==
  /\ pc = "fetch"
  /\ Allowed(op)
  /\ op # "block"
  /\ op = "ret" => ctl # << >>
  /\ cyc' = cyc + n
  /\ cur' = op
  /\ eiBlock' = FALSE
  /\ pc' = IF cyc' >= deadline THEN "advance" ELSE "body"
  /\ UNCHANGED <<timers, deadline, vdp, iff1, halted, ctl, spins, hz, ghosts>>

(***************************************************************************)
(* sms_tick(n), called before the body of op: charge the cycles, sync when  *)
(* the deadline is reached, and only then end the EI slot.                  *)
(***************************************************************************)
Tick(op, n) ==
  /\ pc = "fetch"
  /\ Allowed(op)
  /\ op # "block"
  /\ op = "ret" => ctl # << >>
  /\ cyc' = cyc + n
  /\ cur' = op
  /\ IF cyc' >= deadline
       THEN pc' = "advance" /\ UNCHANGED eiBlock
       ELSE pc' = "body" /\ eiBlock' = FALSE
  /\ UNCHANGED <<timers, deadline, vdp, iff1, halted, ctl, spins, hz, ghosts>>

\* A repeating block instruction has no tick before its body (emit_block).
BeginBlock ==
  /\ pc = "fetch"
  /\ Allowed("block")
  /\ cur' = "block"
  /\ pc' = "body"
  /\ UNCHANGED <<cyc, timers, deadline, vdp, cpu, ctl, spins, hz, ghosts>>

(***************************************************************************)
(* One turn of advance_vdp's loop: step the VDP, schedule the next line and *)
(* run frame_completed when the frame wraps.  frame_completed leaves with   *)
(* longjmp when the limit is reached, and may when a host callback asks.    *)
(***************************************************************************)
VideoTime == IF pc = "hadv" THEN hz.cyc ELSE cyc

Completed(f) == FrameLimit # 0 /\ f >= FrameLimit

\* Mistake: the next line is scheduled from the time of the sync.
DriftingLine ==
  /\ pc \in {"advance", "hadv"}
  /\ VideoTime >= nextLine
  /\ vdp' = StepLine(vdp)
  /\ nextLine' = VideoTime + CycPerLine
  /\ IF vdp'.line = 0
       THEN /\ frame' = frame + 1
            /\ \/ pc' = "quit"
               \/ ~Completed(frame') /\ UNCHANGED pc
       ELSE UNCHANGED <<frame, pc>>
  /\ UNCHANGED <<cyc, deadline, cpu, cur, ctl, spins, hz, ghosts>>

AdvanceLine ==
  /\ pc \in {"advance", "hadv"}
  /\ VideoTime >= nextLine
  /\ vdp' = StepLine(vdp)
  /\ nextLine' = nextLine + CycPerLine
  /\ IF vdp'.line = 0
       THEN /\ frame' = frame + 1
            /\ \/ pc' = "quit"
               \/ ~Completed(frame') /\ UNCHANGED pc
       ELSE UNCHANGED <<frame, pc>>
  /\ UNCHANGED <<cyc, deadline, cpu, cur, ctl, spins, hz, ghosts>>

(***************************************************************************)
(* The rest of sms_sync.                                                    *)
(***************************************************************************)
\* Mistake: a sync may return before the VDP has caught up.
SyncedEarly == pc = "advance"

Synced == pc = "advance" /\ cyc < nextLine

Accepts == IrqAsserted(vdp) /\ iff1 /\ ~eiBlock

\* Mistake: IFF1 survives the acknowledge.
AcceptKeepsIff ==
  /\ Synced
  /\ Accepts
  /\ cyc' = cyc + IrqLatency
  /\ halted' = FALSE
  /\ ctl' = Append(ctl, cur)
  /\ pc' = "fetch"
  /\ UNCHANGED <<timers, deadline, vdp, iff1, eiBlock, cur, spins, hz, ghosts>>

\* take_irq, up to call_by_address(0x0038): the handler's instructions follow.
AcceptIrq ==
  /\ Synced
  /\ Accepts
  /\ cyc' = cyc + IrqLatency
  /\ iff1' = FALSE
  /\ halted' = FALSE
  /\ ctl' = Append(ctl, cur)
  /\ pc' = "fetch"
  /\ UNCHANGED <<timers, deadline, vdp, eiBlock, cur, spins, hz, ghosts>>

\* Where sms_sync's caller goes on: sms_tick ends the EI slot and the body
\* follows, a block instruction repeats or ends, sms_halt tests its loop.
AfterSync(op) ==
  /\ pc' \in CASE op = "spin"  -> {"halt"}
               [] op = "block" -> {"body", "fetch"}
               [] OTHER        -> {"body"}
  /\ eiBlock' = IF op = "spin" THEN eiBlock ELSE FALSE

\* No interrupt: set the deadline and return to the caller.
NoIrq ==
  /\ Synced
  /\ ~Accepts
  /\ deadline' = SyncDeadline(vdp, cyc, nextLine)
  /\ armed' = FALSE
  /\ AfterSync(cur)
  /\ UNCHANGED <<cyc, timers, vdp, iff1, halted, cur, ctl, spins, hz, slot>>

(***************************************************************************)
(* Bodies of recompiled instructions.                                       *)
(***************************************************************************)
Body(op) == pc = "body" /\ cur = op

\* Anything timing does not see; a taken branch adds cycles without a tick.
Plain(e) ==
  /\ Body("nop")
  /\ cyc' = cyc + e
  /\ slot' = FALSE
  /\ pc' = "fetch"
  /\ UNCHANGED <<timers, deadline, vdp, cpu, cur, ctl, spins, hz, armed>>

EnableIrq ==
  /\ Body("ei")
  /\ iff1' = TRUE
  /\ eiBlock' = TRUE
  /\ slot' = TRUE
  /\ pc' = "fetch"
  /\ UNCHANGED <<cyc, timers, deadline, vdp, halted, cur, ctl, spins, hz, armed>>

DisableIrq ==
  /\ Body("di")
  /\ iff1' = FALSE
  /\ slot' = FALSE
  /\ pc' = "fetch"
  /\ UNCHANGED <<cyc, timers, deadline, vdp, eiBlock, halted, cur, ctl, spins,
                 hz, armed>>

\* IN from the VDP control port, and the OUT to it that completes a register
\* write.  Neither recomputes the deadline.
PortEffect ==
  /\ \/ cur = "status" /\ vdp' = StatusRead(vdp)
     \/ cur = "reg" /\ vdp' \in ProgramWrites
     \/ cur = "block" /\ UNCHANGED vdp
     \/ cur = "block" /\ "status" \in Ops /\ vdp' = StatusRead(vdp)
     \/ cur = "block" /\ "reg" \in Ops /\ vdp' \in ProgramWrites
  /\ armed' = (IrqAsserted(vdp') /\ (armed \/ ~IrqAsserted(vdp)))

AccessPort ==
  /\ Body("status") \/ Body("reg")
  /\ PortEffect
  /\ slot' = FALSE
  /\ pc' = "fetch"
  /\ UNCHANGED <<cyc, timers, deadline, cpu, cur, ctl, spins, hz>>

\* One iteration of a block instruction (INIR and OTIR reach the VDP) and its
\* sms_tick_post(n), which may end the EI slot before or after it samples.
BlockIteration(n) ==
  /\ Body("block")
  /\ PortEffect
  /\ cyc' = cyc + n
  /\ slot' = FALSE
  /\ IF cyc' >= deadline
       THEN pc' = "advance" /\ eiBlock' \in {eiBlock, FALSE}
       ELSE pc' \in {"body", "fetch"} /\ eiBlock' = FALSE
  /\ UNCHANGED <<timers, deadline, iff1, halted, cur, ctl, spins, hz>>

\* The handler's RET: take_irq and then sms_sync return to the tick (or the
\* sms_halt loop) they interrupted.
Return(e) ==
  /\ Body("ret")
  /\ ctl # << >>
  /\ cyc' = cyc + e
  /\ deadline' = SyncDeadline(vdp, cyc', nextLine)
  /\ cur' = ctl[Len(ctl)]
  /\ ctl' = SubSeq(ctl, 1, Len(ctl) - 1)
  /\ AfterSync(cur')
  /\ armed' = FALSE
  /\ slot' = FALSE
  /\ UNCHANGED <<timers, vdp, iff1, halted, spins, hz>>
(***************************************************************************)
(* sms_halt: the HALT body waits in a loop of its own.                      *)
(***************************************************************************)
BeginHalt ==
  /\ Body("halt")
  /\ halted' = TRUE
  /\ spins' = 0
  /\ slot' = FALSE
  /\ pc' = "halt"
  /\ UNCHANGED <<cyc, timers, deadline, vdp, iff1, eiBlock, cur, ctl, hz, armed>>

\* Mistake: the guard allows a screen of lines.
ScreenGuard == spins > ActiveLines

\* The guard gives up after more than HaltSpins syncs.
HaltGuard == spins > HaltSpins

\* Mistake: the loop only syncs, neither time nor the guard moves.
IdleHaltSync ==
  /\ pc = "halt"
  /\ halted
  /\ ~HaltGuard
  /\ cur' = "spin"
  /\ pc' = "advance"
  /\ UNCHANGED <<cyc, timers, deadline, vdp, cpu, ctl, spins, hz, ghosts>>

\* Jump to the deadline (or a line ahead) and sync there.
HaltSync ==
  /\ pc = "halt"
  /\ halted
  /\ ~HaltGuard
  /\ cyc' = IF deadline > cyc THEN deadline ELSE cyc + CycPerLine
  /\ spins' = spins + 1
  /\ cur' = "spin"
  /\ pc' = "advance"
  /\ UNCHANGED <<timers, deadline, vdp, cpu, ctl, hz, ghosts>>

HaltBail ==
  /\ pc = "halt"
  /\ halted
  /\ HaltGuard
  /\ halted' = FALSE
  /\ pc' = "fetch"
  /\ spins' = 0
  /\ UNCHANGED <<cyc, timers, deadline, vdp, iff1, eiBlock, cur, ctl, hz, ghosts>>

\* A handler ran: take_irq cleared halted, the loop ends.
HaltWake ==
  /\ pc = "halt"
  /\ ~halted
  /\ spins' = 0
  /\ pc' = "fetch"
  /\ UNCHANGED <<cyc, timers, deadline, vdp, cpu, cur, ctl, hz, ghosts>>

(***************************************************************************)
(* hybrid_interpret: copy the registers to g_hz, interpret until the        *)
(* routine's own RET, copy back.                                            *)
(***************************************************************************)
EnterHybrid ==
  /\ Body("miss")
  /\ hz' = [cyc |-> cyc, iff1 |-> iff1, delay |-> eiBlock, pend |-> FALSE,
            halted |-> halted, isr |-> 0, top |-> FALSE]
  /\ slot' = FALSE
  /\ pc' = "hyb"
  /\ UNCHANGED <<cyc, timers, deadline, vdp, cpu, cur, ctl, spins, armed>>

\* z80_gen_int: the loop latches a request when /INT is up and IFF1 is set.
Requested == hz.pend \/ (IrqAsserted(vdp) /\ hz.iff1)

\* What process_interrupts finds after the instruction: EI takes effect one
\* instruction late, an interrupt is accepted only outside that delay.
Delayed(op) == op = "ei" \/ hz.delay
Enabled(op) == hz.iff1 /\ op # "di"

\* Mistake: the delay after EI is not looked at.
AcceptsInDelay(op) == Requested /\ Enabled(op)

HybridAccepts(op) == Requested /\ Enabled(op) /\ ~Delayed(op)

\* The routine's own RET ends the interpretation; a handler's RET does not,
\* nor does a RET at which an interrupt was accepted, nor any RET of a game that
\* glue_run_interp runs.
Exits(op) == op = "ret" /\ hz.isr = 0 /\ ~HybridAccepts(op) /\ ~hz.top

\* z80_step: one instruction (a NOP while halted), then process_interrupts.
HybridStep(op, n) ==
  LET accept == HybridAccepts(op)
      nested == hz.isr - (IF op = "ret" /\ hz.isr > 0 THEN 1 ELSE 0)
                       + (IF accept /\ ~(op = "ret" /\ hz.isr = 0) THEN 1 ELSE 0)
  IN /\ pc = "hyb"
     /\ IF hz.halted THEN op = "nop"
                     ELSE Allowed(op) /\ op \notin {"miss", "block"}
     /\ hz' = [cyc    |-> hz.cyc + n + (IF accept THEN IrqLatency ELSE 0),
               iff1   |-> Delayed(op) \/ (Enabled(op) /\ ~accept),
               delay  |-> FALSE,
               pend   |-> Requested /\ ~accept,
               halted |-> (hz.halted \/ op = "halt") /\ ~accept,
               isr    |-> nested,
               top    |-> hz.top]
     /\ CASE op = "status" -> vdp' = StatusRead(vdp)
          [] op = "reg"    -> vdp' \in ProgramWrites
          [] OTHER         -> UNCHANGED vdp
     /\ cur' = IF Exits(op) THEN "miss" ELSE op
     /\ slot' = (op = "ei")
     /\ pc' = "hadv"
     /\ UNCHANGED <<cyc, timers, deadline, cpu, ctl, spins, armed>>

HybridAdvanced == pc = "hadv" /\ hz.cyc < nextLine

HybridContinue ==
  /\ HybridAdvanced
  /\ cur # "miss"
  /\ deadline' = nextLine
  /\ pc' = "hyb"
  /\ UNCHANGED <<cyc, timers, vdp, cpu, cur, ctl, spins, hz, ghosts>>

\* Mistake: the interpreted cycles are dropped at the handoff.
ExitWithoutTime ==
  /\ HybridAdvanced
  /\ cur = "miss"
  /\ UNCHANGED cyc
  /\ iff1' = hz.iff1
  /\ eiBlock' = hz.delay
  /\ halted' = hz.halted
  /\ deadline' = SyncDeadline(vdp, cyc', nextLine)
  /\ hz' = HzIdle
  /\ armed' = FALSE
  /\ pc' = "fetch"
  /\ UNCHANGED <<timers, vdp, cur, ctl, spins, slot>>

\* state_from_hz, the absolute time, and the handoff's deadline.
ExitHybrid ==
  /\ HybridAdvanced
  /\ cur = "miss"
  /\ cyc' = hz.cyc
  /\ iff1' = hz.iff1
  /\ eiBlock' = hz.delay
  /\ halted' = hz.halted
  /\ deadline' = SyncDeadline(vdp, hz.cyc, nextLine)
  /\ hz' = HzIdle
  /\ armed' = FALSE
  /\ pc' = "fetch"
  /\ UNCHANGED <<timers, vdp, cur, ctl, spins, slot>>

Recompiled ==
  \/ \E op \in Ops, n \in Costs : Tick(op, n)
  \/ BeginBlock
  \/ \E e \in Surcharges : Plain(e) \/ Return(e)
  \/ EnableIrq \/ DisableIrq \/ AccessPort
  \/ \E n \in Costs : BlockIteration(n)

Sync == AdvanceLine \/ AcceptIrq \/ NoIrq

Halt == BeginHalt \/ HaltSync \/ HaltBail \/ HaltWake

Hybrid == \/ EnterHybrid
          \/ \E op \in AllOps, n \in Costs : HybridStep(op, n)
          \/ HybridContinue \/ ExitHybrid

Next == Recompiled \/ Sync \/ Halt \/ Hybrid

Spec == Init /\ [][Next]_vars

\* The one thread keeps executing instructions.
FairSpec == Spec /\ WF_vars(Next)

-----------------------------------------------------------------------------
TypeOK ==
  /\ cyc \in Nat
  /\ nextLine \in Nat
  /\ deadline \in Nat
  /\ frame \in Nat
  /\ vdp \in Vdp
  /\ iff1 \in BOOLEAN
  /\ eiBlock \in BOOLEAN
  /\ halted \in BOOLEAN
  /\ pc \in Phases
  /\ cur \in Syncs
  /\ ctl \in Seq(Syncs)
  /\ spins \in Nat
  /\ hz \in Interpreter
  /\ armed \in BOOLEAN
  /\ slot \in BOOLEAN

\* The video timeline never drifts from the CPU's: whatever mixture of
\* recompiled code, HALT loops, handlers and interpreted routines ran, the
\* lines stepped and the frames completed are exactly those of the cycle at
\* which the next line is due (advance_vdp, frame_completed).
Lockstep == nextLine = CycPerLine * (LinesPerFrame * frame + vdp.line + 1)

\* The VDP is never ahead of the CPU: no line is stepped before its cycle.
\* The clock is the interpreter's while it runs (advance_vdp(base + g_hz.cyc)).
NeverAhead == \/ cyc >= nextLine - CycPerLine
              \/ hz.cyc >= nextLine - CycPerLine

\* Every tick that crosses a line event syncs: at an instruction boundary the
\* deadline is no later than the next line, or the very next cycle reaches it
\* (sms_set_sync_deadline after handlers, HALT and the hybrid handoff).
DeadlineSound == pc = "fetch" => \/ deadline <= nextLine
                                 \/ deadline <= cyc + 1

\* The interpreter's clock starts at the CPU's and only gains on it.
HybridClock == /\ pc \in {"hyb", "hadv"} => cyc <= hz.cyc
               /\ pc \in {"fetch", "advance", "body", "halt"} => hz.cyc = 0

\* The strengthening that makes DeadlineSound inductive: the same bound holds
\* wherever control can return to an instruction boundary without a new
\* deadline, and inside a sync the deadline has been reached.
DeadlineInv ==
  /\ pc \in {"fetch", "body", "halt"} => \/ deadline <= nextLine
                                        \/ deadline <= cyc + 1
  /\ pc = "advance" => deadline <= cyc

\* While an interrupt can be accepted, recompiled code samples /INT at the
\* next instruction boundary.  sms_set_sync_deadline's comment promises it
\* without exception (glue.c:703-709).
PollContract == (pc = "fetch" /\ IrqAsserted(vdp) /\ iff1) => deadline <= cyc + 1

\* Its inductive form, for programs that raise /INT only through the VDP.
PollInv == (pc \in {"fetch", "body", "halt"} /\ IrqAsserted(vdp))
              => deadline <= cyc + 1

\* What holds of the code: the only way to go unsampled is a register write
\* that raised /INT after the last sync, and then only up to the next line.
PollUnlessArmed ==
  (pc = "fetch" /\ IrqAsserted(vdp) /\ iff1)
    => deadline <= cyc + 1 \/ (armed /\ deadline <= nextLine)

\* No interrupt is accepted before the instruction after EI has completed, in
\* either engine, across handlers and the handoffs between the engines.
EiSlot ==
  [][/\ AcceptIrq => ~slot
     /\ \A n \in Costs : ~(HybridStep("ei", n) /\ HybridAccepts("ei"))]_vars

\* Recompiled code touches the VDP on the line it is due: when a body runs, the
\* VDP is behind the CPU by no more than the surcharges of the returns that led
\* to it, never by a tick.  Only the first iteration of a block instruction,
\* which has no tick (emit_block), may also be late by the branch before it or,
\* first in a handler, by the acknowledge.
BodyInLine ==
  \A late \in Surcharges :
    (\A e \in Surcharges : e <= late) /\ pc = "body" =>
      cyc < nextLine + late * MaxNest
              + (IF cur = "block" THEN late + IrqLatency ELSE 0)

\* HALT with interrupts on and a frame interrupt enabled is ended by that
\* interrupt, never by the loop's guard.
HaltEndsByIrq == [][HaltBail => ~(iff1 /\ vdp.frameEn)]_vars

\* The Z80's view: a boundary until the body is due, then the instruction.  A
\* run that quits does so inside an advance.
Stage == CASE pc = "body"  -> IF cur = "block" THEN "repeat" ELSE "insn"
           [] pc = "halt"  -> "halted"
           [] pc = "fetch" -> "boundary"
           [] OTHER        -> CASE cur = "block" -> "iterated"
                                [] cur = "spin"  -> "halted"
                                [] OTHER         -> "boundary"

\* Compiled code implements the interrupt contract of Z80Irq as long as the
\* program raises /INT only through the VDP's own latches (CleanEnables).
Irq == INSTANCE Z80Irq WITH level <- IrqAsserted(vdp), iff <- iff1,
                            shadow <- eiBlock, nest <- Len(ctl),
                            stage <- Stage
ImplementsZ80Irq == Irq!Spec

\* A run with a frame limit ends, whatever the program does.
RunEnds == <>(pc = "quit")
=============================================================================
