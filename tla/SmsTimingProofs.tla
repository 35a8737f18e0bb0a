-------------------------- MODULE SmsTimingProofs --------------------------
(***************************************************************************)
(* Theorems about SmsTiming for every value of its constants: its           *)
(* invariants, the interrupt contract of Z80Irq that recompiled code        *)
(* implements, which interrupts may go unsampled, EI's slot, and how late a *)
(* body may run.                                                            *)
(***************************************************************************)
EXTENDS SmsTiming, SequenceTheorems, TLAPS

\* What the VDP's operations return is a VDP (vdp_reset, vdp_step_line,
\* vdp_status_read and the register writes of vdp_control_write).
LEMMA VdpResetType == VdpReset \in Vdp
BY LinesAssumption, ReloadAssumption DEF VdpReset, Vdp

LEMMA VdpOperationTypes ==
  ASSUME NEW v \in Vdp
  PROVE  /\ StepLine(v) \in Vdp
         /\ StatusRead(v) \in Vdp
         /\ RegisterWrites(v) \subseteq Vdp
<1>1. StepLine(v) \in Vdp
  <2> DEFINE counter == IF Counting(v) /\ ~Underflows(v)
                          THEN v.counter - 1 ELSE v.reload
             line    == IF v.line + 1 >= LinesPerFrame THEN 0 ELSE v.line + 1
  <2>1. v.reload \in Nat /\ v.counter \in Nat
    BY ReloadAssumption DEF Vdp
  <2>2. counter \in Nat
    BY <2>1 DEF Counting, Underflows
  <2>3. line \in 0 .. LinesPerFrame - 1
    BY LinesAssumption DEF Vdp
  <2>4. QED BY <2>2, <2>3 DEF StepLine, Vdp
<1>2. StatusRead(v) \in Vdp
  BY DEF StatusRead, Vdp
<1>3. RegisterWrites(v) \subseteq Vdp
  BY DEF RegisterWrites, Vdp
<1>4. QED BY <1>1, <1>2, <1>3

\* The arithmetic content of the constants' assumption.
LEMMA Quantities ==
  /\ CycPerLine \in Nat /\ CycPerLine > 0
  /\ IrqLatency \in Nat
  /\ \A n \in Costs : n \in Nat /\ n > 0
  /\ \A e \in Surcharges : e \in Nat
BY TimingAssumption

\* Every step keeps every variable in its type.
LEMMA TypeStep ==
  ASSUME TypeOK, [Next]_vars
  PROVE  TypeOK'
<1> USE Quantities DEF TypeOK
<1>1. ASSUME NEW op \in Ops, NEW n \in Costs, Tick(op, n) PROVE TypeOK'
  <2>1. cyc' \in Nat
    BY <1>1 DEF Tick
  <2>2. cur' \in Syncs
    BY <1>1, TimingAssumption DEF Tick, Syncs
  <2>3. pc' \in Phases /\ eiBlock' \in BOOLEAN
    BY <1>1 DEF Tick, Phases
  <2>4. QED BY <1>1, <2>1, <2>2, <2>3 DEF Tick, timers, ghosts
<1>2. CASE BeginBlock
  BY <1>2 DEF BeginBlock, timers, cpu, ghosts, Phases, Syncs, AllOps
<1>3. ASSUME NEW e \in Surcharges, Plain(e) PROVE TypeOK'
  <2>1. cyc' \in Nat
    BY <1>3 DEF Plain
  <2>2. QED BY <1>3, <2>1 DEF Plain, timers, cpu, Phases
<1>4. ASSUME NEW e \in Surcharges, Return(e) PROVE TypeOK'
  <2>1. cyc' \in Nat /\ deadline' \in Nat
    BY <1>4 DEF Return, SyncDeadline
  <2>2. pc' \in Phases /\ eiBlock' \in BOOLEAN
    BY <1>4 DEF Return, AfterSync, Phases
  <2>3. cur' \in Syncs /\ ctl' \in Seq(Syncs)
    BY <1>4 DEF Return
  <2>4. QED BY <1>4, <2>1, <2>2, <2>3 DEF Return, timers
<1>5. CASE EnableIrq
  BY <1>5 DEF EnableIrq, timers, Phases
<1>6. CASE DisableIrq
  BY <1>6 DEF DisableIrq, timers, Phases
<1>7. CASE AccessPort
  BY <1>7, VdpOperationTypes
     DEF AccessPort, PortEffect, ProgramWrites, IrqAsserted, timers, cpu, Phases
<1>8. ASSUME NEW n \in Costs, BlockIteration(n) PROVE TypeOK'
  <2>1. cyc' \in Nat
    BY <1>8 DEF BlockIteration
  <2>2. vdp' \in Vdp /\ armed' \in BOOLEAN
    BY <1>8, VdpOperationTypes
       DEF BlockIteration, PortEffect, ProgramWrites, IrqAsserted
  <2>3. pc' \in Phases /\ eiBlock' \in BOOLEAN
    BY <1>8 DEF BlockIteration, Phases
  <2>4. QED BY <1>8, <2>1, <2>2, <2>3 DEF BlockIteration, timers
<1>9. CASE AdvanceLine
  BY <1>9, VdpOperationTypes DEF AdvanceLine, cpu, ghosts, Phases
<1>10. CASE AcceptIrq
  <2>1. cyc' \in Nat
    BY <1>10 DEF AcceptIrq
  <2>2. ctl' \in Seq(Syncs)
    BY <1>10 DEF AcceptIrq
  <2>3. QED BY <1>10, <2>1, <2>2 DEF AcceptIrq, timers, ghosts, Phases
<1>11. CASE NoIrq
  <2>1. deadline' \in Nat
    BY <1>11 DEF NoIrq, SyncDeadline
  <2>2. pc' \in Phases /\ eiBlock' \in BOOLEAN
    BY <1>11 DEF NoIrq, AfterSync, Phases
  <2>3. QED BY <1>11, <2>1, <2>2 DEF NoIrq, timers
<1>12. CASE BeginHalt
  BY <1>12 DEF BeginHalt, timers, Phases
<1>13. CASE HaltSync
  BY <1>13 DEF HaltSync, timers, cpu, ghosts, Phases, Syncs
<1>14. CASE HaltBail
  BY <1>14 DEF HaltBail, timers, ghosts, Phases
<1>15. CASE HaltWake
  BY <1>15 DEF HaltWake, timers, cpu, ghosts, Phases
<1>16. CASE EnterHybrid
  BY <1>16 DEF EnterHybrid, timers, cpu, Phases, Interpreter
<1>17. ASSUME NEW op \in AllOps, NEW n \in Costs, HybridStep(op, n)
       PROVE  TypeOK'
  BY <1>17, VdpOperationTypes
     DEF HybridStep, ProgramWrites, timers, cpu, Phases, Syncs, AllOps,
         Interpreter
<1>18. CASE HybridContinue
  BY <1>18 DEF HybridContinue, timers, cpu, ghosts, Phases
<1>19. CASE ExitHybrid
  <2>1. /\ hz.cyc \in Nat
        /\ <<hz.iff1, hz.delay, hz.halted>> \in BOOLEAN \X BOOLEAN \X BOOLEAN
    BY DEF Interpreter
  <2>2. deadline' \in Nat
    BY <1>19, <2>1 DEF ExitHybrid, SyncDeadline
  <2>3. hz' \in Interpreter
    BY <1>19 DEF ExitHybrid, HzIdle, Interpreter
  <2>4. QED BY <1>19, <2>1, <2>2, <2>3 DEF ExitHybrid, timers, Phases
<1>20. CASE UNCHANGED vars
  BY <1>20 DEF vars
<1>21. QED
  BY <1>1, <1>2, <1>3, <1>4, <1>5, <1>6, <1>7, <1>8, <1>9, <1>10, <1>11,
     <1>12, <1>13, <1>14, <1>15, <1>16, <1>17, <1>18, <1>19, <1>20
     DEF Next, Recompiled, Sync, Halt, Hybrid

\* The state after any step is one the C variables can hold.
THEOREM TypeCorrect == Spec => []TypeOK
<1>1. Init => TypeOK
  <2> SUFFICES ASSUME Init PROVE TypeOK
    OBVIOUS
  <2>1. cyc \in Nat /\ nextLine \in Nat /\ deadline \in Nat /\ frame \in Nat
    BY Quantities DEF Init
  <2>2. hz \in Interpreter /\ spins \in Nat
    <3>1. HzIdle \in Interpreter /\ [HzIdle EXCEPT !.top = TRUE] \in Interpreter
      BY DEF HzIdle, Interpreter
    <3>2. QED BY <3>1 DEF Init
  <2>3. pc \in Phases /\ cur \in Syncs /\ ctl \in Seq(Syncs)
    BY DEF Init, Phases, Syncs, AllOps
  <2>4. QED BY <2>1, <2>2, <2>3, VdpResetType DEF Init, TypeOK
<1>2. TypeOK /\ [Next]_vars => TypeOK'
  BY TypeStep
<1>3. QED BY <1>1, <1>2, PTL DEF Spec
-----------------------------------------------------------------------------
\* A line step moves the VDP's line and the frame count together: the frame
\* count grows exactly when the line wraps.
LEMMA LineStep ==
  ASSUME TypeOK, AdvanceLine
  PROVE  /\ nextLine' = nextLine + CycPerLine
         /\ \/ vdp'.line = vdp.line + 1 /\ frame' = frame
            \/ vdp'.line = 0 /\ frame' = frame + 1 /\ vdp.line = LinesPerFrame - 1
<1>1. /\ vdp.line \in 0 .. LinesPerFrame - 1
      /\ vdp'.line = IF vdp.line + 1 >= LinesPerFrame THEN 0 ELSE vdp.line + 1
  BY DEF TypeOK, AdvanceLine, StepLine, Vdp
<1>2. IF vdp'.line = 0 THEN frame' = frame + 1 ELSE frame' = frame
  BY DEF AdvanceLine
<1>3. QED BY <1>1, <1>2, LinesAssumption DEF AdvanceLine

\* No other step touches the line, the frame count or the next line's cycle.
LEMMA VideoUnchanged ==
  ASSUME TypeOK, [Next]_vars, ~AdvanceLine
  PROVE  nextLine' = nextLine /\ frame' = frame /\ vdp'.line = vdp.line
<1>1. \A v \in RegisterWrites(vdp) \union {StatusRead(vdp)} : v.line = vdp.line
  BY DEF TypeOK, Vdp, RegisterWrites, StatusRead
<1>2. ASSUME NEW op \in Ops, NEW n \in Costs, Tick(op, n)
      PROVE  UNCHANGED <<nextLine, frame, vdp>>
  BY <1>2 DEF Tick, timers
<1>3. ASSUME NEW e \in Surcharges, Plain(e) \/ Return(e)
      PROVE  UNCHANGED <<nextLine, frame, vdp>>
  BY <1>3 DEF Plain, Return, timers
<1>4. ASSUME BeginBlock \/ EnableIrq \/ DisableIrq \/ AcceptIrq \/ NoIrq
      PROVE  UNCHANGED <<nextLine, frame, vdp>>
  BY <1>4 DEF BeginBlock, EnableIrq, DisableIrq, AcceptIrq, NoIrq, timers
<1>5. ASSUME Halt PROVE UNCHANGED <<nextLine, frame, vdp>>
  BY <1>5 DEF Halt, BeginHalt, HaltSync, HaltBail, HaltWake, timers
<1>6. ASSUME EnterHybrid \/ HybridContinue \/ ExitHybrid
      PROVE  UNCHANGED <<nextLine, frame, vdp>>
  BY <1>6 DEF EnterHybrid, HybridContinue, ExitHybrid, timers
<1>7. ASSUME AccessPort
      PROVE  UNCHANGED <<nextLine, frame>> /\ vdp'.line = vdp.line
  BY <1>7, <1>1 DEF AccessPort, PortEffect, ProgramWrites, timers
<1>8. ASSUME NEW n \in Costs, BlockIteration(n)
      PROVE  UNCHANGED <<nextLine, frame>> /\ vdp'.line = vdp.line
  BY <1>8, <1>1 DEF BlockIteration, PortEffect, ProgramWrites, timers
<1>9. ASSUME NEW op \in AllOps, NEW n \in Costs, HybridStep(op, n)
      PROVE  UNCHANGED <<nextLine, frame>> /\ vdp'.line = vdp.line
  BY <1>9, <1>1 DEF HybridStep, ProgramWrites, timers
<1>10. QED
  BY <1>2, <1>3, <1>4, <1>5, <1>6, <1>7, <1>8, <1>9
     DEF Next, Recompiled, Sync, Hybrid, vars

\* CPU time and video time never drift: the cycle of the next line is the
\* number of lines stepped so far, plus one, times the length of a line,
\* through handlers, HALT loops, interpreted routines and the final longjmp.
THEOREM VideoLockstep == Spec => []Lockstep
<1>1. Init => Lockstep
  BY Quantities, LinesAssumption DEF Init, Lockstep, VdpReset
<1>2. TypeOK /\ Lockstep /\ [Next]_vars => Lockstep'
  <2> SUFFICES ASSUME TypeOK, Lockstep, [Next]_vars PROVE Lockstep'
    OBVIOUS
  <2>1. /\ frame \in Nat /\ vdp.line \in Nat
        /\ CycPerLine \in Nat /\ LinesPerFrame \in Nat
    BY Quantities, LinesAssumption DEF TypeOK, Vdp
  <2>2. CASE AdvanceLine
    <3>1. CASE vdp'.line = vdp.line + 1 /\ frame' = frame
      <4>1. nextLine' = CycPerLine * (LinesPerFrame * frame + vdp.line + 1)
                          + CycPerLine
        BY <2>2, LineStep DEF Lockstep
      <4>2. QED BY <2>1, <3>1, <4>1 DEF Lockstep
    <3>2. CASE /\ vdp'.line = 0 /\ frame' = frame + 1
               /\ vdp.line = LinesPerFrame - 1
      <4>1. nextLine' = CycPerLine * (LinesPerFrame * frame + LinesPerFrame)
                          + CycPerLine
        BY <2>1, <2>2, <3>2, LineStep DEF Lockstep
      <4>2. LinesPerFrame * (frame + 1) = LinesPerFrame * frame + LinesPerFrame
        BY <2>1
      <4>3. QED BY <2>1, <3>2, <4>1, <4>2 DEF Lockstep
    <3>3. QED BY <2>2, <3>1, <3>2, LineStep
  <2>3. CASE ~AdvanceLine
    BY <2>3, VideoUnchanged DEF Lockstep
  <2>4. QED BY <2>2, <2>3
<1>3. QED BY <1>1, <1>2, TypeCorrect, PTL DEF Spec
-----------------------------------------------------------------------------
\* The interpreter's clock: base + g_hz.cyc never falls behind the cycle it was
\* entered at, and stands at its idle value outside the interpreter.
LEMMA HybridClockInv == Spec => []HybridClock
<1>1. Init => HybridClock
  BY DEF Init, HybridClock, HzIdle
<1>2. TypeOK /\ HybridClock /\ [Next]_vars => HybridClock'
  <2> SUFFICES ASSUME TypeOK, HybridClock, [Next]_vars PROVE HybridClock'
    OBVIOUS
  <2> USE DEF HybridClock
  <2>t. cyc \in Nat /\ hz.cyc \in Nat
    BY DEF TypeOK, Interpreter
  <2>1. ASSUME NEW op \in Ops, NEW n \in Costs, Tick(op, n) PROVE HybridClock'
    BY <2>1 DEF Tick
  <2>2. ASSUME NEW e \in Surcharges, Plain(e) PROVE HybridClock'
    BY <2>2 DEF Plain, Body
  <2>3. ASSUME NEW e \in Surcharges, Return(e) PROVE HybridClock'
    BY <2>3 DEF Return, Body, AfterSync
  <2>4. CASE BeginBlock \/ EnableIrq \/ DisableIrq \/ AccessPort
    BY <2>4 DEF BeginBlock, EnableIrq, DisableIrq, AccessPort, Body
  <2>5. ASSUME NEW n \in Costs, BlockIteration(n) PROVE HybridClock'
    BY <2>5 DEF BlockIteration, Body
  <2>6. CASE AdvanceLine
    BY <2>6 DEF AdvanceLine
  <2>7. CASE AcceptIrq \/ NoIrq
    BY <2>7 DEF AcceptIrq, NoIrq, Synced, AfterSync
  <2>8. CASE BeginHalt
    BY <2>8 DEF BeginHalt, Body
  <2>9. CASE HaltSync
    BY <2>9 DEF HaltSync
  <2>10. CASE HaltBail \/ HaltWake
    BY <2>10 DEF HaltBail, HaltWake
  <2>11. CASE EnterHybrid
    BY <2>11, <2>t DEF EnterHybrid
  <2>12. ASSUME NEW op \in AllOps, NEW n \in Costs, HybridStep(op, n)
         PROVE  HybridClock'
    <3>1. hz'.cyc >= hz.cyc
      BY <2>12, <2>t, Quantities DEF HybridStep
    <3>2. cyc' = cyc /\ pc = "hyb" /\ pc' = "hadv" /\ hz'.cyc \in Nat
      BY <2>12, <2>t, Quantities DEF HybridStep
    <3>3. QED BY <2>t, <3>1, <3>2
  <2>13. CASE HybridContinue
    BY <2>13 DEF HybridContinue, HybridAdvanced
  <2>14. CASE ExitHybrid
    BY <2>14 DEF ExitHybrid, HzIdle
  <2>15. CASE UNCHANGED vars
    BY <2>15 DEF vars
  <2>16. QED
    BY <2>1, <2>2, <2>3, <2>4, <2>5, <2>6, <2>7, <2>8, <2>9, <2>10, <2>11,
       <2>12, <2>13, <2>14, <2>15 DEF Next, Recompiled, Sync, Halt, Hybrid
<1>3. QED BY <1>1, <1>2, TypeCorrect, PTL DEF Spec

\* The VDP is never ahead of the CPU: advance_vdp steps a line only once its
\* cycle has come, on the clock of the engine that called it, and no engine
\* ever hands a smaller clock to the next.
THEOREM VideoNeverAhead == Spec => []NeverAhead
<1>1. Init => NeverAhead
  BY Quantities DEF Init, NeverAhead
<1>2. TypeOK /\ HybridClock /\ NeverAhead /\ [Next]_vars => NeverAhead'
  <2> SUFFICES ASSUME TypeOK, HybridClock, NeverAhead, [Next]_vars
               PROVE  NeverAhead'
    OBVIOUS
  <2>t. /\ cyc \in Nat /\ hz.cyc \in Nat /\ nextLine \in Nat /\ deadline \in Nat
        /\ CycPerLine \in Nat
    BY Quantities DEF TypeOK, Interpreter
  <2>1. CASE AdvanceLine
    <3>1. nextLine' - CycPerLine = nextLine /\ cyc' = cyc /\ hz' = hz
      BY <2>1, <2>t DEF AdvanceLine
    <3>2. cyc >= nextLine \/ hz.cyc >= nextLine
      BY <2>1 DEF AdvanceLine, VideoTime
    <3>3. QED BY <3>1, <3>2 DEF NeverAhead
  <2>2. ASSUME ~AdvanceLine, ~ExitHybrid
        PROVE  cyc' >= cyc /\ hz'.cyc >= hz.cyc
    <3>1. ASSUME NEW op \in Ops, NEW n \in Costs, Tick(op, n)
          PROVE  cyc' >= cyc /\ hz' = hz
      BY <3>1, <2>t, Quantities DEF Tick
    <3>2. ASSUME NEW e \in Surcharges, Plain(e) \/ Return(e)
          PROVE  cyc' >= cyc /\ hz' = hz
      BY <3>2, <2>t, Quantities DEF Plain, Return
    <3>3. ASSUME BeginBlock \/ EnableIrq \/ DisableIrq \/ AccessPort \/ NoIrq
          PROVE  cyc' >= cyc /\ hz' = hz
      BY <3>3, <2>t DEF BeginBlock, EnableIrq, DisableIrq, AccessPort, NoIrq
    <3>4. ASSUME NEW n \in Costs, BlockIteration(n) PROVE cyc' >= cyc /\ hz' = hz
      BY <3>4, <2>t, Quantities DEF BlockIteration
    <3>5. ASSUME AcceptIrq PROVE cyc' >= cyc /\ hz' = hz
      BY <3>5, <2>t, Quantities DEF AcceptIrq
    <3>6. ASSUME HaltSync PROVE cyc' >= cyc /\ hz' = hz
      BY <3>6, <2>t DEF HaltSync
    <3>7. ASSUME BeginHalt \/ HaltBail \/ HaltWake \/ HybridContinue
          PROVE  cyc' >= cyc /\ hz' = hz
      BY <3>7, <2>t DEF BeginHalt, HaltBail, HaltWake, HybridContinue
    <3>8. ASSUME EnterHybrid PROVE cyc' >= cyc /\ hz'.cyc >= hz.cyc
      <4>1. hz.cyc = 0 /\ hz'.cyc = cyc /\ cyc' = cyc
        BY <3>8 DEF EnterHybrid, Body, HybridClock
      <4>2. QED BY <4>1, <2>t
    <3>9. ASSUME NEW op \in AllOps, NEW n \in Costs, HybridStep(op, n)
          PROVE  cyc' >= cyc /\ hz'.cyc >= hz.cyc
      BY <3>9, <2>t, Quantities DEF HybridStep
    <3>10. ASSUME UNCHANGED vars PROVE cyc' >= cyc /\ hz' = hz
      BY <3>10, <2>t DEF vars
    <3>11. ASSUME hz' = hz PROVE hz'.cyc >= hz.cyc
      BY <3>11, <2>t
    <3>12. QED
      BY <2>2, <3>1, <3>2, <3>3, <3>4, <3>5, <3>6, <3>7, <3>8, <3>9, <3>10,
         <3>11 DEF Next, Recompiled, Sync, Halt, Hybrid
  <2>3. ASSUME ExitHybrid PROVE cyc' >= cyc /\ cyc' >= hz.cyc
    BY <2>3, <2>t DEF ExitHybrid, HybridAdvanced, HybridClock
  <2>4. CASE ~AdvanceLine
    <3>1. nextLine' = nextLine
      BY <2>4, VideoUnchanged
    <3>2. cyc' \in Nat /\ hz'.cyc \in Nat
      <4>1. TypeOK'
        BY TypeStep
      <4>2. QED BY <4>1 DEF TypeOK, Interpreter
    <3>3. QED BY <2>2, <2>3, <2>4, <2>t, <3>1, <3>2 DEF NeverAhead
  <2>5. QED BY <2>1, <2>4
<1>3. QED BY <1>1, <1>2, TypeCorrect, HybridClockInv, PTL DEF Spec
-----------------------------------------------------------------------------
\* Where sms_set_sync_deadline puts the deadline: at the next line or the next
\* cycle, and at the next cycle whenever /INT is up.
LEMMA SyncDeadlineBound ==
  ASSUME NEW v, NEW t \in Nat, NEW next \in Nat
  PROVE  /\ SyncDeadline(v, t, next) \in Nat
         /\ SyncDeadline(v, t, next) <= next \/ SyncDeadline(v, t, next) <= t + 1
         /\ IrqAsserted(v) => SyncDeadline(v, t, next) <= t + 1
<1>1. CASE IrqAsserted(v)
  <2>1. SyncDeadline(v, t, next) = t + 1
    BY <1>1 DEF SyncDeadline
  <2>2. QED BY <2>1
<1>2. CASE ~IrqAsserted(v)
  <2>1. SyncDeadline(v, t, next) = next
    BY <1>2 DEF SyncDeadline
  <2>2. QED BY <2>1, <1>2
<1>3. QED BY <1>1, <1>2

\* A deadline within a cycle of the clock stays there as the clock runs on.
LEMMA ClockGains == \A d, c, later \in Nat :
                      d <= c + 1 /\ later >= c => d <= later + 1
OBVIOUS

\* Inside a sync the deadline has been reached; everywhere control can return
\* to an instruction boundary it is the next line's cycle or the next cycle.
LEMMA DeadlineInvariant == Spec => []DeadlineInv
<1>1. Init => DeadlineInv
  BY Quantities DEF Init, DeadlineInv
<1>2. TypeOK /\ DeadlineInv /\ [Next]_vars => DeadlineInv'
  <2> SUFFICES ASSUME TypeOK, DeadlineInv, [Next]_vars PROVE DeadlineInv'
    OBVIOUS
  <2> USE DEF DeadlineInv
  <2>t. /\ cyc \in Nat /\ deadline \in Nat /\ nextLine \in Nat
        /\ cyc' \in Nat /\ deadline' \in Nat
    BY TypeStep DEF TypeOK
  <2>1. ASSUME NEW op \in Ops, NEW n \in Costs, Tick(op, n) PROVE DeadlineInv'
    BY <2>1, <2>t, Quantities DEF Tick, timers
  <2>2. ASSUME NEW e \in Surcharges, Plain(e) PROVE DeadlineInv'
    BY <2>2, <2>t, Quantities DEF Plain, Body, timers
  <2>3. ASSUME NEW e \in Surcharges, Return(e) PROVE DeadlineInv'
    <3>1. pc' # "advance"
      BY <2>3 DEF Return, AfterSync
    <3>2. nextLine' = nextLine /\ deadline' = SyncDeadline(vdp, cyc', nextLine)
      BY <2>3 DEF Return, timers
    <3>3. deadline' <= nextLine' \/ deadline' <= cyc' + 1
      BY <3>2, <2>t, SyncDeadlineBound
    <3>4. QED BY <3>1, <3>3
  <2>4. CASE BeginBlock \/ EnableIrq \/ DisableIrq \/ AccessPort
    BY <2>4 DEF BeginBlock, EnableIrq, DisableIrq, AccessPort, Body, timers
  <2>5. ASSUME NEW n \in Costs, BlockIteration(n) PROVE DeadlineInv'
    <3>1. /\ cyc' >= cyc /\ nextLine' = nextLine /\ deadline' = deadline
          /\ pc = "body"
      BY <2>5, <2>t, Quantities DEF BlockIteration, Body, timers
    <3>2. pc' = "advance" => deadline' <= cyc'
      BY <2>5, <2>t DEF BlockIteration
    <3>3. pc' \in {"body", "fetch", "advance"}
      BY <2>5 DEF BlockIteration
    <3>4. deadline' <= nextLine' \/ deadline' <= cyc' + 1
      BY <3>1, <2>t, ClockGains
    <3>5. QED BY <3>2, <3>3, <3>4
  <2>6. CASE AdvanceLine
    BY <2>6 DEF AdvanceLine
  <2>7. CASE AcceptIrq
    BY <2>7, <2>t, Quantities DEF AcceptIrq, Synced, timers
  <2>8. CASE NoIrq
    <3>1. pc' # "advance"
      BY <2>8 DEF NoIrq, AfterSync
    <3>2. /\ nextLine' = nextLine /\ cyc' = cyc
          /\ deadline' = SyncDeadline(vdp, cyc, nextLine)
      BY <2>8 DEF NoIrq, timers
    <3>3. deadline' <= nextLine' \/ deadline' <= cyc' + 1
      BY <3>2, <2>t, SyncDeadlineBound
    <3>4. QED BY <3>1, <3>3
  <2>9. CASE BeginHalt
    BY <2>9 DEF BeginHalt, Body, timers
  <2>10. CASE HaltSync
    <3>1. deadline' = deadline /\ pc' = "advance"
      BY <2>10 DEF HaltSync
    <3>2. cyc' >= deadline
      BY <2>10, <2>t, Quantities DEF HaltSync
    <3>3. deadline' <= cyc'
      BY <3>1, <3>2, <2>t
    <3>4. QED BY <3>1, <3>3
  <2>11. CASE HaltBail \/ HaltWake
    BY <2>11 DEF HaltBail, HaltWake, timers
  <2>12. CASE EnterHybrid \/ HybridContinue
    BY <2>12 DEF EnterHybrid, HybridContinue
  <2>13. ASSUME NEW op \in AllOps, NEW n \in Costs, HybridStep(op, n)
         PROVE  DeadlineInv'
    BY <2>13 DEF HybridStep
  <2>14. CASE ExitHybrid
    BY <2>14, <2>t DEF ExitHybrid, SyncDeadline, timers
  <2>15. CASE UNCHANGED vars
    BY <2>15 DEF vars
  <2>16. QED
    BY <2>1, <2>2, <2>3, <2>4, <2>5, <2>6, <2>7, <2>8, <2>9, <2>10, <2>11,
       <2>12, <2>13, <2>14, <2>15 DEF Next, Recompiled, Sync, Halt, Hybrid
<1>3. QED BY <1>1, <1>2, TypeCorrect, PTL DEF Spec

\* No tick crosses a line event without a sync: at every instruction boundary
\* of recompiled code, after a handler, a HALT or an interpreted routine too,
\* sms_tick's one compare with g_sync_deadline catches the next line.
THEOREM DeadlinesSound == Spec => []DeadlineSound
<1>1. DeadlineInv => DeadlineSound
  BY DEF DeadlineInv, DeadlineSound
<1>2. QED BY <1>1, DeadlineInvariant, PTL

\* Programs that raise /INT only through the VDP's own latches: whenever /INT
\* is up at a boundary, the very next tick samples it.
LEMMA PollInvariant == ASSUME CleanEnables PROVE Spec => []PollInv
<1> USE CleanEnables DEF PollInv
<1>1. Init => PollInv
  BY DEF Init, PollInv, IrqAsserted, VdpReset
<1>2. TypeOK /\ DeadlineInv /\ PollInv /\ [Next]_vars => PollInv'
  <2> SUFFICES ASSUME TypeOK, DeadlineInv, PollInv, [Next]_vars PROVE PollInv'
    OBVIOUS
  <2>t. /\ cyc \in Nat /\ deadline \in Nat /\ nextLine \in Nat
        /\ cyc' \in Nat /\ deadline' \in Nat
    BY TypeStep DEF TypeOK
  <2>s. ~IrqAsserted(StatusRead(vdp))
    BY DEF IrqAsserted, StatusRead, TypeOK, Vdp
  <2>1. ASSUME NEW op \in Ops, NEW n \in Costs, Tick(op, n) PROVE PollInv'
    BY <2>1, <2>t, Quantities DEF Tick
  <2>2. ASSUME NEW e \in Surcharges, Plain(e) PROVE PollInv'
    BY <2>2, <2>t, Quantities DEF Plain, Body
  <2>3. ASSUME NEW e \in Surcharges, Return(e) PROVE PollInv'
    <3>1. vdp' = vdp /\ deadline' = SyncDeadline(vdp, cyc', nextLine)
      BY <2>3 DEF Return
    <3>2. IrqAsserted(vdp) => deadline' <= cyc' + 1
      BY <3>1, <2>t, SyncDeadlineBound
    <3>3. QED BY <3>1, <3>2
  <2>4. CASE BeginBlock \/ EnableIrq \/ DisableIrq
    BY <2>4 DEF BeginBlock, EnableIrq, DisableIrq, Body
  <2>5. CASE AccessPort
    <3>1. IrqAsserted(vdp') => IrqAsserted(vdp)
      BY <2>5, <2>s DEF AccessPort, PortEffect, ProgramWrites
    <3>2. pc = "body" /\ UNCHANGED <<cyc, deadline>>
      BY <2>5 DEF AccessPort, Body
    <3>3. QED BY <3>1, <3>2
  <2>6. ASSUME NEW n \in Costs, BlockIteration(n) PROVE PollInv'
    <3>1. IrqAsserted(vdp') => IrqAsserted(vdp)
      BY <2>6, <2>s DEF BlockIteration, PortEffect, ProgramWrites
    <3>2. pc = "body" /\ deadline' = deadline /\ cyc' >= cyc
      BY <2>6, <2>t, Quantities DEF BlockIteration, Body
    <3>3. IrqAsserted(vdp) => deadline <= cyc + 1
      BY <3>2
    <3>4. IrqAsserted(vdp) => deadline' <= cyc' + 1
      BY <3>2, <3>3, <2>t, ClockGains
    <3>5. QED BY <3>1, <3>4
  <2>7. CASE AdvanceLine
    BY <2>7 DEF AdvanceLine
  <2>8. CASE AcceptIrq
    BY <2>8, <2>t, Quantities DEF AcceptIrq, Synced, DeadlineInv
  <2>9. CASE NoIrq
    <3>1. vdp' = vdp /\ cyc' = cyc /\ deadline' = SyncDeadline(vdp, cyc, nextLine)
      BY <2>9 DEF NoIrq
    <3>2. IrqAsserted(vdp) => deadline' <= cyc' + 1
      BY <3>1, <2>t, SyncDeadlineBound
    <3>3. QED BY <3>1, <3>2
  <2>10. CASE BeginHalt \/ HaltSync \/ HaltBail \/ HaltWake
    BY <2>10 DEF BeginHalt, HaltSync, HaltBail, HaltWake, Body
  <2>11. CASE EnterHybrid \/ HybridContinue
    BY <2>11 DEF EnterHybrid, HybridContinue
  <2>12. ASSUME NEW op \in AllOps, NEW n \in Costs, HybridStep(op, n)
         PROVE  PollInv'
    BY <2>12 DEF HybridStep
  <2>13. CASE ExitHybrid
    BY <2>13, <2>t DEF ExitHybrid, SyncDeadline
  <2>14. CASE UNCHANGED vars
    BY <2>14 DEF vars
  <2>15. QED
    BY <2>1, <2>2, <2>3, <2>4, <2>5, <2>6, <2>7, <2>8, <2>9, <2>10, <2>11,
       <2>12, <2>13, <2>14 DEF Next, Recompiled, Sync, Halt, Hybrid
<1>3. QED BY <1>1, <1>2, TypeCorrect, DeadlineInvariant, PTL DEF Spec

\* The polling contract, for programs that clear a flag before they enable it:
\* an interrupt that can be accepted at a boundary is sampled by the next tick.
THEOREM PollsEveryBoundary == ASSUME CleanEnables PROVE Spec => []PollContract
<1>1. PollInv => PollContract
  BY DEF PollInv, PollContract
<1>2. QED BY <1>1, PollInvariant, PTL

-----------------------------------------------------------------------------
(* Recompiled code implements the interrupt contract of Z80Irq: whatever an *)
(* instruction costs and however the lines fall, provided every routine was *)
(* compiled (no dispatch miss) and the program raises /INT only through the *)
(* VDP's latches.                                                           *)

Native == Engines = {"run"} /\ "miss" \notin Ops

\* Nothing is, or waits to be, interpreted.
NativeInv == /\ pc \notin {"hyb", "hadv"}
             /\ cur # "miss"
             /\ ctl \in Seq(Syncs \ {"miss"})

\* A body that follows a tick runs with the EI slot over.
SlotInv == pc = "body" /\ cur # "block" => ~eiBlock

\* Removing the last element of a sequence.
LEMMA FrontOfSeq ==
  ASSUME NEW S, NEW s \in Seq(S), s # << >>
  PROVE  /\ s[Len(s)] \in S
         /\ SubSeq(s, 1, Len(s) - 1) \in Seq(S)
         /\ Len(SubSeq(s, 1, Len(s) - 1)) = Len(s) - 1
         /\ Len(s) > 0
<1>1. Len(s) \in Nat /\ Len(s) > 0
  BY SMT
<1>2. s[Len(s)] \in S
  BY <1>1, SMT
<1>3. \A i \in 1 .. Len(s) - 1 : s[i] \in S
  BY <1>1, SMT
<1>4. /\ SubSeq(s, 1, Len(s) - 1) \in Seq(S)
      /\ Len(SubSeq(s, 1, Len(s) - 1))
           = IF 1 <= Len(s) - 1 THEN Len(s) - 1 - 1 + 1 ELSE 0
  BY <1>1, <1>3, SubSeqProperties
<1>5. \A k \in Nat : k > 0 => (IF 1 <= k - 1 THEN k - 1 - 1 + 1 ELSE 0) = k - 1
  OBVIOUS
<1>6. Len(SubSeq(s, 1, Len(s) - 1)) = Len(s) - 1
  BY <1>1, <1>4, <1>5, Zenon
<1>7. QED BY <1>1, <1>2, <1>4, <1>6

\* A compiled program never reaches the interpreter.
LEMMA NativeInvariant == ASSUME Native PROVE Spec => []NativeInv
<1> USE Native DEF Native
<1>1. Init => NativeInv
  BY DEF Init, NativeInv
<1>2. TypeOK /\ NativeInv /\ [Next]_vars => NativeInv'
  <2> SUFFICES ASSUME TypeOK, NativeInv, [Next]_vars PROVE NativeInv'
    OBVIOUS
  <2> USE DEF NativeInv
  <2>1. ASSUME NEW op \in Ops, NEW n \in Costs, Tick(op, n) PROVE NativeInv'
    BY <2>1 DEF Tick
  <2>2. ASSUME NEW e \in Surcharges, Plain(e) PROVE NativeInv'
    BY <2>2 DEF Plain
  <2>3. ASSUME NEW e \in Surcharges, Return(e) PROVE NativeInv'
    <3>1. ctl # << >> /\ cur' = ctl[Len(ctl)] /\ ctl' = SubSeq(ctl, 1, Len(ctl) - 1)
      BY <2>3 DEF Return
    <3>2. cur' \in Syncs \ {"miss"} /\ ctl' \in Seq(Syncs \ {"miss"})
      BY <3>1, FrontOfSeq
    <3>3. pc' \in {"halt", "body", "fetch"}
      BY <2>3 DEF Return, AfterSync
    <3>4. QED BY <3>2, <3>3
  <2>4. CASE BeginBlock \/ EnableIrq \/ DisableIrq \/ AccessPort
    BY <2>4 DEF BeginBlock, EnableIrq, DisableIrq, AccessPort
  <2>5. ASSUME NEW n \in Costs, BlockIteration(n) PROVE NativeInv'
    BY <2>5 DEF BlockIteration
  <2>6. CASE AdvanceLine
    BY <2>6 DEF AdvanceLine
  <2>7. ASSUME AcceptIrq PROVE NativeInv'
    <3>1. pc' = "fetch" /\ cur' = cur /\ ctl' = Append(ctl, cur)
      BY <2>7 DEF AcceptIrq
    <3>2. cur \in Syncs \ {"miss"}
      BY DEF TypeOK
    <3>3. QED BY <3>1, <3>2
  <2>8. CASE NoIrq
    BY <2>8 DEF NoIrq, AfterSync
  <2>9. CASE BeginHalt \/ HaltSync \/ HaltBail \/ HaltWake
    BY <2>9 DEF BeginHalt, HaltSync, HaltBail, HaltWake
  <2>10. CASE EnterHybrid
    BY <2>10 DEF EnterHybrid, Body
  <2>11. ASSUME NEW op \in AllOps, NEW n \in Costs, HybridStep(op, n)
         PROVE  NativeInv'
    BY <2>11 DEF HybridStep
  <2>12. CASE HybridContinue \/ ExitHybrid
    BY <2>12 DEF HybridContinue, ExitHybrid, HybridAdvanced
  <2>13. CASE UNCHANGED vars
    BY <2>13 DEF vars
  <2>14. QED
    BY <2>1, <2>2, <2>3, <2>4, <2>5, <2>6, <2>7, <2>8, <2>9, <2>10, <2>11,
       <2>12, <2>13 DEF Next, Recompiled, Sync, Halt, Hybrid
<1>3. QED BY <1>1, <1>2, TypeCorrect, PTL DEF Spec
\* The EI slot is over in every body a tick precedes: sms_tick clears it after
\* its sync, and a handler returns into the same code.
LEMMA SlotInvariant == Spec => []SlotInv
<1>1. Init => SlotInv
  BY DEF Init, SlotInv
<1>2. SlotInv /\ [Next]_vars => SlotInv'
  <2> SUFFICES ASSUME SlotInv, [Next]_vars PROVE SlotInv'
    OBVIOUS
  <2> USE DEF SlotInv
  <2>1. ASSUME NEW op \in Ops, NEW n \in Costs, Tick(op, n) PROVE SlotInv'
    BY <2>1 DEF Tick
  <2>2. ASSUME NEW e \in Surcharges, Plain(e) PROVE SlotInv'
    BY <2>2 DEF Plain
  <2>3. ASSUME NEW e \in Surcharges, Return(e) PROVE SlotInv'
    BY <2>3 DEF Return, AfterSync
  <2>4. CASE BeginBlock \/ EnableIrq \/ DisableIrq \/ AccessPort
    BY <2>4 DEF BeginBlock, EnableIrq, DisableIrq, AccessPort
  <2>5. ASSUME NEW n \in Costs, BlockIteration(n) PROVE SlotInv'
    BY <2>5 DEF BlockIteration, Body
  <2>6. CASE AdvanceLine
    BY <2>6 DEF AdvanceLine
  <2>7. CASE AcceptIrq \/ NoIrq
    BY <2>7 DEF AcceptIrq, NoIrq, AfterSync
  <2>8. CASE BeginHalt \/ HaltSync \/ HaltBail \/ HaltWake
    BY <2>8 DEF BeginHalt, HaltSync, HaltBail, HaltWake
  <2>9. CASE EnterHybrid \/ HybridContinue \/ ExitHybrid
    BY <2>9 DEF EnterHybrid, HybridContinue, ExitHybrid
  <2>10. ASSUME NEW op \in AllOps, NEW n \in Costs, HybridStep(op, n)
         PROVE  SlotInv'
    BY <2>10 DEF HybridStep
  <2>11. CASE UNCHANGED vars
    BY <2>11 DEF vars
  <2>12. QED
    BY <2>1, <2>2, <2>3, <2>4, <2>5, <2>6, <2>7, <2>8, <2>9, <2>10, <2>11
       DEF Next, Recompiled, Sync, Halt, Hybrid
<1>3. QED BY <1>1, <1>2, PTL DEF Spec
-----------------------------------------------------------------------------
\* A tick that does not reach the deadline has nothing to sample.
LEMMA QuietTick ==
  ASSUME TypeOK, PollInv, pc \in {"fetch", "body"},
         NEW n \in Costs, cyc + n < deadline
  PROVE  ~IrqAsserted(vdp)
<1>1. cyc \in Nat /\ deadline \in Nat /\ n \in Nat /\ n >= 1
  BY Quantities DEF TypeOK
<1>2. ~(deadline <= cyc + 1)
  BY <1>1
<1>3. QED BY <1>2 DEF PollInv

\* StepLine raises /INT or leaves it alone.
LEMMA StepLineRaises ==
  ASSUME vdp \in Vdp
  PROVE  IrqAsserted(vdp) => IrqAsserted(StepLine(vdp))
<1>1. /\ vdp.frameIrq => StepLine(vdp).frameIrq
      /\ vdp.lineIrq => StepLine(vdp).lineIrq
      /\ StepLine(vdp).frameEn = vdp.frameEn
      /\ StepLine(vdp).lineEn = vdp.lineEn
  BY DEF StepLine, Vdp
<1>2. QED BY <1>1 DEF IrqAsserted

\* The Z80's view of each state, one fact per shape of state.
LEMMA StageValues ==
  /\ pc = "body" /\ cur = "block" => Stage = "repeat"
  /\ pc = "body" /\ cur # "block" => Stage = "insn"
  /\ pc = "halt" => Stage = "halted"
  /\ pc = "fetch" => Stage = "boundary"
  /\ pc \in {"advance", "quit"} /\ cur = "block" => Stage = "iterated"
  /\ pc \in {"advance", "quit"} /\ cur = "spin" => Stage = "halted"
  /\ pc \in {"advance", "quit"} /\ cur \notin {"block", "spin"}
       => Stage = "boundary"
BY DEF Stage

LEMMA NextStageValues ==
  /\ pc' = "body" /\ cur' = "block" => Stage' = "repeat"
  /\ pc' = "body" /\ cur' # "block" => Stage' = "insn"
  /\ pc' = "halt" => Stage' = "halted"
  /\ pc' = "fetch" => Stage' = "boundary"
  /\ pc' \in {"advance", "quit"} /\ cur' = "block" => Stage' = "iterated"
  /\ pc' \in {"advance", "quit"} /\ cur' = "spin" => Stage' = "halted"
  /\ pc' \in {"advance", "quit"} /\ cur' \notin {"block", "spin"}
       => Stage' = "boundary"
BY DEF Stage

\* Every step of compiled code is a step of the contract or invisible to it.
LEMMA StepImplements ==
  ASSUME Native, CleanEnables, TypeOK, TypeOK', PollInv, NativeInv, SlotInv,
         [Next]_vars
  PROVE  Irq!Next \/ UNCHANGED Irq!vars
<1> USE DEF Irq!vars
<1>t. /\ IrqAsserted(vdp) \in BOOLEAN /\ IrqAsserted(vdp') \in BOOLEAN
      /\ eiBlock \in BOOLEAN
  BY DEF TypeOK, IrqAsserted
<1>s. ~IrqAsserted(StatusRead(vdp))
  BY DEF IrqAsserted, StatusRead, TypeOK, Vdp
<1>1. ASSUME NEW op \in Ops, NEW n \in Costs, Tick(op, n)
      PROVE  Irq!Next \/ UNCHANGED Irq!vars
  <2>0. op # "spin" /\ op # "block"
    BY <1>1, TimingAssumption DEF Tick, AllOps
  <2>1. /\ Stage = "boundary" /\ cur' = op /\ op \notin {"block", "spin"}
        /\ vdp' = vdp /\ iff1' = iff1 /\ ctl' = ctl
    BY <1>1, <2>0, StageValues DEF Tick
  <2>2. CASE cyc' >= deadline
    <3>1. pc' = "advance" /\ eiBlock' = eiBlock
      BY <1>1, <2>2 DEF Tick
    <3>2. Stage' = "boundary"
      BY <2>1, <3>1, NextStageValues
    <3>3. QED BY <2>1, <3>1, <3>2
  <2>3. CASE ~(cyc' >= deadline)
    <3>1. pc' = "body" /\ eiBlock' = FALSE /\ cyc' = cyc + n /\ pc = "fetch"
      BY <1>1, <2>3 DEF Tick
    <3>2. Stage' = "insn"
      BY <2>1, <3>1, NextStageValues
    <3>3. cyc + n < deadline
      BY <2>3, <3>1, Quantities DEF TypeOK
    <3>4. ~IrqAsserted(vdp)
      BY <3>1, <3>3, QuietTick
    <3>5. Irq!Begin
      BY <2>1, <3>1, <3>2, <3>4 DEF Irq!Begin, Irq!Eligible
    <3>6. QED BY <3>5 DEF Irq!Next
  <2>4. QED BY <2>2, <2>3
<1>2. ASSUME BeginBlock PROVE Irq!Next
  <2>1. Stage = "boundary" /\ Stage' = "repeat"
    BY <1>2, StageValues, NextStageValues DEF BeginBlock
  <2>2. Irq!BeginRepeat
    BY <1>2, <2>1 DEF BeginBlock, cpu, Irq!BeginRepeat
  <2>3. QED BY <2>2 DEF Irq!Next
<1>3. ASSUME NEW e \in Surcharges, Plain(e) PROVE Irq!Next
  <2>1. Stage = "insn" /\ Stage' = "boundary"
    BY <1>3, StageValues, NextStageValues DEF Plain, Body
  <2>2. Irq!Complete
    BY <1>3, <2>1, <1>t DEF Plain, cpu, Irq!Complete
  <2>3. QED BY <2>2 DEF Irq!Next
<1>4. ASSUME EnableIrq \/ DisableIrq \/ AccessPort PROVE Irq!Next
  <2>1. Stage = "insn" /\ Stage' = "boundary"
    BY <1>4, StageValues, NextStageValues
       DEF EnableIrq, DisableIrq, AccessPort, Body
  <2>2. /\ ctl' = ctl
        /\ \/ iff1' = iff1 /\ eiBlock' = eiBlock
           \/ iff1' = TRUE /\ eiBlock' = TRUE
           \/ iff1' = FALSE /\ eiBlock' = eiBlock
    BY <1>4 DEF EnableIrq, DisableIrq, AccessPort, cpu
  <2>3. Irq!Complete
    BY <2>1, <2>2, <1>t DEF Irq!Complete
  <2>4. QED BY <2>3 DEF Irq!Next
<1>5. ASSUME NEW n \in Costs, BlockIteration(n) PROVE Irq!Next
  <2>1. /\ Stage = "repeat" /\ pc = "body" /\ cur' = "block"
        /\ iff1' = iff1 /\ ctl' = ctl /\ cyc' = cyc + n /\ deadline' = deadline
    BY <1>5, StageValues DEF BlockIteration, Body
  <2>2. CASE cyc' >= deadline
    <3>1. pc' = "advance" /\ eiBlock' \in {eiBlock, FALSE}
      BY <1>5, <2>2 DEF BlockIteration
    <3>2. Stage' = "iterated"
      BY <2>1, <3>1, NextStageValues
    <3>3. Irq!Iterate
      BY <2>1, <3>1, <3>2, <1>t DEF Irq!Iterate
    <3>4. QED BY <3>3 DEF Irq!Next
  <2>3. CASE ~(cyc' >= deadline)
    <3>1. pc' \in {"body", "fetch"} /\ eiBlock' = FALSE
      BY <1>5, <2>3 DEF BlockIteration
    <3>2. Stage' \in {"repeat", "boundary"}
      BY <2>1, <3>1, NextStageValues
    <3>3. cyc + n < deadline
      BY <2>1, <2>3, Quantities DEF TypeOK
    <3>4. ~IrqAsserted(vdp)
      BY <2>1, <3>3, QuietTick
    <3>5. ~IrqAsserted(vdp')
      BY <1>5, <1>s, <3>4, CleanEnables DEF BlockIteration, PortEffect, ProgramWrites
    <3>6. Irq!IterateQuietly
      BY <2>1, <3>1, <3>2, <3>5, <1>t DEF Irq!IterateQuietly
    <3>7. QED BY <3>6 DEF Irq!Next
  <2>4. QED BY <2>2, <2>3
<1>6. ASSUME NEW e \in Surcharges, Return(e) PROVE Irq!Next
  <2>1. /\ ctl # << >> /\ ctl' = SubSeq(ctl, 1, Len(ctl) - 1)
        /\ vdp' = vdp /\ iff1' = iff1
        /\ pc = "body" /\ cur = "ret"
    BY <1>6 DEF Return, Body
  <2>2. Len(ctl') = Len(ctl) - 1 /\ Len(ctl) > 0
    BY <2>1, FrontOfSeq DEF NativeInv
  <2>3. ~eiBlock
    BY <2>1 DEF SlotInv
  <2>4. eiBlock' = FALSE
    BY <1>6, <2>3 DEF Return, AfterSync, TypeOK
  <2>5. pc' \in {"halt", "body", "fetch"}
    BY <1>6 DEF Return, AfterSync
  <2>6. Stage = "insn" /\ Stage' \in {"boundary", "insn", "halted", "repeat"}
    BY <2>1, <2>5, StageValues, NextStageValues
  <2>7. Irq!Return
    BY <2>1, <2>2, <2>4, <2>6 DEF Irq!Return, Irq!Stages
  <2>8. QED BY <2>7 DEF Irq!Next
<1>7. ASSUME AdvanceLine PROVE Irq!Next \/ UNCHANGED Irq!vars
  <2>1. /\ pc \in {"advance", "quit"} /\ pc' \in {"advance", "quit"} /\ cur' = cur
        /\ iff1' = iff1 /\ eiBlock' = eiBlock /\ ctl' = ctl
        /\ vdp' = StepLine(vdp)
    BY <1>7 DEF AdvanceLine, NativeInv, cpu
  <2>2. Stage' = Stage /\ Stage \in {"boundary", "halted", "iterated"}
    BY <2>1, StageValues, NextStageValues
  <2>3. IrqAsserted(vdp) => IrqAsserted(vdp')
    BY <2>1, StepLineRaises DEF TypeOK
  <2>4. CASE IrqAsserted(vdp') = IrqAsserted(vdp)
    BY <2>1, <2>2, <2>4
  <2>5. CASE IrqAsserted(vdp') # IrqAsserted(vdp)
    <3>1. IrqAsserted(vdp') = TRUE
      BY <1>t, <2>3, <2>5
    <3>2. Irq!Raise
      BY <2>1, <2>2, <3>1 DEF Irq!Raise, Irq!Waiting
    <3>3. QED BY <3>2 DEF Irq!Next
  <2>6. QED BY <2>4, <2>5
<1>8. ASSUME AcceptIrq PROVE Irq!Next
  <2>1. /\ pc = "advance" /\ IrqAsserted(vdp) /\ iff1 /\ ~eiBlock
        /\ iff1' = FALSE /\ pc' = "fetch" /\ ctl' = Append(ctl, cur)
        /\ vdp' = vdp /\ eiBlock' = eiBlock
    BY <1>8 DEF AcceptIrq, Synced, Accepts
  <2>2. Len(ctl') = Len(ctl) + 1
    BY <2>1 DEF NativeInv
  <2>3. Stage \in {"boundary", "halted", "iterated"} /\ Stage' = "boundary"
    BY <2>1, StageValues, NextStageValues
  <2>4. Irq!Accept
    BY <2>1, <2>2, <2>3 DEF Irq!Accept, Irq!Waiting, Irq!Eligible
  <2>5. QED BY <2>4 DEF Irq!Next
<1>9. ASSUME NoIrq PROVE Irq!Next \/ UNCHANGED Irq!vars
  <2>1. /\ pc = "advance" /\ ~(IrqAsserted(vdp) /\ iff1 /\ ~eiBlock)
        /\ cur' = cur /\ vdp' = vdp /\ iff1' = iff1 /\ ctl' = ctl
    BY <1>9 DEF NoIrq, Synced, Accepts
  <2>2. CASE cur = "spin"
    <3>1. pc' = "halt" /\ eiBlock' = eiBlock
      BY <1>9, <2>2 DEF NoIrq, AfterSync
    <3>2. Stage = "halted" /\ Stage' = "halted"
      BY <2>1, <2>2, <3>1, StageValues, NextStageValues
    <3>3. QED BY <2>1, <3>1, <3>2
  <2>3. CASE cur = "block"
    <3>1. pc' \in {"body", "fetch"} /\ eiBlock' = FALSE
      BY <1>9, <2>3 DEF NoIrq, AfterSync
    <3>2. Stage = "iterated" /\ Stage' \in {"repeat", "boundary"}
      BY <2>1, <2>3, <3>1, StageValues, NextStageValues
    <3>3. Irq!Repeat
      BY <2>1, <3>1, <3>2 DEF Irq!Repeat, Irq!Eligible
    <3>4. QED BY <3>3 DEF Irq!Next
  <2>4. CASE cur \notin {"spin", "block"}
    <3>1. pc' = "body" /\ eiBlock' = FALSE
      BY <1>9, <2>4 DEF NoIrq, AfterSync
    <3>2. Stage = "boundary" /\ Stage' = "insn"
      BY <2>1, <2>4, <3>1, StageValues, NextStageValues
    <3>3. Irq!Begin
      BY <2>1, <3>1, <3>2 DEF Irq!Begin, Irq!Eligible
    <3>4. QED BY <3>3 DEF Irq!Next
  <2>5. QED BY <2>2, <2>3, <2>4
<1>10. ASSUME BeginHalt PROVE Irq!Next
  <2>1. Stage = "insn" /\ Stage' = "halted"
    BY <1>10, StageValues, NextStageValues DEF BeginHalt, Body
  <2>2. Irq!Stop
    BY <1>10, <2>1 DEF BeginHalt, Irq!Stop
  <2>3. QED BY <2>2 DEF Irq!Next
<1>11. ASSUME HaltSync PROVE UNCHANGED Irq!vars
  <2>1. Stage = "halted" /\ Stage' = "halted"
    BY <1>11, StageValues, NextStageValues DEF HaltSync
  <2>2. QED BY <1>11, <2>1 DEF HaltSync, cpu
<1>12. ASSUME HaltBail \/ HaltWake PROVE Irq!Next
  <2>1. Stage = "halted" /\ Stage' = "boundary"
    BY <1>12, StageValues, NextStageValues DEF HaltBail, HaltWake
  <2>2. Irq!Resume
    BY <1>12, <2>1 DEF HaltBail, HaltWake, cpu, Irq!Resume
  <2>3. QED BY <2>2 DEF Irq!Next
<1>13. ~EnterHybrid /\ ~HybridContinue /\ ~ExitHybrid
  BY DEF NativeInv, EnterHybrid, HybridContinue, ExitHybrid, HybridAdvanced, Body
<1>14. ~(\E op \in AllOps, n \in Costs : HybridStep(op, n))
  BY DEF NativeInv, HybridStep
<1>15. ASSUME UNCHANGED vars PROVE UNCHANGED Irq!vars
  <2>1. Stage' = Stage
    BY <1>15 DEF vars, Stage
  <2>2. QED BY <1>15, <2>1 DEF vars
<1>16. QED
  BY <1>1, <1>2, <1>3, <1>4, <1>5, <1>6, <1>7, <1>8, <1>9, <1>10, <1>11,
     <1>12, <1>13, <1>14, <1>15 DEF Next, Recompiled, Sync, Halt, Hybrid

\* Compiled code keeps the Z80's interrupt contract: /INT is a level sampled at
\* every instruction boundary, the instruction after EI completes first, and a
\* preempted instruction is resumed, not re-sampled, when its handler returns.
THEOREM CodeImplementsZ80Irq ==
  ASSUME Native, CleanEnables
  PROVE  Spec => ImplementsZ80Irq
<1>1. Init => Irq!Init
  <2>1. ASSUME Init PROVE ~IrqAsserted(vdp) /\ Stage = "boundary" /\ Len(ctl) = 0
    BY <2>1, Native, StageValues DEF Init, Native, IrqAsserted, VdpReset
  <2>2. QED BY <2>1 DEF Init, Irq!Init, IrqAsserted
<1>2. TypeOK /\ TypeOK' /\ PollInv /\ NativeInv /\ SlotInv /\ [Next]_vars
        => [Irq!Next]_(Irq!vars)
  BY StepImplements, Native, CleanEnables
<1>3. Spec => [](TypeOK /\ PollInv /\ NativeInv /\ SlotInv)
  BY TypeCorrect, PollInvariant, NativeInvariant, SlotInvariant, Native,
     CleanEnables, PTL
<1>4. QED BY <1>1, <1>2, <1>3, PTL DEF Spec, ImplementsZ80Irq, Irq!Spec

-----------------------------------------------------------------------------
(* Which interrupts may go unsampled, EI's slot, and how late a body runs.  *)

\* Only a register write since the last sync can have raised /INT without a
\* deadline at the next cycle.
ArmInv == pc \in {"fetch", "body", "halt"} /\ IrqAsserted(vdp)
            => deadline <= cyc + 1 \/ armed

LEMMA ArmInvariant == Spec => []ArmInv
<1> USE DEF ArmInv
<1>1. Init => ArmInv
  BY DEF Init, IrqAsserted, VdpReset
<1>2. TypeOK /\ DeadlineInv /\ ArmInv /\ [Next]_vars => ArmInv'
  <2> SUFFICES ASSUME TypeOK, DeadlineInv, ArmInv, [Next]_vars PROVE ArmInv'
    OBVIOUS
  <2>t. /\ cyc \in Nat /\ deadline \in Nat /\ nextLine \in Nat
        /\ cyc' \in Nat /\ deadline' \in Nat
    BY TypeStep DEF TypeOK
  <2>p. PortEffect /\ IrqAsserted(vdp') => armed' \/ (IrqAsserted(vdp) /\ ~armed)
    BY DEF PortEffect
  <2>1. ASSUME NEW op \in Ops, NEW n \in Costs, Tick(op, n) PROVE ArmInv'
    <3>1. /\ pc = "fetch" /\ cyc' >= cyc
          /\ UNCHANGED <<vdp, deadline, armed>>
      BY <2>1, <2>t, Quantities DEF Tick, ghosts
    <3>2. deadline <= cyc + 1 => deadline' <= cyc' + 1
      BY <3>1, <2>t, ClockGains
    <3>3. QED BY <3>1, <3>2
  <2>2. ASSUME NEW e \in Surcharges, Plain(e) PROVE ArmInv'
    <3>1. /\ pc = "body" /\ cyc' >= cyc
          /\ UNCHANGED <<vdp, deadline, armed>>
      BY <2>2, <2>t, Quantities DEF Plain, Body
    <3>2. deadline <= cyc + 1 => deadline' <= cyc' + 1
      BY <3>1, <2>t, ClockGains
    <3>3. QED BY <3>1, <3>2
  <2>3. ASSUME NEW e \in Surcharges, Return(e) PROVE ArmInv'
    <3>1. vdp' = vdp /\ deadline' = SyncDeadline(vdp, cyc', nextLine)
      BY <2>3 DEF Return
    <3>2. IrqAsserted(vdp) => deadline' <= cyc' + 1
      BY <3>1, <2>t, SyncDeadlineBound
    <3>3. QED BY <3>1, <3>2
  <2>4. CASE BeginBlock \/ EnableIrq \/ DisableIrq
    BY <2>4 DEF BeginBlock, EnableIrq, DisableIrq, Body, ghosts
  <2>5. CASE AccessPort
    <3>1. /\ pc = "body" /\ UNCHANGED <<cyc, deadline>>
          /\ IrqAsserted(vdp') => armed' \/ (IrqAsserted(vdp) /\ ~armed)
      BY <2>5, <2>p DEF AccessPort, Body
    <3>2. QED BY <3>1
  <2>6. ASSUME NEW n \in Costs, BlockIteration(n) PROVE ArmInv'
    <3>1. /\ pc = "body" /\ deadline' = deadline /\ cyc' >= cyc
          /\ IrqAsserted(vdp') => armed' \/ (IrqAsserted(vdp) /\ ~armed)
      BY <2>6, <2>p, <2>t, Quantities DEF BlockIteration, Body
    <3>2. deadline <= cyc + 1 => deadline' <= cyc' + 1
      BY <3>1, <2>t, ClockGains
    <3>3. QED BY <3>1, <3>2
  <2>7. CASE AdvanceLine
    BY <2>7 DEF AdvanceLine
  <2>8. CASE AcceptIrq
    BY <2>8, <2>t, Quantities DEF AcceptIrq, Synced, DeadlineInv
  <2>9. CASE NoIrq
    <3>1. vdp' = vdp /\ cyc' = cyc /\ deadline' = SyncDeadline(vdp, cyc, nextLine)
      BY <2>9 DEF NoIrq
    <3>2. IrqAsserted(vdp) => deadline' <= cyc' + 1
      BY <3>1, <2>t, SyncDeadlineBound
    <3>3. QED BY <3>1, <3>2
  <2>10. CASE BeginHalt \/ HaltSync \/ HaltBail \/ HaltWake
    BY <2>10 DEF BeginHalt, HaltSync, HaltBail, HaltWake, Body, ghosts
  <2>11. CASE EnterHybrid \/ HybridContinue
    BY <2>11 DEF EnterHybrid, HybridContinue
  <2>12. ASSUME NEW op \in AllOps, NEW n \in Costs, HybridStep(op, n)
         PROVE  ArmInv'
    BY <2>12 DEF HybridStep
  <2>13. CASE ExitHybrid
    <3>1. /\ vdp' = vdp /\ cyc' = hz.cyc
          /\ deadline' = SyncDeadline(vdp, cyc', nextLine)
      BY <2>13 DEF ExitHybrid
    <3>2. IrqAsserted(vdp) => deadline' <= cyc' + 1
      BY <3>1, <2>t, SyncDeadlineBound
    <3>3. QED BY <3>1, <3>2
  <2>14. CASE UNCHANGED vars
    BY <2>14 DEF vars
  <2>15. QED
    BY <2>1, <2>2, <2>3, <2>4, <2>5, <2>6, <2>7, <2>8, <2>9, <2>10, <2>11,
       <2>12, <2>13, <2>14 DEF Next, Recompiled, Sync, Halt, Hybrid
<1>3. QED BY <1>1, <1>2, TypeCorrect, DeadlineInvariant, PTL DEF Spec

\* Whatever the program does: an interrupt that can be accepted and is not
\* sampled at the next tick was raised by a register write since the last sync,
\* and is sampled by the next line (sms_sync, vdp_control_write).
THEOREM UnsampledOnlyArmed == Spec => []PollUnlessArmed
<1>1. TypeOK /\ ArmInv /\ DeadlineInv => PollUnlessArmed
  BY DEF ArmInv, DeadlineInv, PollUnlessArmed
<1>2. QED BY <1>1, ArmInvariant, DeadlineInvariant, TypeCorrect, PTL

-----------------------------------------------------------------------------
\* The instruction behind EI ends its slot before anything is accepted: while
\* the slot is open at a boundary or in a tick, ei_block is set, and neither the
\* loop of HALT, nor an iterated block, nor the handoff begins in a slot.
EiInv ==
  /\ slot /\ pc \in {"fetch", "advance"} => eiBlock
  /\ pc = "advance" /\ cur \in {"block", "spin"} => ~slot
  /\ pc = "halt" => ~slot
  /\ pc = "hadv" /\ cur = "miss" => ~slot

LEMMA EiInvariant == Spec => []EiInv
<1> USE DEF EiInv
<1>1. Init => EiInv
  BY DEF Init
<1>2. TypeOK /\ EiInv /\ [Next]_vars => EiInv'
  <2> SUFFICES ASSUME TypeOK, EiInv, [Next]_vars PROVE EiInv'
    OBVIOUS
  <2>1. ASSUME NEW op \in Ops, NEW n \in Costs, Tick(op, n) PROVE EiInv'
    <3>1. op # "block" /\ op # "spin"
      BY <2>1, TimingAssumption DEF Tick, AllOps
    <3>2. QED BY <2>1, <3>1 DEF Tick, ghosts
  <2>2. ASSUME NEW e \in Surcharges, Plain(e) PROVE EiInv'
    BY <2>2 DEF Plain
  <2>3. ASSUME NEW e \in Surcharges, Return(e) PROVE EiInv'
    BY <2>3 DEF Return
  <2>4. CASE BeginBlock \/ EnableIrq \/ DisableIrq \/ AccessPort
    BY <2>4 DEF BeginBlock, EnableIrq, DisableIrq, AccessPort
  <2>5. ASSUME NEW n \in Costs, BlockIteration(n) PROVE EiInv'
    BY <2>5 DEF BlockIteration
  <2>6. CASE AdvanceLine
    BY <2>6 DEF AdvanceLine, cpu, ghosts
  <2>7. CASE AcceptIrq
    BY <2>7 DEF AcceptIrq, Accepts, Synced, ghosts
  <2>8. CASE NoIrq
    BY <2>8 DEF NoIrq, Synced, AfterSync
  <2>9. CASE BeginHalt \/ HaltSync \/ HaltBail \/ HaltWake
    BY <2>9 DEF BeginHalt, HaltSync, HaltBail, HaltWake, ghosts, cpu
  <2>10. CASE EnterHybrid \/ HybridContinue
    BY <2>10 DEF EnterHybrid, HybridContinue
  <2>11. ASSUME NEW op \in AllOps, NEW n \in Costs, HybridStep(op, n)
         PROVE  EiInv'
    <3>1. op = "ei" => ~Exits(op)
      BY DEF Exits
    <3>2. cur' = "miss" => Exits(op)
      BY <2>11 DEF HybridStep
    <3>3. slot' = (op = "ei") /\ pc' = "hadv"
      BY <2>11 DEF HybridStep
    <3>4. QED BY <3>1, <3>2, <3>3
  <2>12. CASE ExitHybrid
    BY <2>12 DEF ExitHybrid, HybridAdvanced
  <2>13. CASE UNCHANGED vars
    BY <2>13 DEF vars
  <2>14. QED
    BY <2>1, <2>2, <2>3, <2>4, <2>5, <2>6, <2>7, <2>8, <2>9, <2>10, <2>11,
       <2>12, <2>13 DEF Next, Recompiled, Sync, Halt, Hybrid
<1>3. QED BY <1>1, <1>2, TypeCorrect, PTL DEF Spec

\* Whatever the program does and whichever engine runs it, no interrupt is
\* accepted between EI and the end of the next instruction (sms_tick's ei_block,
\* z80_step's iff_delay, the handoffs of hybrid_interpret).
THEOREM EiSlotKept == Spec => EiSlot
<1> DEFINE Kept == /\ AcceptIrq => ~slot
                   /\ \A n \in Costs :
                        ~(HybridStep("ei", n) /\ HybridAccepts("ei"))
<1>1. EiInv /\ [Next]_vars => [Kept]_vars
  <2>1. SUFFICES ASSUME EiInv PROVE Kept
    OBVIOUS
  <2>2. AcceptIrq => ~slot
    BY <2>1 DEF EiInv, AcceptIrq, Accepts, Synced
  <2>3. ~HybridAccepts("ei")
    BY DEF HybridAccepts, Delayed
  <2>4. QED BY <2>2, <2>3
<1>2. QED BY <1>1, EiInvariant, PTL DEF Spec, EiSlot

-----------------------------------------------------------------------------
\* Pushing a suspended sync and popping it.
LEMMA CtlFacts ==
  ASSUME TypeOK
  PROVE  /\ Len(ctl) \in Nat /\ hz.isr \in Nat
         /\ Len(Append(ctl, cur)) = Len(ctl) + 1
         /\ ctl # << >> => Len(SubSeq(ctl, 1, Len(ctl) - 1)) = Len(ctl) - 1
<1>1. ctl \in Seq(Syncs) /\ cur \in Syncs /\ hz.isr \in Nat
  BY DEF TypeOK, Interpreter
<1>2. Len(ctl) \in Nat /\ Len(Append(ctl, cur)) = Len(ctl) + 1
  BY <1>1, SMT
<1>3. ctl # << >> => Len(SubSeq(ctl, 1, Len(ctl) - 1)) = Len(ctl) - 1
  BY <1>1, FrontOfSeq
<1>4. QED BY <1>1, <1>2, <1>3

\* No more than MaxNest handlers nest: EI needs room for one more, and nothing
\* but EI sets IFF1 (the EI slot is over when interpreted code begins).
Executing == {"fetch", "advance", "body", "halt"}

NestInv ==
  /\ Nest <= MaxNest
  /\ pc \in Executing => hz.isr = 0 /\ (iff1 => Nest < MaxNest)
  /\ pc \in {"hyb", "hadv"} => ~hz.delay /\ (hz.iff1 => Nest < MaxNest)
  /\ pc \in {"advance", "body"} /\ cur = "ei" => Nest < MaxNest

LEMMA NestInvariant == Spec => []NestInv
<1> USE DEF NestInv, Nest, Executing
<1>1. Init => NestInv
  <2> SUFFICES ASSUME Init PROVE NestInv
    OBVIOUS
  <2>1. MaxNest \in Nat
    BY TimingAssumption
  <2>2. hz = HzIdle \/ hz = [HzIdle EXCEPT !.top = TRUE]
    BY DEF Init
  <2>3. hz.isr = 0 /\ hz.delay = FALSE /\ hz.iff1 = FALSE
    BY <2>2 DEF HzIdle
  <2>4. Len(ctl) = 0 /\ iff1 = FALSE /\ cur = "nop"
    BY DEF Init
  <2>5. QED BY <2>1, <2>3, <2>4
<1>2. TypeOK /\ SlotInv /\ NestInv /\ [Next]_vars => NestInv'
  <2> SUFFICES ASSUME TypeOK, SlotInv, NestInv, [Next]_vars PROVE NestInv'
    OBVIOUS
  <2>t. /\ Len(ctl) \in Nat /\ hz.isr \in Nat /\ MaxNest \in Nat
        /\ Len(Append(ctl, cur)) = Len(ctl) + 1
        /\ ctl # << >> => Len(SubSeq(ctl, 1, Len(ctl) - 1)) = Len(ctl) - 1
    BY CtlFacts, TimingAssumption
  <2>1. ASSUME NEW op \in Ops, NEW n \in Costs, Tick(op, n) PROVE NestInv'
    BY <2>1 DEF Tick, Allowed
  <2>2. ASSUME NEW e \in Surcharges, Plain(e) PROVE NestInv'
    BY <2>2 DEF Plain, Body, cpu
  <2>3. ASSUME NEW e \in Surcharges, Return(e) PROVE NestInv'
    <3>1. /\ pc = "body" /\ ctl # << >> /\ UNCHANGED <<hz, iff1>>
          /\ ctl' = SubSeq(ctl, 1, Len(ctl) - 1)
      BY <2>3 DEF Return, Body
    <3>2. pc' \in {"halt", "body", "fetch"}
      BY <2>3 DEF Return, AfterSync
    <3>3. Len(ctl') = Len(ctl) - 1
      BY <3>1, <2>t
    <3>4. QED BY <3>1, <3>2, <3>3, <2>t
  <2>4. CASE BeginBlock \/ AccessPort
    BY <2>4 DEF BeginBlock, AccessPort, Body, cpu
  <2>5. CASE EnableIrq
    BY <2>5 DEF EnableIrq, Body
  <2>6. CASE DisableIrq
    BY <2>6 DEF DisableIrq, Body
  <2>7. ASSUME NEW n \in Costs, BlockIteration(n) PROVE NestInv'
    <3>1. /\ pc = "body" /\ cur = "block" /\ UNCHANGED <<ctl, hz, iff1, cur>>
          /\ pc' \in {"advance", "body", "fetch"}
      BY <2>7 DEF BlockIteration, Body
    <3>2. QED BY <3>1
  <2>8. CASE AdvanceLine
    BY <2>8 DEF AdvanceLine, cpu
  <2>9. CASE AcceptIrq
    <3>1. /\ pc = "advance" /\ iff1 /\ pc' = "fetch" /\ hz' = hz
          /\ iff1' = FALSE /\ ctl' = Append(ctl, cur)
      BY <2>9 DEF AcceptIrq, Synced, Accepts
    <3>2. Len(ctl') = Len(ctl) + 1
      BY <3>1, <2>t
    <3>3. QED BY <3>1, <3>2, <2>t
  <2>10. CASE NoIrq
    <3>1. pc = "advance" /\ UNCHANGED <<ctl, hz, iff1, cur>>
      BY <2>10 DEF NoIrq, Synced
    <3>2. pc' \in {"halt", "body", "fetch"}
      BY <2>10 DEF NoIrq, AfterSync
    <3>3. QED BY <3>1, <3>2
  <2>11. CASE BeginHalt \/ HaltSync \/ HaltBail \/ HaltWake
    BY <2>11 DEF BeginHalt, HaltSync, HaltBail, HaltWake, Body, cpu
  <2>12. CASE EnterHybrid
    BY <2>12 DEF EnterHybrid, Body, SlotInv
  <2>13. CASE HybridContinue
    BY <2>13 DEF HybridContinue, HybridAdvanced
  <2>14. ASSUME NEW op \in AllOps, NEW n \in Costs, HybridStep(op, n)
         PROVE  NestInv'
    <3> DEFINE accept == HybridAccepts(op)
    <3>1. /\ pc = "hyb" /\ pc' = "hadv" /\ ctl' = ctl
          /\ hz'.isr = hz.isr - (IF op = "ret" /\ hz.isr > 0 THEN 1 ELSE 0)
                       + (IF accept /\ ~(op = "ret" /\ hz.isr = 0) THEN 1 ELSE 0)
          /\ hz'.delay = FALSE
          /\ hz'.iff1 = (Delayed(op) \/ (Enabled(op) /\ ~accept))
      BY <2>14 DEF HybridStep
    <3>2. op = "ei" => Len(ctl) + hz.isr < MaxNest
      BY <2>14 DEF HybridStep, Allowed
    <3>3. /\ ~hz.delay
          /\ Delayed(op) <=> op = "ei"
      BY <3>1 DEF Delayed
    <3>4. Enabled(op) => Len(ctl) + hz.isr < MaxNest
      BY <3>1 DEF Enabled
    <3>5. accept => Enabled(op) /\ ~Delayed(op)
      BY DEF HybridAccepts
    <3> HIDE DEF accept
    <3>6. CASE accept
      <4>1. hz'.isr \in Int /\ hz'.isr <= hz.isr + 1
        BY <3>1, <2>t
      <4>2. ~hz'.iff1
        BY <3>6, <3>1, <3>5
      <4>3. QED BY <4>1, <4>2, <3>1, <3>4, <3>5, <3>6, <2>t
    <3>7. CASE ~accept
      <4>1. hz'.isr \in Int /\ hz'.isr <= hz.isr
        BY <3>1, <3>7, <2>t
      <4>2. hz'.iff1 => Len(ctl) + hz.isr < MaxNest
        BY <3>1, <3>2, <3>3, <3>4
      <4>3. QED BY <4>1, <4>2, <3>1, <2>t
    <3>8. QED BY <3>6, <3>7
  <2>15. CASE ExitHybrid
    <3>1. /\ pc = "hadv" /\ pc' = "fetch" /\ ctl' = ctl /\ hz' = HzIdle
          /\ iff1' = hz.iff1
      BY <2>15 DEF ExitHybrid, HybridAdvanced
    <3>2. hz'.isr = 0
      BY <3>1 DEF HzIdle
    <3>3. QED BY <3>1, <3>2, <2>t
  <2>16. CASE UNCHANGED vars
    BY <2>16 DEF vars
  <2>17. QED
    BY <2>1, <2>2, <2>3, <2>4, <2>5, <2>6, <2>7, <2>8, <2>9, <2>10, <2>11,
       <2>12, <2>13, <2>14, <2>15, <2>16
       DEF Next, Recompiled, Sync, Halt, Hybrid
<1>3. QED BY <1>1, <1>2, TypeCorrect, SlotInvariant, PTL DEF Spec

-----------------------------------------------------------------------------
\* How far the clock may be past the next line, for surcharges of at most late:
\* each handler that returned since the last tick has added one.
Slack(late) == late * (MaxNest - Len(ctl))

Paced(late) ==
  /\ pc = "halt" \/ (pc = "body" /\ cur # "block")
       => cyc < nextLine + Slack(late)
  /\ pc = "fetch" \/ (pc = "body" /\ cur = "block")
       => cyc < nextLine + Slack(late) + late + IrqLatency

\* A return adds a surcharge to the allowance, a handler in progress takes one.
LEMMA SlackFacts ==
  ASSUME TypeOK, NestInv, NEW late \in Nat
  PROVE  /\ Slack(late) \in Nat
         /\ Slack(late) <= late * MaxNest
         /\ late * (MaxNest - (Len(ctl) - 1)) = Slack(late) + late
<1>1. /\ Len(ctl) \in Nat /\ MaxNest \in Nat /\ Len(ctl) <= MaxNest
  BY CtlFacts, TimingAssumption DEF NestInv, Nest
<1> DEFINE m == MaxNest
           l == Len(ctl)
<1>2. m \in Nat /\ l \in Nat /\ l <= m
  BY <1>1
<1> HIDE DEF m, l
<1>3. late * (m - l) \in Nat /\ late * (m - l) <= late * m
  <2>1. m - l \in Nat
    BY <1>2
  <2>2. late * (m - l) \in Nat /\ late * l \in Nat
    BY <2>1, <1>2
  <2>3. late * m = late * (m - l) + late * l
    BY <1>2
  <2>4. QED BY <2>2, <2>3, <1>2
<1>4. late * (m - (l - 1)) = late * (m - l) + late
  BY <1>2
<1>5. QED BY <1>3, <1>4 DEF m, l, Slack

\* Only handlers and their returns move the allowance.
LEMMA SlackKept == ASSUME NEW late, ctl' = ctl PROVE Slack(late)' = Slack(late)
BY DEF Slack

LEMMA PacedStep ==
  ASSUME NEW late \in Nat, \A e \in Surcharges : e <= late,
         TypeOK, DeadlineInv, NestInv, NestInv', Paced(late), [Next]_vars
  PROVE  Paced(late)'
<1> USE DEF Paced
<1>t. /\ cyc \in Nat /\ deadline \in Nat /\ nextLine \in Nat
      /\ cyc' \in Nat /\ deadline' \in Nat /\ nextLine' \in Nat
      /\ TypeOK'
  BY TypeStep DEF TypeOK
<1>q. IrqLatency \in Nat
  BY Quantities
<1>s. /\ Slack(late) \in Nat /\ Slack(late)' \in Nat
      /\ late * (MaxNest - (Len(ctl) - 1)) = Slack(late) + late
  <2>1. Slack(late)' \in Nat
    <3>1. /\ Len(ctl') \in Nat /\ MaxNest \in Nat /\ Len(ctl') <= MaxNest
      <4>1. Len(ctl)' \in Nat /\ hz'.isr \in Nat
        BY <1>t DEF TypeOK, Interpreter
      <4>2. QED BY <4>1, TimingAssumption DEF NestInv, Nest
    <3>2. MaxNest - Len(ctl') \in Nat
      BY <3>1
    <3>3. QED BY <3>2 DEF Slack
  <2>2. QED BY <2>1, SlackFacts
<1>k. \A k \in Nat : cyc < nextLine + k => cyc < nextLine + k + late + IrqLatency
  BY <1>t, <1>q
<1>1. ASSUME NEW op \in Ops, NEW n \in Costs, Tick(op, n) PROVE Paced(late)'
  <2>1. /\ pc = "fetch" /\ cur' = op /\ op # "block"
        /\ pc' \in {"advance", "body"}
        /\ UNCHANGED <<ctl, deadline, nextLine>>
        /\ cyc' = cyc + n /\ n \in Nat /\ n > 0
        /\ pc' = "body" => cyc' < deadline
    BY <1>1, <1>t, Quantities DEF Tick, timers
  <2>2. pc' = "body" => cyc' < nextLine
    BY <2>1, <1>t DEF DeadlineInv
  <2>3. QED BY <2>1, <2>2, <1>s, <1>t
<1>2. CASE BeginBlock
  <2>1. /\ pc = "fetch" /\ cur' = "block" /\ pc' = "body"
        /\ UNCHANGED <<ctl, cyc, nextLine>>
    BY <1>2 DEF BeginBlock, timers
  <2>2. QED BY <2>1, SlackKept
<1>3. ASSUME NEW e \in Surcharges, Plain(e) PROVE Paced(late)'
  <2>1. /\ pc = "body" /\ cur # "block" /\ pc' = "fetch"
        /\ UNCHANGED <<ctl, nextLine>>
        /\ cyc' = cyc + e /\ e \in Nat /\ e <= late
    BY <1>3, Quantities DEF Plain, Body, timers
  <2>2. Slack(late)' = Slack(late)
    BY <2>1, SlackKept
  <2>3. QED BY <2>1, <2>2, <1>t, <1>q, <1>s
<1>4. ASSUME NEW e \in Surcharges, Return(e) PROVE Paced(late)'
  <2>1. /\ pc = "body" /\ cur # "block" /\ ctl # << >>
        /\ ctl' = SubSeq(ctl, 1, Len(ctl) - 1) /\ nextLine' = nextLine
        /\ cyc' = cyc + e /\ e \in Nat /\ e <= late
    BY <1>4, Quantities DEF Return, Body, timers
  <2>2. Len(ctl') = Len(ctl) - 1
    BY <2>1, CtlFacts
  <2>3. Slack(late)' = Slack(late) + late
    BY <2>2, <1>s DEF Slack
  <2>4. cyc' < nextLine' + Slack(late)'
    BY <2>1, <2>3, <1>t, <1>s
  <2>5. QED BY <2>4, <1>t, <1>q, <1>s
<1>5. CASE EnableIrq \/ DisableIrq \/ AccessPort
  <2>1. /\ pc = "body" /\ cur # "block" /\ pc' = "fetch"
        /\ UNCHANGED <<ctl, cyc, nextLine>>
    BY <1>5 DEF EnableIrq, DisableIrq, AccessPort, Body, timers
  <2>2. Slack(late)' = Slack(late)
    BY <2>1, SlackKept
  <2>3. QED BY <2>1, <2>2, <1>k, <1>s
<1>6. ASSUME NEW n \in Costs, BlockIteration(n) PROVE Paced(late)'
  <2>1. n \in Nat /\ n > 0
    BY Quantities
  <2>2. /\ pc = "body" /\ UNCHANGED <<deadline, nextLine>>
        /\ cyc' = cyc + n
    BY <1>6 DEF BlockIteration, Body, timers
  <2>3. /\ pc' \in {"advance", "body", "fetch"}
        /\ pc' # "advance" => ~(cyc' >= deadline)
    BY <1>6 DEF BlockIteration
  <2>4. deadline <= nextLine \/ deadline <= cyc + 1
    BY <2>2 DEF DeadlineInv
  <2>5. pc' # "advance" => cyc' < nextLine'
    BY <2>1, <2>2, <2>3, <2>4, <1>t
  <2>6. QED BY <2>3, <2>5, <1>s, <1>t, <1>q
<1>7. CASE AdvanceLine
  BY <1>7 DEF AdvanceLine
<1>8. CASE AcceptIrq
  <2>1. /\ cyc < nextLine /\ pc' = "fetch" /\ nextLine' = nextLine
        /\ cyc' = cyc + IrqLatency
    BY <1>8 DEF AcceptIrq, Synced, timers
  <2>2. QED BY <2>1, <1>t, <1>q, <1>s
<1>9. CASE NoIrq
  <2>1. cyc < nextLine /\ nextLine' = nextLine /\ cyc' = cyc
    BY <1>9 DEF NoIrq, Synced, timers
  <2>2. QED BY <2>1, <1>t, <1>q, <1>s
<1>10. CASE BeginHalt
  <2>1. /\ pc = "body" /\ cur # "block" /\ pc' = "halt"
        /\ UNCHANGED <<ctl, cyc, nextLine>>
    BY <1>10 DEF BeginHalt, Body, timers
  <2>2. QED BY <2>1, SlackKept
<1>11. CASE HaltSync
  BY <1>11 DEF HaltSync
<1>12. CASE HaltBail \/ HaltWake
  <2>1. pc = "halt" /\ pc' = "fetch" /\ UNCHANGED <<ctl, cyc, nextLine>>
    BY <1>12 DEF HaltBail, HaltWake, timers
  <2>2. Slack(late)' = Slack(late)
    BY <2>1, SlackKept
  <2>3. QED BY <2>1, <2>2, <1>k, <1>s
<1>13. CASE EnterHybrid \/ HybridContinue
  BY <1>13 DEF EnterHybrid, HybridContinue
<1>14. ASSUME NEW op \in AllOps, NEW n \in Costs, HybridStep(op, n)
       PROVE  Paced(late)'
  BY <1>14 DEF HybridStep
<1>15. CASE ExitHybrid
  <2>1. /\ hz.cyc < nextLine /\ pc' = "fetch" /\ nextLine' = nextLine
        /\ cyc' = hz.cyc
    BY <1>15 DEF ExitHybrid, HybridAdvanced, timers
  <2>2. QED BY <2>1, <1>t, <1>q, <1>s
<1>16. CASE UNCHANGED vars
  <2>1. UNCHANGED <<pc, cur, ctl, cyc, nextLine>>
    BY <1>16 DEF vars
  <2>2. QED BY <2>1, SlackKept
<1>17. QED
  BY <1>1, <1>2, <1>3, <1>4, <1>5, <1>6, <1>7, <1>8, <1>9, <1>10, <1>11,
     <1>12, <1>13, <1>14, <1>15, <1>16
     DEF Next, Recompiled, Sync, Halt, Hybrid

\* For every surcharge that bounds the others; there is none to speak of if
\* branches may cost any amount.
PaceInv == \A late \in Surcharges : (\A e \in Surcharges : e <= late) => Paced(late)

LEMMA PaceInvariant == Spec => []PaceInv
<1>1. Init /\ TypeOK /\ NestInv => PaceInv
  <2> SUFFICES ASSUME Init, TypeOK, NestInv, NEW late \in Surcharges
               PROVE  Paced(late)
    BY DEF PaceInv
  <2>1. late \in Nat
    BY Quantities
  <2>2. Slack(late) \in Nat
    BY <2>1, SlackFacts
  <2>3. cyc = 0 /\ nextLine = CycPerLine /\ CycPerLine \in Nat /\ CycPerLine > 0
    BY Quantities DEF Init
  <2>4. QED BY <2>1, <2>2, <2>3, Quantities DEF Paced
<1>2. TypeOK /\ DeadlineInv /\ NestInv /\ NestInv' /\ PaceInv /\ [Next]_vars
        => PaceInv'
  <2> SUFFICES ASSUME TypeOK, DeadlineInv, NestInv, NestInv', PaceInv, [Next]_vars,
                      NEW late \in Surcharges, \A e \in Surcharges : e <= late
               PROVE  Paced(late)'
    BY DEF PaceInv
  <2>1. late \in Nat /\ Paced(late)
    BY Quantities DEF PaceInv
  <2>2. QED BY <2>1, PacedStep
<1>3. QED
  BY <1>1, <1>2, TypeCorrect, DeadlineInvariant, NestInvariant, PTL DEF Spec

\* Bodies run on their line, late by no more than the surcharges of the returns
\* that led to them and, for a block instruction's first iteration, of a branch
\* and an acknowledge: how many cycles instructions take does not matter
\* (sms_tick before every body).
THEOREM BodiesInLine == Spec => []BodyInLine
<1>1. TypeOK /\ NestInv /\ PaceInv => BodyInLine
  <2> SUFFICES ASSUME TypeOK, NestInv, PaceInv, NEW late \in Surcharges,
                      \A e \in Surcharges : e <= late, pc = "body"
               PROVE  cyc < nextLine + late * MaxNest
                            + (IF cur = "block" THEN late + IrqLatency ELSE 0)
    BY DEF BodyInLine
  <2>1. late \in Nat /\ Paced(late) /\ IrqLatency \in Nat
    BY Quantities DEF PaceInv
  <2>2. /\ Slack(late) \in Nat /\ late * MaxNest \in Nat
        /\ Slack(late) <= late * MaxNest
    <3>1. late * MaxNest \in Nat
      BY <2>1, TimingAssumption
    <3>2. QED BY <2>1, <3>1, SlackFacts
  <2>3. cyc \in Nat /\ nextLine \in Nat
    BY DEF TypeOK
  <2> DEFINE k == Slack(late)
             b == late * MaxNest
  <2>4. /\ k \in Nat /\ b \in Nat /\ k <= b
        /\ cur # "block" => cyc < nextLine + k
        /\ cur = "block" => cyc < nextLine + k + late + IrqLatency
    BY <2>1, <2>2 DEF Paced
  <2> HIDE DEF k, b
  <2>5. cyc < nextLine + b + (IF cur = "block" THEN late + IrqLatency ELSE 0)
    BY <2>1, <2>3, <2>4
  <2>6. QED BY <2>5 DEF b
<1>2. QED BY <1>1, TypeCorrect, NestInvariant, PaceInvariant, PTL

-----------------------------------------------------------------------------
\* The lines until vdp_step_line latches the frame flag.
LinesToFlag(v) == IF v.line < VBlankLine
                    THEN VBlankLine - v.line
                    ELSE VBlankLine + LinesPerFrame - v.line

\* A VDP with a vertical blank, as every machine has.
HasVBlank == VBlankLine \in Nat /\ VBlankLine >= 1 /\ VBlankLine <= LinesPerFrame

LEMMA LinesToFlagType ==
  ASSUME HasVBlank, NEW v \in Vdp
  PROVE  /\ LinesToFlag(v) \in Nat /\ LinesToFlag(v) >= 1
         /\ LinesToFlag(v) <= LinesPerFrame
<1>1. /\ v.line \in Nat /\ LinesPerFrame \in Nat
      /\ v.line <= LinesPerFrame - 1
  BY LinesAssumption DEF Vdp
<1>2. QED BY <1>1 DEF LinesToFlag, HasVBlank

\* A line brings the flag, or is one of those that are left.
LEMMA LineBringsFlag ==
  ASSUME HasVBlank, NEW v \in Vdp, v.frameEn
  PROVE  /\ StepLine(v).frameEn
         /\ \/ IrqAsserted(StepLine(v))
            \/ LinesToFlag(StepLine(v)) = LinesToFlag(v) - 1
<1> DEFINE w == StepLine(v)
           next == v.line + 1
<1>1. /\ v.line \in Nat /\ LinesPerFrame \in Nat
      /\ v.line <= LinesPerFrame - 1
  BY LinesAssumption DEF Vdp
<1>2. /\ w.line = IF next >= LinesPerFrame THEN 0 ELSE next
      /\ next = VBlankLine => w.frameIrq
      /\ w.frameEn
  BY DEF StepLine, Vdp
<1> HIDE DEF w
<1>3. CASE next = VBlankLine
  BY <1>2, <1>3 DEF IrqAsserted, w
<1>4. CASE next # VBlankLine
  <2>1. LinesToFlag(w) = LinesToFlag(v) - 1
    BY <1>1, <1>2, <1>4 DEF LinesToFlag, HasVBlank
  <2>2. QED BY <2>1, <1>2 DEF w
<1>5. QED BY <1>3, <1>4

\* A HALT that its interrupt will end: nothing of this changes while it waits.
Awaiting == halted /\ iff1 /\ vdp.frameEn

Spinning == pc = "advance" /\ cur = "spin"

\* While a HALT waits for the frame interrupt, each sync but the first is a line
\* nearer to it.
HaltInv ==
  /\ pc \in Executing /\ halted => pc = "halt" \/ Spinning
  /\ pc = "hadv" /\ cur = "miss" => ~hz.halted
  /\ pc = "halt" \/ Spinning => ~eiBlock
  /\ pc = "halt" /\ Awaiting /\ spins # 0 =>
       /\ deadline = nextLine /\ cyc < nextLine
       /\ spins + LinesToFlag(vdp) <= LinesPerFrame + 1
  /\ Spinning /\ Awaiting /\ ~IrqAsserted(vdp) =>
       /\ spins # 0
       /\ spins + LinesToFlag(vdp)
            <= LinesPerFrame + (IF cyc >= nextLine THEN 2 ELSE 1)

LEMMA HaltInvStep ==
  ASSUME HasVBlank, TypeOK, SlotInv, HaltInv, [Next]_vars
  PROVE  HaltInv'
<1> USE DEF HaltInv, Executing, Awaiting, Spinning
<1>t. /\ cyc \in Nat /\ deadline \in Nat /\ nextLine \in Nat /\ spins \in Nat
      /\ vdp \in Vdp /\ LinesPerFrame \in Nat
      /\ cyc' \in Nat /\ nextLine' \in Nat /\ spins' \in Nat
  BY TypeStep, LinesAssumption DEF TypeOK
<1>d. /\ LinesToFlag(vdp) \in Nat /\ LinesToFlag(vdp) >= 1
      /\ LinesToFlag(vdp) <= LinesPerFrame
  BY <1>t, LinesToFlagType
<1>1. ASSUME NEW op \in Ops, NEW n \in Costs, Tick(op, n) PROVE HaltInv'
  <2>1. op # "spin"
    BY TimingAssumption DEF AllOps
  <2>2. /\ pc = "fetch" /\ cur' = op /\ halted' = halted
        /\ pc' \in {"advance", "body"}
    BY <1>1 DEF Tick
  <2>3. QED BY <2>1, <2>2
<1>2. ASSUME NEW e \in Surcharges, Plain(e) PROVE HaltInv'
  BY <1>2 DEF Plain, Body, cpu
<1>3. ASSUME NEW e \in Surcharges, Return(e) PROVE HaltInv'
  <2>1. /\ pc = "body" /\ cur = "ret" /\ halted' = halted
        /\ pc' \in {"halt", "body", "fetch"}
        /\ eiBlock' = eiBlock \/ eiBlock' = FALSE
    BY <1>3 DEF Return, Body, AfterSync
  <2>2. ~halted /\ ~eiBlock
    BY <2>1 DEF SlotInv
  <2>3. QED BY <2>1, <2>2
<1>4. CASE BeginBlock \/ EnableIrq \/ DisableIrq \/ AccessPort
  BY <1>4 DEF BeginBlock, EnableIrq, DisableIrq, AccessPort, Body, cpu
<1>5. ASSUME NEW n \in Costs, BlockIteration(n) PROVE HaltInv'
  <2>1. /\ pc = "body" /\ cur' = "block" /\ halted' = halted
        /\ pc' \in {"advance", "body", "fetch"}
    BY <1>5 DEF BlockIteration, Body
  <2>2. QED BY <2>1
<1>6. CASE AdvanceLine
  <2>1. /\ pc \in {"advance", "hadv"} /\ pc' \in {pc, "quit"}
        /\ vdp' = StepLine(vdp) /\ nextLine' = nextLine + CycPerLine
        /\ pc = "advance" => cyc >= nextLine
        /\ UNCHANGED <<cyc, iff1, eiBlock, halted, cur, hz, spins>>
    BY <1>6 DEF AdvanceLine, VideoTime, cpu
  <2>2. vdp'.frameEn => vdp.frameEn
    BY <2>1, <1>t DEF StepLine, Vdp
  <2>3. IrqAsserted(vdp) => IrqAsserted(vdp')
    BY <2>1, <1>t DEF StepLine, Vdp, IrqAsserted
  <2>4. vdp.frameEn =>
          IrqAsserted(vdp') \/ LinesToFlag(vdp') = LinesToFlag(vdp) - 1
    BY <2>1, <1>t, LineBringsFlag
  <2>5. ASSUME pc = "advance", cur = "spin", Awaiting', ~IrqAsserted(vdp')
        PROVE  /\ spins' # 0
               /\ spins' + LinesToFlag(vdp') <= LinesPerFrame + 1
    <3>1. /\ Awaiting /\ ~IrqAsserted(vdp)
          /\ LinesToFlag(vdp') = LinesToFlag(vdp) - 1
      BY <2>1, <2>2, <2>3, <2>4, <2>5
    <3>2. spins # 0 /\ spins + LinesToFlag(vdp) <= LinesPerFrame + 2
      BY <3>1, <2>1, <2>5, <1>t, <1>d
    <3>3. QED BY <3>1, <3>2, <2>1, <1>t, <1>d
  <2>6. Spinning' /\ Awaiting' /\ ~IrqAsserted(vdp') =>
          /\ spins' # 0
          /\ spins' + LinesToFlag(vdp') <= LinesPerFrame + 1
    BY <2>1, <2>5
  <2>7. \A k \in Int : k <= LinesPerFrame + 1 =>
          k <= LinesPerFrame + (IF cyc' >= nextLine' THEN 2 ELSE 1)
    BY <1>t
  <2>8. LinesToFlag(vdp') \in Int
    BY <2>1, <1>t, VdpOperationTypes, LinesToFlagType
  <2>9. Spinning' /\ Awaiting' /\ ~IrqAsserted(vdp') =>
          /\ spins' # 0
          /\ spins' + LinesToFlag(vdp')
               <= LinesPerFrame + (IF cyc' >= nextLine' THEN 2 ELSE 1)
    BY <2>6, <2>7, <2>8, <1>t
  <2>10. QED BY <2>1, <2>9
<1>7. CASE AcceptIrq
  BY <1>7 DEF AcceptIrq
<1>8. CASE NoIrq
  <2>1. /\ pc = "advance" /\ cyc < nextLine /\ ~Accepts
        /\ deadline' = SyncDeadline(vdp, cyc, nextLine)
        /\ UNCHANGED <<cyc, nextLine, vdp, iff1, halted, cur, spins>>
    BY <1>8 DEF NoIrq, Synced, timers
  <2>2. /\ pc' \in {"halt", "body", "fetch"}
        /\ pc' = "halt" => cur = "spin" /\ eiBlock' = eiBlock
    BY <1>8 DEF NoIrq, AfterSync
  <2>3. pc' # "halt" => ~halted'
    <3>1. cur = "spin" => pc' = "halt"
      BY <1>8 DEF NoIrq, AfterSync
    <3>2. QED BY <3>1, <2>1
  <2>4. ASSUME pc' = "halt", Awaiting
        PROVE  /\ deadline' = nextLine' /\ cyc' < nextLine'
               /\ spins' + LinesToFlag(vdp') <= LinesPerFrame + 1
    <3>1. ~IrqAsserted(vdp)
      BY <2>4, <2>1, <2>2 DEF Accepts
    <3>2. deadline' = nextLine
      BY <3>1, <2>1 DEF SyncDeadline
    <3>3. spins + LinesToFlag(vdp) <= LinesPerFrame + 1
      BY <3>1, <2>4, <2>1, <2>2, <1>t
    <3>4. QED BY <3>2, <3>3, <2>1
  <2>5. QED BY <2>1, <2>2, <2>3, <2>4
<1>9. CASE BeginHalt
  BY <1>9 DEF BeginHalt, Body, SlotInv
<1>10. CASE HaltSync
  <2>1. /\ pc = "halt" /\ halted /\ pc' = "advance" /\ cur' = "spin"
        /\ spins' = spins + 1
        /\ cyc' = IF deadline > cyc THEN deadline ELSE cyc + CycPerLine
        /\ UNCHANGED <<nextLine, vdp, iff1, eiBlock, halted, hz>>
    BY <1>10 DEF HaltSync, timers, cpu
  <2>2. CASE spins = 0
    <3>1. spins' + LinesToFlag(vdp') <= LinesPerFrame + 1
      BY <2>1, <2>2, <1>t, <1>d
    <3>2. spins' + LinesToFlag(vdp')
            <= LinesPerFrame + (IF cyc' >= nextLine' THEN 2 ELSE 1)
      BY <3>1, <2>1, <1>t, <1>d
    <3>3. spins' # 0
      BY <2>1, <2>2
    <3>4. QED BY <2>1, <3>2, <3>3
  <2>3. CASE spins # 0
    <3>1. ASSUME Awaiting
          PROVE  spins' + LinesToFlag(vdp')
                   <= LinesPerFrame + (IF cyc' >= nextLine' THEN 2 ELSE 1)
      <4>1. /\ deadline = nextLine /\ cyc < nextLine
            /\ spins + LinesToFlag(vdp) <= LinesPerFrame + 1
        BY <3>1, <2>1, <2>3
      <4>2. cyc' >= nextLine'
        BY <4>1, <2>1, <1>t
      <4>3. QED BY <4>1, <4>2, <2>1, <1>t, <1>d
    <3>2. spins' # 0
      BY <2>1, <1>t
    <3>3. QED BY <2>1, <3>1, <3>2
  <2>4. QED BY <2>2, <2>3
<1>11. CASE HaltBail \/ HaltWake
  BY <1>11 DEF HaltBail, HaltWake, cpu
<1>12. CASE EnterHybrid \/ HybridContinue
  BY <1>12 DEF EnterHybrid, HybridContinue
<1>13. ASSUME NEW op \in AllOps, NEW n \in Costs, HybridStep(op, n)
       PROVE  HaltInv'
  <2>1. /\ pc' = "hadv"
        /\ cur' = IF Exits(op) THEN "miss" ELSE op
        /\ hz.halted => op = "nop"
        /\ ~hz.halted => op # "miss"
    BY <1>13 DEF HybridStep
  <2>2. hz'.halted = ((hz.halted \/ op = "halt") /\ ~HybridAccepts(op))
    BY <1>13 DEF HybridStep
  <2>3. cur' = "miss" => op = "ret"
    BY <2>1 DEF Exits
  <2>4. cur' = "miss" => ~hz'.halted
    BY <2>1, <2>2, <2>3
  <2>5. QED BY <2>1, <2>4
<1>14. CASE ExitHybrid
  BY <1>14 DEF ExitHybrid, HybridAdvanced
<1>15. CASE UNCHANGED vars
  <2>1. UNCHANGED <<pc, cur, hz, cyc, nextLine, deadline, vdp, iff1, eiBlock,
                    halted, spins>>
    BY <1>15 DEF vars
  <2>2. QED BY <2>1
<1>16. QED
  BY <1>1, <1>2, <1>3, <1>4, <1>5, <1>6, <1>7, <1>8, <1>9, <1>10, <1>11,
     <1>12, <1>13, <1>14, <1>15
     DEF Next, Recompiled, Sync, Halt, Hybrid

\* HALT with interrupts on and the frame interrupt enabled waits for at most a
\* frame: the loop of sms_halt never reaches its guard, if that allows the lines
\* of a frame.
THEOREM HaltsEndByIrq ==
  ASSUME HasVBlank, HaltSpins >= LinesPerFrame
  PROVE  Spec => HaltEndsByIrq
<1>1. Init => HaltInv
  BY DEF Init, HaltInv, Spinning
<1>2. TypeOK /\ SlotInv /\ HaltInv /\ [Next]_vars => HaltInv'
  BY HaltInvStep
<1>3. TypeOK /\ HaltInv => [HaltBail => ~(iff1 /\ vdp.frameEn)]_vars
  <2>1. SUFFICES ASSUME TypeOK, HaltInv, HaltBail, iff1, vdp.frameEn PROVE FALSE
    OBVIOUS
  <2>2. pc = "halt" /\ Awaiting /\ spins > HaltSpins
    BY <2>1 DEF HaltBail, HaltGuard, Awaiting
  <2>3. /\ spins \in Nat /\ HaltSpins \in Nat /\ LinesPerFrame \in Nat
        /\ LinesToFlag(vdp) \in Nat /\ LinesToFlag(vdp) >= 1
    BY <2>1, TimingAssumption, LinesAssumption, LinesToFlagType DEF TypeOK
  <2>4. spins + LinesToFlag(vdp) <= LinesPerFrame + 1
    BY <2>1, <2>2, <2>3 DEF HaltInv
  <2>5. QED BY <2>2, <2>3, <2>4
<1>4. QED
  BY <1>1, <1>2, <1>3, TypeCorrect, SlotInvariant, PTL DEF Spec, HaltEndsByIrq
=============================================================================
