----------------------------- MODULE CallStack -----------------------------
(***************************************************************************)
(* Two stacks that must agree.  Recompiled code keeps the Z80's stack in    *)
(* memory and sp, but returns through the C stack: a RET only adds 2 to sp  *)
(* and returns from the C function (emit_cf); whoever called it compares sp *)
(* with the value it expects and either goes on after the call or returns   *)
(* in turn (the propagation guard of emit_call_target).  Interrupt handlers *)
(* are C calls too (take_irq), and a routine that was not compiled runs in  *)
(* hybrid_interpret, which has to recognise the RET that leaves it.         *)
(*                                                                          *)
(* z is the Z80's stack, its values cut down to what tells returns apart: a *)
(* return address that compiled code or take_irq pushed is a serial number, *)
(* an address inside interpreted code is Inner, anything else is Data.  sp  *)
(* is Len(z), in words, growing with the stack.                             *)
(***************************************************************************)
EXTENDS Integers, Sequences, SequencesExt

CONSTANTS
  MaxCalls,   \* bound: return addresses that compiled code pushes
  MaxSp,      \* bound: words on the Z80's stack, and calls counted on it
  MaxFrames,  \* bound: C frames
  Idioms      \* what the program does beyond calls, returns and balanced data

(* Idioms:                                                                  *)
(*   abort    discards a caller's return address ("abort N frames")         *)
(*   preempt  has interrupts enabled in compiled code                       *)
(*   irqabort discards the address an interrupt was taken at                *)
(*   below    an interpreted routine pops what its caller had pushed        *)
(*   inner    an interpreted routine discards its own return addresses      *)
(*   cont     an interpreted routine makes computed calls (push, jp (hl))   *)
(*   irq      interrupts are accepted while a routine is interpreted        *)
AllIdioms ==
  {"abort", "preempt", "irqabort", "below", "inner", "cont", "irq"}

ASSUME CallAssumption == /\ MaxCalls \in Nat
                         /\ MaxSp \in Nat
                         /\ MaxFrames \in Nat
                         /\ Idioms \subseteq AllIdioms

VARIABLES
  z,       \* the Z80's stack, innermost last
  frames,  \* the C stack: who is waiting for a C function to return
  mode,    \* run: compiled code; unwind: a C return; interp: hybrid_interpret
  zpc,     \* where the RET being unwound took the Z80
  calls,   \* return addresses pushed so far, their serial numbers
  hyb      \* hybrid_interpret's entry_sp and depth, g_hz's pending request

vars == <<z, frames, mode, zpc, calls, hyb>>

Data  == 0
Inner == -1

Values == {Data, Inner} \union (1 .. MaxCalls)
Frame  == [kind : {"call", "tail", "irq"}, sp : 0 .. MaxSp, id : 0 .. MaxCalls]
Hybrid == [entry : 0 .. MaxSp, depth : Nat, pend : BOOLEAN]

Idle == [entry |-> 0, depth |-> 0, pend |-> FALSE]

Sp  == Len(z)
Top == z[Len(z)]

Init == /\ z = << >>
        /\ frames = << >>
        /\ mode = "run"
        /\ zpc = Data
        /\ calls = 0
        /\ hyb = Idle

-----------------------------------------------------------------------------
(* Compiled code.                                                           *)

\* call_by_address: a compiled function, or a dispatch miss and the interpreter.
Enter(sp) == \/ mode' = "run" /\ UNCHANGED hyb
             \/ mode' = "interp"
                /\ hyb' = [entry |-> sp, depth |-> 0, pend |-> FALSE]

PushFrame(kind, id) ==
  /\ Len(frames) < MaxFrames
  /\ frames' = Append(frames, [kind |-> kind, sp |-> Sp, id |-> id])

\* A return address goes on the stack and its owner waits at the present sp.
CallAs(kind) ==
  /\ mode = "run"
  /\ calls < MaxCalls
  /\ Sp < MaxSp
  /\ calls' = calls + 1
  /\ z' = Append(z, calls')
  /\ PushFrame(kind, calls')
  /\ Enter(Sp + 1)
  /\ UNCHANGED zpc

\* CALL and RST, and a computed call the compiler recognised (its _csp is the
\* sp below the continuation the program itself pushed).
Call == CallAs("call")

\* take_irq: the preempted instruction's address, then the handler.
TakeIrq == "preempt" \in Idioms /\ CallAs("irq")

\* JP to another function: a C call followed by a return.
TailJump ==
  /\ mode = "run"
  /\ PushFrame("tail", 0)
  /\ Enter(Sp)
  /\ UNCHANGED <<z, zpc, calls>>

PushData == /\ mode = "run"
            /\ Sp < MaxSp
            /\ z' = Append(z, Data)
            /\ UNCHANGED <<frames, mode, zpc, calls, hyb>>

\* Who pushed the address is an interrupt that still waits for its handler.
IsPreempted(v) == \E i \in 1 .. Len(frames) :
                     frames[i].kind = "irq" /\ frames[i].id = v

\* A pop of the caller's return address drops it.
MayDrop(v) == /\ v \in 1 .. MaxCalls
              /\ "abort" \in Idioms
              /\ IsPreempted(v) => "irqabort" \in Idioms

Pop == /\ mode = "run"
       /\ z # << >>
       /\ Top = Data \/ MayDrop(Top)
       /\ z' = Front(z)
       /\ UNCHANGED <<frames, mode, zpc, calls, hyb>>

\* RET: the Z80 goes where the stack says, the C function just returns.
Ret == /\ mode = "run"
       /\ z # << >>
       /\ Top # Data
       /\ zpc' = Top
       /\ z' = Front(z)
       /\ mode' = "unwind"
       /\ UNCHANGED <<frames, calls, hyb>>

-----------------------------------------------------------------------------
(* C returns.                                                               *)

Unwinding(kind) == mode = "unwind" /\ frames # << >> /\ Last(frames).kind = kind

\* Mistake: a callee that popped its own return address is not looked for.
NeverPast == FALSE

\* The guard: sp is above what the frame expects.
GoesPast == Sp < Last(frames).sp

\* The frame was passed over, or had only jumped: it returns in turn.
Propagate ==
  /\ \/ Unwinding("tail")
     \/ Unwinding("call") /\ GoesPast
  /\ frames' = Front(frames)
  /\ UNCHANGED <<z, mode, zpc, calls, hyb>>

\* The caller goes on after its call, the preempted instruction in its body.
Resume ==
  /\ \/ Unwinding("call") /\ ~GoesPast
     \/ Unwinding("irq")
  /\ frames' = Front(frames)
  /\ mode' = "run"
  /\ zpc' = Data
  /\ UNCHANGED <<z, calls, hyb>>

-----------------------------------------------------------------------------
(* hybrid_interpret: one turn of its loop is one z80_step, which executes an *)
(* instruction and may then accept an interrupt.                            *)

\* hyb_cf_class.
Class(op) == CASE op \in {"call", "skip"} -> 1
               [] op = "ret"  -> -1
               [] OTHER       -> 0

InterpOps == {"nop", "mask", "push", "pop", "call", "ret", "skip", "cont",
              "drop"}

\* Whether the program may execute op here.  "mask" is EI or DI, at which no
\* interrupt is accepted, "skip" a CALL cc not taken, "cont" the push of a
\* computed call's continuation, "drop" a pop that discards a return address.
Executes(op) ==
  CASE op = "pop"  -> z # << >> /\ Top = Data /\ (Sp <= hyb.entry => "below" \in Idioms)
    [] op = "drop" -> z # << >> /\ (IF Top = Inner THEN "inner" \in Idioms
                                    ELSE MayDrop(Top) /\ "below" \in Idioms)
    [] op = "ret"  -> z # << >> /\ Top # Data
    [] op = "cont" -> "cont" \in Idioms
    [] OTHER       -> TRUE

\* The stack and the program counter after the instruction.
After(op) == CASE op = "push"             -> Append(z, Data)
               [] op \in {"call", "cont"} -> Append(z, Inner)
               [] op \in {"pop", "drop", "ret"} -> Front(z)
               [] OTHER                   -> z
Pc(op) == IF op = "ret" THEN Top ELSE Inner

\* Mistake: the interpreter stops as soon as sp is above its entry value, as it
\* did before it counted calls.
LeavesBySp(op, took, next) == Len(next) < hyb.entry

\* The instruction at which the loop breaks: a RET that was seen as one.
Leaves(op, took, next) == /\ ~took
                          /\ Class(op) = -1
                          /\ Len(next) = Sp - 1
                          /\ hyb.depth = 0
                          /\ Len(next) < hyb.entry

\* Mistake: a RET always ends a counted call.
CountsBelowZero(op, took, next) ==
  LET dsp == Len(next) - Sp
  IN CASE took /\ dsp = 1                       -> hyb.depth + 1
       [] ~took /\ Class(op) = 1 /\ dsp = 1     -> hyb.depth + 1
       [] ~took /\ Class(op) = -1 /\ dsp = -1   -> hyb.depth - 1
       [] OTHER                                 -> hyb.depth

\* How the loop counts: a step that requested an interrupt is the interrupt's
\* push, any other is judged by its opcode, and both by the change of sp.
Counted(op, took, next) ==
  LET dsp == Len(next) - Sp
  IN CASE took /\ dsp = 1                                   -> hyb.depth + 1
       [] ~took /\ Class(op) = 1 /\ dsp = 1                 -> hyb.depth + 1
       [] ~took /\ Class(op) = -1 /\ dsp = -1 /\ hyb.depth > 0 -> hyb.depth - 1
       [] OTHER                                             -> hyb.depth

Interpret(op, took) ==
  LET accept == (took \/ hyb.pend) /\ op # "mask"
      next   == IF accept THEN Append(After(op), Pc(op)) ELSE After(op)
  IN /\ mode = "interp"
     /\ Executes(op)
     /\ took => "irq" \in Idioms /\ ~hyb.pend
     /\ Len(next) <= MaxSp
     /\ z' = next
     /\ Counted(op, took, next) <= MaxSp
     /\ IF Leaves(op, took, next)
          THEN mode' = "unwind" /\ zpc' = Top /\ hyb' = Idle
          ELSE /\ hyb' = [hyb EXCEPT !.depth = Counted(op, took, next),
                                     !.pend  = (took \/ @) /\ ~accept]
               /\ UNCHANGED <<mode, zpc>>
     /\ UNCHANGED <<frames, calls>>

Next == \/ Call \/ TakeIrq \/ TailJump \/ PushData \/ Pop \/ Ret
        \/ Propagate \/ Resume
        \/ \E op \in InterpOps, took \in BOOLEAN : Interpret(op, took)

Spec == Init /\ [][Next]_vars

-----------------------------------------------------------------------------
TypeOK == /\ z \in Seq(Values) /\ Sp <= MaxSp
          /\ frames \in Seq(Frame) /\ Len(frames) <= MaxFrames
          /\ mode \in {"run", "unwind", "interp"}
          /\ zpc \in Values
          /\ calls \in 0 .. MaxCalls
          /\ hyb \in Hybrid

\* Compiled code goes on exactly where the Z80's RET went: the frame that
\* resumes is the one whose return address was popped, with its sp restored,
\* however many frames an abort skipped, whatever was interrupted and whichever
\* routine was interpreted (emit_call_target, take_irq, hybrid_interpret).
ResumesWhereZ80Does ==
  [][Resume => Last(frames).id = zpc /\ Sp = Last(frames).sp]_vars
=============================================================================
