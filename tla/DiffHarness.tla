----------------------------- MODULE DiffHarness -----------------------------
(***************************************************************************)
(* The differential harness: when the running program enters a routine       *)
(* under test, the routine is run twice from the same state, compiled and    *)
(* interpreted, the results are compared, and the program goes on as if      *)
(* nothing had happened.  A run of a routine is abandoned by a longjmp when  *)
(* it executes too many instructions.                                        *)
(*                                                                           *)
(* A routine is a short list of instructions; its compiled form may be wrong *)
(* in one of them.                                                           *)
(***************************************************************************)
EXTENDS Integers, Sequences, FiniteSetsExt, SequencesExt

CONSTANTS
  Ops,        \* the instructions of routines, other than the last one's RET
  MaxOps,     \* bound: instructions of a routine before its RET
  MaxTests,   \* g_diff_max, tests to make (400)
  MaxFrames,  \* bound: calls of the routine in a behaviour
  Window,     \* frames in which to test (SMS_DIFF_LO .. SMS_DIFF_HI)
  TraceMax    \* DTRACE_MAX, instructions a trace holds (300,000)

ASSUME DiffAssumption ==
  /\ Ops \subseteq {"inc", "store", "load", "page", "banked", "vdp", "status",
                    "psg", "rep", "retz", "push", "pop", "call", "spin"}
  /\ {MaxOps, MaxTests, MaxFrames, TraceMax} \subseteq Nat
  /\ Window \subseteq Nat

VARIABLES
  prog,   \* the routine
  bug,    \* where its compiled form is wrong, and in what
  m,      \* the machine: g_z80, g_ram, g_bank, g_vdp, the deadline, the PSG
  phase,  \* "program", or the test's run: "native", "super"
  pc,     \* the instruction of the run
  snap,   \* S and R, the snapshots
  diff,   \* g_in_diff, g_diff_freeze, g_diff_max, g_diff_trace, SMS_DIFF_TRACE
  log,    \* g_rtrace and g_strace
  result, \* what the last test reported
  frame,  \* g_frame
  before  \* history: the machine when the test began

vars == <<prog, bug, m, phase, pc, snap, diff, log, result, frame, before>>

-----------------------------------------------------------------------------
(* Routines.                                                                *)

\* The stack level after the first i instructions.
Level(p, i) == Cardinality({k \in 1 .. i : p[k] = "pop"})
             - Cardinality({k \in 1 .. i : p[k] = "push"})

\* A routine returns to an address its callers pushed, and calls nothing
\* while its own return address is off the stack.
Routine(p) ==
  /\ Level(p, Len(p)) >= 0
  /\ \A i \in 1 .. Len(p) :
       /\ p[i] = "retz" => Level(p, i) >= 0
       /\ p[i] = "call" => Level(p, i) <= 0

Routines == {p \in SeqOf(Ops, MaxOps) : Routine(p)}

\* The instruction at i; the callee of a call is an instruction of its own, 0.
Op(p, i) == IF i \in DOMAIN p THEN p[i] ELSE "ret"

Good(op, s) ==
  CASE op = "inc"    -> [s EXCEPT !.a = (@ + 1) % 4]
    [] op = "store"  -> [s EXCEPT !.ram = s.a]
    [] op = "load"   -> [s EXCEPT !.a = s.ram]
    [] op = "page"   -> [s EXCEPT !.bank = s.a % 2]
    [] op = "banked" -> [s EXCEPT !.a = s.bank]
    [] op = "vdp"    -> [s EXCEPT !.reg = s.a % 2]
    [] op = "status" -> [s EXCEPT !.a = IF s.int THEN 1 ELSE 0, !.int = FALSE]
    [] op = "psg"    -> [s EXCEPT !.psg = s.a % 2]
    [] op = "rep"    -> [s EXCEPT !.a = 0, !.ram = 0]
    [] op = "push"   -> [s EXCEPT !.sp = @ - 1]
    [] op = "pop"    -> [s EXCEPT !.sp = @ + 1]
    [] op = "retz"   -> [s EXCEPT !.sp = @ + (IF s.a = 0 THEN 1 ELSE 0)]
    [] op = "ret"    -> [s EXCEPT !.sp = @ + 1]
    [] OTHER         -> s          \* a call and its callee's return; a loop

\* One instruction's effect in compiled code with bug b, and in the interpreter.
Effect(engine, p, b, i, s) ==
  LET t == [Good(Op(p, i), s) EXCEPT !.cyc = @ + 1]
  IN  IF engine # "native" \/ b.at # i THEN t
      ELSE CASE b.in = "reg" -> [t EXCEPT !.a = (@ + 1) % 4]
             [] b.in = "ram" -> [t EXCEPT !.ram = (@ + 1) % 4]
             [] b.in = "cyc" -> [t EXCEPT !.cyc = @ + 1]

\* The instruction of the run, executed from s.
Does(engine, s) == Effect(engine, prog, bug, pc, s)

\* Whether the instruction at i returns from the routine, run from s.
Returns(p, i, s) == Op(p, i) = "ret" \/ (Op(p, i) = "retz" /\ s.a = 0)

-----------------------------------------------------------------------------

Machines ==
  [a : {3}, ram : {2}, bank : {0}, reg : {0}, int : {FALSE}, iff : BOOLEAN,
   psg : {0}, sp : {0}, cyc : {0}, deadline : {"line"}]

NoResult == [verdict |-> "none", named |-> 0]

Init ==
  /\ prog \in Routines
  /\ bug \in [at : {0}, in : {"none"}]
         \cup [at : 1 .. Len(prog) + 1, in : {"reg", "ram", "cyc"}]
  /\ m \in Machines
  /\ phase = "program" /\ pc = 0
  /\ snap = [S |-> m, R |-> m]
  /\ diff \in [in : {FALSE}, freeze : {FALSE}, max : {MaxTests},
               trace : {FALSE}, env : BOOLEAN]
  /\ log = [native |-> <<>>, super |-> <<>>]
  /\ result = NoResult
  /\ frame = 0
  /\ before = m

\* diff_restore: everything but the PSG chip's own state.
Restore(s) == [s EXCEPT !.psg = m.psg]

\* No sync happens in a run: its deadline is never reached.
Away(s) == [s EXCEPT !.deadline = "never"]

\* Mistake: a routine under test that calls itself is tested again.
EligibleNested == frame \in Window /\ diff.max > 0

\* sms_diff_enter's conditions.
Eligible == ~diff.in /\ frame \in Window /\ diff.max > 0

\* sms_diff_enter: the test begins with the compiled run.
Enter ==
  /\ phase = "program" /\ Eligible
  /\ diff' = [diff EXCEPT !.max = @ - 1, !.in = TRUE, !.freeze = TRUE,
                          !.trace = diff.env]
  /\ snap' = [snap EXCEPT !.S = m]
  /\ m' = Away(m)
  /\ phase' = "native" /\ pc' = 1
  /\ log' = [native |-> <<>>, super |-> <<>>]
  /\ before' = m
  /\ result' = NoResult
  /\ UNCHANGED <<prog, bug, frame>>

\* The program runs on, to its next call of the routine.
Program ==
  /\ phase = "program" /\ frame < MaxFrames
  /\ frame' = frame + 1
  /\ \E i \in BOOLEAN : m' = [m EXCEPT !.int = i]
  /\ before' = m'
  /\ UNCHANGED <<prog, bug, phase, pc, snap, diff, log, result>>

Stop == phase = "program" /\ frame = MaxFrames /\ UNCHANGED vars

-----------------------------------------------------------------------------
(* The runs.                                                                *)

\* sms_diff_logpc; an engine that repeats a block instruction logs it again.
Entry == [pc |-> pc, a |-> m.a, sp |-> m.sp, cyc |-> m.cyc]

Put(l, e) == IF Len(l) < TraceMax THEN Append(l, e) ELSE l

Logged(run) ==
  LET once == Put(log[run], Entry)
      all  == IF Op(prog, pc) = "rep" /\ run = "super"
                THEN Put(once, [Entry EXCEPT !.a = 0]) ELSE once
  IN  IF diff.trace THEN [log EXCEPT ![run] = all] ELSE log

\* sms_tick in a compiled run: at its deadline it syncs, and the handler of a
\* pending interrupt runs, which changes RAM.
Tick(s) == IF s.deadline = "line" /\ s.int /\ s.iff
             THEN [s EXCEPT !.int = FALSE, !.ram = (@ + 1) % 4] ELSE s

\* A routine under test the run calls: sms_diff_enter has its conditions.
Inner == IF Op(prog, pc) = "call" /\ Eligible
           THEN /\ snap' = [snap EXCEPT !.S = m]
                /\ diff' = [diff EXCEPT !.max = @ - 1]
           ELSE UNCHANGED <<snap, diff>>

\* One instruction of the compiled run.
Native ==
  /\ phase = "native" /\ Op(prog, pc) # "spin" /\ ~Returns(prog, pc, m)
  /\ Inner
  /\ m' = Does("native", Tick(m))
  /\ log' = Logged("native")
  /\ pc' = pc + 1
  /\ UNCHANGED <<prog, bug, phase, result, frame, before>>

\* The compiled routine returns; the interpreter starts from the same state.
NativeReturns ==
  /\ phase = "native" /\ Returns(prog, pc, m)
  /\ snap' = [snap EXCEPT !.R = Does("native", Tick(m))]
  /\ m' = Away(Restore(snap.S))
  /\ log' = Logged("native")
  /\ phase' = "super" /\ pc' = 1
  /\ UNCHANGED <<prog, bug, diff, result, frame, before>>

\* The test is over, and its trace.
Release == [diff EXCEPT !.in = FALSE, !.freeze = FALSE, !.trace = FALSE]

\* sms_diff_abort: the run executes too many instructions.
Abort ==
  /\ phase = "native" /\ Op(prog, pc) = "spin"
  /\ m' = Restore(snap.S)
  /\ diff' = Release
  /\ phase' = "program"
  /\ result' = [NoResult EXCEPT !.verdict = "skipped"]
  /\ UNCHANGED <<prog, bug, pc, snap, log, frame, before>>

\* Mistake: any return above the entry's stack level ends the run, taken or not.
SuperEndsUntaken(t) == Op(prog, pc) \in {"ret", "retz", "call"} /\ t.sp > snap.S.sp

\* diff_run_super: it ends where a RET is taken and sp is above the entry's.
SuperEnds(t) ==
  /\ Op(prog, pc) \in {"ret", "retz", "call"}
  /\ t.sp > m.sp \/ Op(prog, pc) = "call"
  /\ t.sp > snap.S.sp

Super ==
  /\ phase = "super"
  /\ LET t == Does("super", m)
     IN  ~SuperEnds(t) /\ m' = t
  /\ log' = Logged("super")
  /\ pc' = pc + 1
  /\ UNCHANGED <<prog, bug, phase, snap, diff, result, frame, before>>

\* diff_compare: registers, RAM and time.
Differs(r, i) == r.a # i.a \/ r.sp # i.sp \/ r.ram # i.ram \/ r.cyc # i.cyc

\* Mistake: the two traces are compared entry by entry.
HeadsAll(l) == DOMAIN l

\* Where a trace's logical instructions begin: runs of entries of one pc are one.
Heads(l) == {i \in DOMAIN l : i = 1 \/ l[i].pc # l[i - 1].pc}

\* How many of them have begun.
Step(l, i) == Cardinality({h \in Heads(l) : h <= i})

\* The instruction before the first logical one whose entries differ, or 0.
FirstDivergent(rl, sl) ==
  LET apart == {i \in Heads(rl) :
                  \E j \in Heads(sl) : Step(rl, i) = Step(sl, j) /\ rl[i] # sl[j]}
  IN  IF apart = {} \/ Min(apart) = 1 THEN 0 ELSE rl[Min(apart) - 1].pc

\* The interpreted routine returns: the state is restored and the two runs
\* compared; a traced divergence is the last test.
SuperReturns ==
  /\ phase = "super"
  /\ \E t \in {Does("super", m)} :
       /\ SuperEnds(t)
       /\ m' = Restore(snap.S)
       /\ log' = Logged("super")
       /\ LET d == Differs(snap.R, t)
          IN  /\ diff' = IF d /\ diff.trace THEN [Release EXCEPT !.max = 0]
                                            ELSE Release
              /\ result' =
                   [verdict |-> IF d THEN "diverges" ELSE "ok",
                    named   |-> IF d /\ diff.trace
                                  THEN FirstDivergent(log'.native, log'.super)
                                  ELSE 0]
  /\ phase' = "program"
  /\ UNCHANGED <<prog, bug, pc, snap, frame, before>>

Next == \/ Enter \/ Program \/ Stop \/ Native \/ NativeReturns \/ Abort
        \/ Super \/ SuperReturns

Spec == Init /\ [][Next]_vars

-----------------------------------------------------------------------------
(* Properties.                                                              *)

\* The states of a run of p by the engine alone, from s, after n instructions.
Path(engine, p, b, s) ==
  LET at[n \in 0 .. Len(p)] ==
        IF n = 0 THEN s ELSE Effect(engine, p, b, n, at[n - 1])
  IN  at

\* Where it ends.
Final(engine, p, b, s) ==
  LET at   == Path(engine, p, b, s)
      last == Min({i \in 1 .. Len(p) + 1 : Returns(p, i, at[i - 1])})
  IN  Effect(engine, p, b, last, at[last - 1])

\* The verdict is about the routine alone: "ok" exactly when its compiled and
\* interpreted forms, run from the state of the entry to their own return
\* without interrupts, leave the same registers, RAM and time.
VerdictRight ==
  phase = "program" /\ result.verdict \in {"ok", "diverges"} =>
    (result.verdict = "diverges")
      = Differs(Final("native", prog, bug, snap.S), Final("super", prog, bug, snap.S))

\* A test leaves no trace in the program: whether it was completed or
\* abandoned, the program goes on from the state it had, thawed.  The PSG's
\* registers alone are not restored.
Unperturbed ==
  phase = "program" =>
    m = [before EXCEPT !.psg = m.psg] /\ ~diff.freeze /\ ~diff.in

\* The instruction a traced divergence names is the mistranslated one; only an
\* error in memory may show at a later instruction.
Pinpoints ==
  result.named # 0 => IF bug.in = "ram" THEN result.named >= bug.at
                                        ELSE result.named = bug.at
=============================================================================
