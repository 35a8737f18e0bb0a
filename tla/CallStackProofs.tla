-------------------------- MODULE CallStackProofs --------------------------
(***************************************************************************)
(* The two stacks agree, for stacks and programs of any size: compiled code *)
(* goes on exactly where the Z80's RET went, unless the program combines    *)
(* what the two accounts of its stack cannot follow (Tame).                 *)
(***************************************************************************)
EXTENDS CallStack, DataLemmas, FiniteSetTheorems

\* The effect of an interpreted instruction on the stack is one of five.
LEMMA InterpretedStack ==
  ASSUME TypeOK, NEW op \in InterpOps, NEW took \in BOOLEAN, Interpret(op, took),
         NEW accept, accept = ((took \/ hyb.pend) /\ op # "mask")
  PROVE  /\ z' = IF accept THEN Append(After(op), Pc(op)) ELSE After(op)
         /\ \/ After(op) \in {z, Append(z, Data), Append(z, Inner)}
            \/ z # << >> /\ After(op) = Front(z)
         /\ After(op) \in Seq(Values)
         /\ Pc(op) \in Values
<1> USE DEF Interpret, Executes, After, Pc, InterpOps
<1>t. /\ z \in Seq(Values) /\ Data \in Values /\ Inner \in Values
      /\ \A v \in Values : Append(z, v) \in Seq(Values)
  BY AppendFacts DEF TypeOK, Values
<1>1. z' = IF accept THEN Append(After(op), Pc(op)) ELSE After(op)
  OBVIOUS
<1>2. CASE op \in {"pop", "drop", "ret"}
  <2>1. z # << >> /\ After(op) = Front(z)
    BY <1>2
  <2>2. Front(z) \in Seq(Values) /\ Top \in Values
    BY <1>t, <2>1, FrontFacts DEF Top
  <2>3. Pc(op) \in Values
    BY <1>t, <2>2
  <2>4. QED BY <1>1, <2>1, <2>2, <2>3
<1>3. CASE op \in {"push", "call", "cont"}
  <2>1. After(op) \in {Append(z, Data), Append(z, Inner)} /\ Pc(op) = Inner
    BY <1>3
  <2>2. After(op) \in Seq(Values)
    BY <1>t, <2>1
  <2>3. QED BY <1>1, <1>t, <2>1, <2>2
<1>4. CASE op \in {"nop", "mask", "skip"}
  <2>1. After(op) = z /\ Pc(op) = Inner
    BY <1>4
  <2>2. QED BY <1>1, <1>t, <2>1
<1>5. QED BY <1>2, <1>3, <1>4

\* An interpreted step keeps the stack, the count and the frames in range.
LEMMA InterpretType ==
  ASSUME TypeOK, NEW op \in InterpOps, NEW took \in BOOLEAN, Interpret(op, took)
  PROVE  TypeOK'
<1> DEFINE accept == (took \/ hyb.pend) /\ op # "mask"
<1>1. /\ z' = IF accept THEN Append(After(op), Pc(op)) ELSE After(op)
      /\ After(op) \in Seq(Values) /\ Pc(op) \in Values
  BY InterpretedStack
<1>2. z' \in Seq(Values)
  BY <1>1, AppendFacts
<1>3. Sp' <= MaxSp /\ UNCHANGED <<frames, calls>>
  BY <1>1 DEF Interpret, Sp
<1>4. accept \in BOOLEAN
  BY DEF TypeOK, Hybrid
<1>5. Counted(op, took, z') \in Nat
  <2>1. hyb.depth \in Nat
    BY DEF TypeOK, Hybrid
  <2>2. QED BY <2>1 DEF Counted
<1>6. hyb' \in Hybrid /\ mode' \in {"unwind", "interp"} /\ zpc' \in Values
  <2>1. CASE Leaves(op, took, z')
    <3>1. mode' = "unwind" /\ hyb' = Idle /\ zpc' = Top /\ op = "ret"
      BY <2>1, <1>1 DEF Interpret, Leaves, Class, InterpOps
    <3>2. Top \in Values
      BY <1>1, <3>1 DEF Pc
    <3>3. Idle \in Hybrid
      BY CallAssumption DEF Idle, Hybrid
    <3>4. QED BY <3>1, <3>2, <3>3
  <2>2. CASE ~Leaves(op, took, z')
    <3>1. /\ hyb' = [hyb EXCEPT !.depth = Counted(op, took, z'),
                               !.pend  = (took \/ @) /\ ~accept]
          /\ mode' = "interp" /\ zpc' = zpc
      BY <2>2, <1>1 DEF Interpret
    <3>2. ((took \/ hyb.pend) /\ ~accept) \in BOOLEAN
      OBVIOUS
    <3>3. hyb' \in Hybrid
      BY <3>1, <3>2, <1>5 DEF TypeOK, Hybrid
    <3>4. QED BY <3>1, <3>3 DEF TypeOK
  <2>3. QED BY <2>1, <2>2
<1>7. QED BY <1>2, <1>3, <1>6 DEF TypeOK, Sp

\* A new frame has the type of one.
LEMMA PushFrameType ==
  ASSUME TypeOK, NEW kind \in {"call", "tail", "irq"}, NEW id \in 0 .. MaxCalls,
         PushFrame(kind, id)
  PROVE  /\ frames' \in Seq(Frame) /\ Len(frames') <= MaxFrames
         /\ Len(frames') = Len(frames) + 1 /\ Len(frames) \in Nat
         /\ \A i \in 1 .. Len(frames) : frames'[i] = frames[i]
         /\ frames'[Len(frames) + 1] = [kind |-> kind, sp |-> Sp, id |-> id]
<1> DEFINE f == [kind |-> kind, sp |-> Sp, id |-> id]
<1>1. Sp \in 0 .. MaxSp
  BY CallAssumption DEF TypeOK, Sp
<1>2. f \in Frame
  BY <1>1 DEF Frame
<1>3. frames' = Append(frames, f) /\ Len(frames) < MaxFrames
  BY DEF PushFrame
<1> HIDE DEF f
<1>4. frames \in Seq(Frame)
  BY DEF TypeOK
<1>5. QED BY <1>2, <1>3, <1>4, AppendFacts, CallAssumption DEF f

\* Entering the interpreter sets up its bookkeeping.
LEMMA EnterType ==
  ASSUME hyb \in Hybrid, NEW sp \in 0 .. MaxSp, Enter(sp)
  PROVE  mode' \in {"run", "interp"} /\ hyb' \in Hybrid
<1>1. [entry |-> sp, depth |-> 0, pend |-> FALSE] \in Hybrid
  BY DEF Hybrid
<1>2. QED BY <1>1 DEF Enter

\* Every step keeps every variable in its type.
LEMMA TypeStep ==
  ASSUME TypeOK, [Next]_vars
  PROVE  TypeOK'
<1>t. /\ z \in Seq(Values) /\ Sp \in Nat /\ Sp <= MaxSp /\ calls \in 0 .. MaxCalls
      /\ MaxCalls \in Nat /\ MaxSp \in Nat
      /\ Data \in Values /\ \A v \in 1 .. MaxCalls : v \in Values
  BY CallAssumption DEF TypeOK, Values, Sp
<1>1. ASSUME NEW kind \in {"call", "irq"}, CallAs(kind) PROVE TypeOK'
  <2>1. calls' = calls + 1 /\ calls' \in 1 .. MaxCalls /\ z' = Append(z, calls')
        /\ Sp < MaxSp /\ PushFrame(kind, calls') /\ zpc' = zpc
    BY <1>1, <1>t DEF CallAs
  <2>2. z' \in Seq(Values) /\ Sp' <= MaxSp
    BY <2>1, <1>t, AppendFacts DEF Sp
  <2>3. frames' \in Seq(Frame) /\ Len(frames') <= MaxFrames
    <3>1. calls' \in 0 .. MaxCalls /\ kind \in {"call", "tail", "irq"}
      BY <2>1, <1>t
    <3>2. QED BY <2>1, <3>1, PushFrameType
  <2>4. mode' \in {"run", "interp"} /\ hyb' \in Hybrid
    <3>1. Enter(Sp + 1) /\ hyb \in Hybrid
      BY <1>1 DEF CallAs, TypeOK
    <3>2. Sp + 1 \in 0 .. MaxSp
      BY <2>1, <1>t
    <3>3. QED BY <3>1, <3>2, EnterType
  <2>5. QED BY <2>1, <2>2, <2>3, <2>4, <1>t DEF TypeOK
<1>2. CASE TailJump
  <2>1. frames' \in Seq(Frame) /\ Len(frames') <= MaxFrames
    <3>1. PushFrame("tail", 0) /\ 0 \in 0 .. MaxCalls
      BY <1>2, <1>t DEF TailJump
    <3>2. QED BY <3>1, PushFrameType
  <2>2. mode' \in {"run", "interp"} /\ hyb' \in Hybrid
    <3>1. Enter(Sp) /\ hyb \in Hybrid /\ Sp \in 0 .. MaxSp
      BY <1>2, <1>t DEF TailJump, TypeOK
    <3>2. QED BY <3>1, EnterType
  <2>3. UNCHANGED <<z, zpc, calls>>
    BY <1>2 DEF TailJump
  <2>4. QED BY <2>1, <2>2, <2>3 DEF TypeOK, Sp
<1>3. CASE PushData
  <2>1. z' \in Seq(Values) /\ Sp' <= MaxSp
    BY <1>3, <1>t, AppendFacts DEF PushData, Sp
  <2>2. QED BY <1>3, <2>1 DEF PushData, TypeOK
<1>4. CASE Pop \/ Ret
  <2>1. z # << >> /\ z' = Front(z)
    BY <1>4 DEF Pop, Ret
  <2>2. z' \in Seq(Values) /\ Sp' <= MaxSp /\ Top \in Values
    BY <2>1, <1>t, FrontFacts DEF Sp, Top
  <2>3. UNCHANGED <<frames, calls, hyb>> /\ mode' \in {"run", "unwind"}
        /\ zpc' \in Values
    BY <1>4, <2>2 DEF Pop, Ret, TypeOK
  <2>4. QED BY <2>2, <2>3 DEF TypeOK
<1>5. CASE Propagate \/ Resume
  <2>1. frames # << >> /\ frames' = Front(frames)
    BY <1>5 DEF Propagate, Resume, Unwinding
  <2>2. frames' \in Seq(Frame) /\ Len(frames') <= MaxFrames
    BY <2>1, FrontFacts, CallAssumption DEF TypeOK
  <2>3. UNCHANGED <<z, calls, hyb>> /\ mode' \in {"run", "unwind"} /\ zpc' \in Values
    BY <1>5, <1>t DEF Propagate, Resume, Unwinding, TypeOK
  <2>4. QED BY <2>2, <2>3 DEF TypeOK, Sp
<1>6. CASE UNCHANGED vars
  BY <1>6 DEF vars, TypeOK, Sp
<1>7. QED
  BY <1>1, <1>2, <1>3, <1>4, <1>5, <1>6, InterpretType
     DEF Next, Call, TakeIrq

\* Every variable keeps its type, for every bound and every idiom.
THEOREM TypeCorrect == Spec => []TypeOK
<1>1. Init => TypeOK
  BY CallAssumption DEF Init, TypeOK, Idle, Hybrid, Values, Sp
<1>2. TypeOK /\ [Next]_vars => TypeOK'
  BY TypeStep
<1>3. QED BY <1>1, <1>2, PTL DEF Spec
-----------------------------------------------------------------------------
\* An interpreted routine may pop what it did not push, or drop what it called.
Strays == "below" \in Idioms \/ "inner" \in Idioms

\* The programs on which the stacks agree: an interrupt's return address stays
\* until its handler returns, and an interpreted routine that strays makes no
\* computed calls and takes no interrupt, nor does one that drops its own
\* return addresses run under an interrupt of compiled code.
Tame == /\ ~({"abort", "preempt", "irqabort"} \subseteq Idioms)
        /\ Strays => "cont" \notin Idioms /\ "irq" \notin Idioms
        /\ "inner" \in Idioms => "preempt" \notin Idioms

Waits(i)  == frames[i].kind # "tail"
Inners(s) == {p \in 1 .. Len(s) : s[p] = Inner}

\* Serial numbers grow, on the stack and in the frames.
Serials ==
  /\ \A p \in 1 .. Len(z) : z[p] <= calls
  /\ \A i \in 1 .. Len(frames) : frames[i].id <= calls /\ (Waits(i) => frames[i].id >= 1)
  /\ \A p, q \in 1 .. Len(z) :
       p < q /\ z[p] >= 1 /\ z[q] >= 1 => z[p] < z[q]
  /\ \A i, j \in 1 .. Len(frames) :
       i < j /\ Waits(i) /\ Waits(j) => frames[i].id < frames[j].id

\* Every return address on the stack has its frame, at the sp that frame
\* expects, and lies below everything a later frame put there.
Placed ==
  /\ \A p \in 1 .. Len(z) :
       z[p] >= 1 => \E i \in 1 .. Len(frames) : Waits(i) /\ frames[i].id = z[p]
  /\ \A p \in 1 .. Len(z), i \in 1 .. Len(frames) :
       z[p] >= 1 /\ Waits(i) =>
         /\ (z[p] = frames[i].id => p = frames[i].sp + 1)
         /\ (z[p] < frames[i].id => p <= frames[i].sp)

\* An interrupt's return address stays until its handler's RET.
IrqKept ==
  \A i \in 1 .. Len(frames) :
    frames[i].kind = "irq" =>
      /\ "preempt" \in Idioms
      /\ \/ \E p \in 1 .. Len(z) : z[p] = frames[i].id
         \/ mode = "unwind" /\ zpc = frames[i].id

\* During a C return one frame waits for it, and every later one expects a
\* deeper stack.
Unwound ==
  mode = "unwind" =>
    /\ zpc >= 1
    /\ \E i \in 1 .. Len(frames) :
         Waits(i) /\ frames[i].id = zpc /\ frames[i].sp = Len(z)
    /\ \A j \in 1 .. Len(frames) :
         Waits(j) /\ frames[j].id > zpc => Len(z) < frames[j].sp

\* What the interpreter put on stack s lies above its entry e, what compiled
\* code put there below it, and d counts no more return addresses than there are.
Inside(s, e, d) == /\ e <= Len(s)
                   /\ \A p \in Inners(s) : p > e
                   /\ \A p \in 1 .. Len(s) : s[p] >= 1 => p <= e
                   /\ d <= Cardinality(Inners(s))

\* Where a routine may stray, the interpreter's words still lie above those of
\* compiled code, and d counts no fewer return addresses than there are: just
\* those that are there, unless some are dropped.
Astray(s, e, d) == /\ \A p \in 1 .. Len(s) :
                        s[p] >= 1 => p <= e /\ \A q \in Inners(s) : p < q
                   /\ Cardinality(Inners(s)) <= d
                   /\ "inner" \notin Idioms => d = Cardinality(Inners(s))

Interpreted ==
  /\ mode = "interp" => IF Strays THEN Astray(z, hyb.entry, hyb.depth)
                        ELSE Inside(z, hyb.entry, hyb.depth)
  /\ mode # "interp" => Inners(z) = {}
  /\ Strays => ~hyb.pend

CallInv == Serials /\ Placed /\ IrqKept /\ Unwound /\ Interpreted

\* The frame a C return resumes is the one the Z80 returned to.
LEMMA ResumesRight ==
  ASSUME TypeOK, CallInv, Resume
  PROVE  Last(frames).id = zpc /\ Sp = Last(frames).sp
<1> DEFINE m == Len(frames)
<1>1. mode = "unwind" /\ frames # << >> /\ Last(frames).kind \in {"call", "irq"}
  BY DEF Resume, Unwinding
<1>2. /\ m \in Nat /\ m > 0 /\ Last(frames) = frames[m] /\ m \in 1 .. m
      /\ frames[m].sp \in Nat /\ frames[m].id \in Nat /\ Len(z) \in Nat
      /\ \A i \in 1 .. m : frames[i].id \in Nat /\ frames[i].sp \in Nat
  <2>0. z \in Seq(Values) /\ frames \in Seq(Frame)
    BY DEF TypeOK
  <2>1. m \in Nat /\ m > 0 /\ Last(frames) = frames[m] /\ Len(z) \in Nat
    <3>1. m \in Nat /\ m > 0 /\ Last(frames) = frames[m]
      BY <1>1, <2>0, FrontFacts
    <3>2. QED BY <2>0, <3>1
  <2>2. \A i \in 1 .. m : frames[i] \in Frame
    BY <2>1 DEF TypeOK
  <2>3. \A i \in 1 .. m : frames[i].id \in Nat /\ frames[i].sp \in Nat
    BY <2>2, CallAssumption DEF Frame
  <2>4. QED BY <2>1, <2>3
<1>3. PICK i \in 1 .. m : Waits(i) /\ frames[i].id = zpc /\ frames[i].sp = Len(z)
  BY <1>1 DEF CallInv, Unwound
<1>4. Waits(m)
  BY <1>1, <1>2 DEF Waits
<1>5. CASE i = m
  BY <1>2, <1>3, <1>5 DEF Sp
<1>6. CASE i # m
  <2>1. frames[m].id > zpc
    BY <1>2, <1>3, <1>4, <1>6 DEF CallInv, Serials
  <2>2. Len(z) < frames[m].sp
    BY <1>1, <1>2, <1>4, <2>1 DEF CallInv, Unwound
  <2>3. frames[m].kind = "irq"
    BY <1>1, <1>2, <2>2 DEF Resume, Unwinding, GoesPast, Sp
  <2>4. PICK p \in 1 .. Len(z) : z[p] = frames[m].id
    BY <1>2, <2>1, <2>3 DEF CallInv, IrqKept
  <2>5. zpc >= 1
    BY <1>1 DEF CallInv, Unwound
  <2>6. z[p] >= 1
    BY <1>2, <1>3, <2>1, <2>4, <2>5
  <2>7. p = frames[m].sp + 1
    BY <1>2, <1>4, <2>4, <2>6 DEF CallInv, Placed
  <2>8. FALSE
    BY <1>2, <2>2, <2>7
  <2>9. QED BY <2>8
<1>7. QED BY <1>5, <1>6
-----------------------------------------------------------------------------
\* The same return addresses of compiled code at the same places.
NativeAt(s, p)    == p \in 1 .. Len(s) /\ s[p] >= 1
SameNatives(s, t) == \A p \in Nat : /\ NativeAt(s, p) <=> NativeAt(t, p)
                                    /\ NativeAt(s, p) => s[p] = t[p]

\* The interpreter's return addresses are finitely many.
LEMMA InnersFinite ==
  ASSUME NEW S, NEW s \in Seq(S)
  PROVE  /\ IsFiniteSet(Inners(s)) /\ Cardinality(Inners(s)) \in Nat
         /\ Inners(s) \subseteq 1 .. Len(s)
<1>1. Len(s) \in Nat
  OBVIOUS
<1>2. IsFiniteSet(1 .. Len(s))
  BY <1>1, FS_Interval
<1>3. Inners(s) \in SUBSET (1 .. Len(s))
  BY DEF Inners
<1>4. QED BY <1>2, <1>3, FS_Subset, FS_CardinalityType

\* Interpreted code pushes.
LEMMA Pushes ==
  ASSUME NEW s \in Seq(Values), NEW v \in {Data, Inner}, NEW e \in Nat, NEW d \in Nat,
         Inside(s, e, d)
  PROVE  /\ Append(s, v) \in Seq(Values)
         /\ Len(Append(s, v)) = Len(s) + 1 /\ Len(s) \in Nat
         /\ Inside(Append(s, v), e, IF v = Inner THEN d + 1 ELSE d)
         /\ SameNatives(s, Append(s, v))
<1> DEFINE t == Append(s, v)
           n == Len(s)
<1>1. v \in Values /\ v \in Int /\ ~(v >= 1)
  BY DEF Data, Inner, Values
<1>2. /\ t \in Seq(Values) /\ Len(t) = n + 1 /\ n \in Nat
      /\ \A p \in 1 .. n : t[p] = s[p]
      /\ t[n + 1] = v
  BY <1>1, AppendFacts
<1> HIDE DEF t
<1>3. e <= n
  BY DEF Inside
<1>4. Inners(t) = IF v = Inner THEN Inners(s) \union {n + 1} ELSE Inners(s)
  BY <1>2 DEF Inners
<1>5. n + 1 \notin Inners(s)
  BY <1>2 DEF Inners
<1>6. /\ IsFiniteSet(Inners(s)) /\ Cardinality(Inners(s)) \in Nat
      /\ d <= Cardinality(Inners(s))
  BY InnersFinite DEF Inside
<1>7. Cardinality(Inners(t)) =
        IF v = Inner THEN Cardinality(Inners(s)) + 1 ELSE Cardinality(Inners(s))
  BY <1>4, <1>5, <1>6, FS_AddElement
<1>8. (IF v = Inner THEN d + 1 ELSE d) <= Cardinality(Inners(t))
  BY <1>6, <1>7
<1>9. \A p \in Inners(t) : p > e
  BY <1>2, <1>3, <1>4 DEF Inside
<1>10. \A p \in 1 .. Len(t) : t[p] >= 1 => p <= e
  BY <1>1, <1>2 DEF Inside
<1>11. Inside(t, e, IF v = Inner THEN d + 1 ELSE d)
  BY <1>2, <1>3, <1>8, <1>9, <1>10 DEF Inside
<1>12. SameNatives(s, t)
  BY <1>1, <1>2 DEF SameNatives, NativeAt
<1>13. QED BY <1>2, <1>11, <1>12 DEF t

\* Interpreted code pops what it pushed.
LEMMA Pops ==
  ASSUME NEW s \in Seq(Values), NEW e \in Nat, NEW d \in Nat,
         Inside(s, e, d), Len(s) > e
  PROVE  /\ s # << >> /\ Front(s) \in Seq(Values) /\ Len(Front(s)) = Len(s) - 1
         /\ Inside(Front(s), e,
                   IF s[Len(s)] = Inner THEN IF d > 0 THEN d - 1 ELSE 0 ELSE d)
         /\ SameNatives(s, Front(s))
         /\ ~(s[Len(s)] >= 1)
<1> DEFINE t == Front(s)
           n == Len(s)
           b == IF s[n] = Inner THEN IF d > 0 THEN d - 1 ELSE 0 ELSE d
<1>1. s # << >>
  OBVIOUS
<1>2. /\ n \in Nat /\ n > 0 /\ t \in Seq(Values) /\ Len(t) = n - 1
      /\ \A p \in 1 .. n - 1 : t[p] = s[p]
  BY <1>1, FrontFacts
<1> HIDE DEF t
<1>3. Inners(t) = IF s[n] = Inner THEN Inners(s) \ {n} ELSE Inners(s)
  BY <1>2 DEF Inners
<1>4. n \in Inners(s) <=> s[n] = Inner
  BY <1>2 DEF Inners
<1>5. /\ IsFiniteSet(Inners(s)) /\ Cardinality(Inners(s)) \in Nat
      /\ d <= Cardinality(Inners(s))
  BY InnersFinite DEF Inside
<1>6. Cardinality(Inners(t)) =
        IF s[n] = Inner THEN Cardinality(Inners(s)) - 1 ELSE Cardinality(Inners(s))
  BY <1>3, <1>4, <1>5, FS_RemoveElement
<1>7. s[n] = Inner => Cardinality(Inners(s)) > 0
  BY <1>4, <1>5, FS_EmptySet
<1>8. b <= Cardinality(Inners(t))
  BY <1>5, <1>6, <1>7
<1>9. e <= n - 1
  BY <1>2
<1>10. \A p \in Inners(t) : p > e
  BY <1>3 DEF Inside
<1>11. \A p \in 1 .. n : s[p] >= 1 => p <= e
  BY DEF Inside
<1>12. ~(s[n] >= 1)
  BY <1>2, <1>11
<1>13. \A p \in 1 .. Len(t) : t[p] >= 1 => p <= e
  BY <1>2, <1>11
<1>14. Inside(t, e, b)
  BY <1>2, <1>8, <1>9, <1>10, <1>13 DEF Inside
<1>15. SameNatives(s, t)
  BY <1>2, <1>12 DEF SameNatives, NativeAt
<1>16. QED BY <1>1, <1>2, <1>12, <1>14, <1>15 DEF t

\* Two changes that keep the return addresses keep them together.
LEMMA NativesTrans ==
  ASSUME NEW s, NEW t, NEW u, SameNatives(s, t), SameNatives(t, u)
  PROVE  SameNatives(s, u)
BY DEF SameNatives

\* A smaller count is as good.
LEMMA InsideLess ==
  ASSUME NEW s \in Seq(Values), NEW e, NEW d \in Nat, NEW c \in Nat, c <= d,
         Inside(s, e, d)
  PROVE  Inside(s, e, c)
<1>1. Cardinality(Inners(s)) \in Nat
  BY InnersFinite
<1>2. QED BY <1>1 DEF Inside

\* An interpreted step keeps to its part of the stack, or is the RET that leaves.
LEMMA Interprets ==
  ASSUME ~Strays, TypeOK, Inside(z, hyb.entry, hyb.depth),
         NEW op \in InterpOps, NEW took \in BOOLEAN, Interpret(op, took)
  PROVE  \/ /\ ~Leaves(op, took, z')
            /\ Inside(z', hyb.entry, Counted(op, took, z'))
            /\ SameNatives(z, z')
         \/ /\ Leaves(op, took, z')
            /\ z # << >> /\ Top >= 1 /\ z' = Front(z) /\ Inners(z') = {}
<1> DEFINE accept == (took \/ hyb.pend) /\ op # "mask"
           e == hyb.entry
           d == hyb.depth
           stay == /\ ~Leaves(op, took, z')
                   /\ Inside(z', e, Counted(op, took, z'))
                   /\ SameNatives(z, z')
<1>1. /\ z \in Seq(Values) /\ e \in Nat /\ d \in Nat /\ Len(z) \in Nat /\ e <= Len(z)
      /\ accept \in BOOLEAN
  BY DEF TypeOK, Hybrid, Inside
<1>2. /\ "below" \notin Idioms /\ "inner" \notin Idioms
  BY DEF Strays
<1>3. /\ z' = IF accept THEN Append(After(op), Pc(op)) ELSE After(op)
      /\ Executes(op)
      /\ op # "drop"
  BY <1>2 DEF Interpret, Executes
<1>4. took /\ op # "mask" => accept
  OBVIOUS
<1>5. SameNatives(z, z)
  BY DEF SameNatives
<1>6. ASSUME NEW s \in Seq(Values), NEW c \in Nat, Inside(s, e, c), SameNatives(z, s),
             After(op) = s, op # "ret"
      PROVE  IF accept
               THEN /\ Inside(z', e, c + 1) /\ SameNatives(z, z')
                    /\ Len(z') = Len(s) + 1
               ELSE z' = s
  <2>1. CASE accept
    <3>1. z' = Append(s, Inner)
      BY <1>3, <1>6, <2>1 DEF Pc
    <3>2. /\ Inside(Append(s, Inner), e, IF Inner = Inner THEN c + 1 ELSE c)
          /\ SameNatives(s, Append(s, Inner)) /\ Len(Append(s, Inner)) = Len(s) + 1
      BY <1>1, <1>6, Pushes
    <3>3. QED BY <1>6, <2>1, <3>1, <3>2, NativesTrans
  <2>2. QED BY <1>3, <1>6, <2>1
<1>7. ASSUME NEW c \in Nat, Inside(z', e, c), SameNatives(z, z'),
             ~Leaves(op, took, z'), Counted(op, took, z') <= c
      PROVE  stay
  <2>1. Counted(op, took, z') \in Nat
    BY <1>1 DEF Counted
  <2>2. z' \in Seq(Values)
    BY InterpretType DEF TypeOK
  <2>3. QED BY <1>7, <2>1, <2>2, InsideLess
<1>8. ASSUME Inside(z', e, d + 1), Len(z') = Len(z) + 1, SameNatives(z, z') PROVE stay
  <2>1. ~Leaves(op, took, z')
    BY <1>1, <1>8 DEF Leaves, Sp
  <2>2. Counted(op, took, z') <= d + 1
    BY <1>1, <1>8 DEF Counted, Sp
  <2>3. d + 1 \in Nat
    BY <1>1
  <2>4. QED BY <1>7, <1>8, <2>1, <2>2, <2>3
<1>9. CASE op \in {"nop", "mask", "skip"}
  <2>1. After(op) = z
    BY <1>9 DEF After
  <2>2. IF accept THEN Inside(z', e, d + 1) /\ SameNatives(z, z') /\ Len(z') = Len(z) + 1
        ELSE z' = z
    BY <1>1, <1>5, <1>6, <1>9, <2>1
  <2>3. CASE accept
    BY <1>8, <2>2, <2>3
  <2>4. CASE ~accept
    <3>1. z' = z
      BY <2>2, <2>4
    <3>2. ~Leaves(op, took, z') /\ Counted(op, took, z') <= d
      BY <1>1, <3>1 DEF Leaves, Counted, Sp
    <3>3. stay
      BY <1>1, <1>5, <1>7, <3>1, <3>2
    <3>4. QED BY <3>3
  <2>5. QED BY <1>1, <2>3, <2>4
<1>10. CASE op \in {"push", "call", "cont"}
  <2> DEFINE v == IF op = "push" THEN Data ELSE Inner
             c == IF v = Inner THEN d + 1 ELSE d
  <2>1. After(op) = Append(z, v) /\ v \in {Data, Inner} /\ c \in Nat
        /\ (v = Data <=> op = "push")
    BY <1>1, <1>10 DEF After, Data, Inner
  <2> HIDE DEF v
  <2>2. /\ Append(z, v) \in Seq(Values) /\ Len(Append(z, v)) = Len(z) + 1
        /\ Inside(Append(z, v), e, c) /\ SameNatives(z, Append(z, v))
    BY <1>1, <2>1, Pushes
  <2>3. IF accept THEN /\ Inside(z', e, c + 1) /\ SameNatives(z, z')
                       /\ Len(z') = Len(Append(z, v)) + 1
        ELSE z' = Append(z, v)
    BY <1>6, <1>10, <2>1, <2>2
  <2>4. CASE accept
    <3>1. Len(z') = Len(z) + 2
      BY <1>1, <2>2, <2>3, <2>4
    <3>2. ~Leaves(op, took, z') /\ Counted(op, took, z') = d
      BY <1>1, <3>1 DEF Leaves, Counted, Sp
    <3>3. c + 1 \in Nat /\ d <= c + 1
      BY <1>1, <2>1
    <3>4. stay
      BY <1>7, <2>3, <2>4, <3>2, <3>3
    <3>5. QED BY <3>4
  <2>5. CASE ~accept
    <3>1. z' = Append(z, v) /\ Len(z') = Len(z) + 1
      BY <2>2, <2>3, <2>5
    <3>2. CASE op = "push"
      <4>1. ~took
        BY <1>4, <2>5, <3>2
      <4>2. Class(op) = 0
        BY <3>2 DEF Class
      <4>3. ~Leaves(op, took, z') /\ Counted(op, took, z') = d
        BY <1>1, <3>1, <4>1, <4>2 DEF Leaves, Counted, Sp
      <4>4. Inside(z', e, d)
        BY <2>1, <2>2, <3>1, <3>2 DEF Data, Inner
      <4>5. stay
        BY <1>1, <1>7, <2>2, <3>1, <4>3, <4>4
      <4>6. QED BY <4>5
    <3>3. CASE op # "push"
      <4>1. Inside(z', e, d + 1)
        BY <2>1, <2>2, <3>1, <3>3
      <4>2. stay
        BY <1>8, <2>2, <3>1, <4>1
      <4>3. QED BY <4>2
    <3>4. QED BY <3>2, <3>3
  <2>6. QED BY <1>1, <2>4, <2>5
<1>11. CASE op = "pop"
  <2>1. Top = Data /\ Len(z) > e
    BY <1>1, <1>2, <1>3, <1>11 DEF Executes, Sp
  <2>2. After(op) = Front(z) /\ Class(op) = 0
    BY <1>11 DEF After, Class
  <2>3. z[Len(z)] # Inner
    BY <2>1 DEF Top, Data, Inner
  <2>4. /\ Front(z) \in Seq(Values) /\ Len(Front(z)) = Len(z) - 1
        /\ Inside(Front(z), e, d) /\ SameNatives(z, Front(z))
    BY <1>1, <2>1, <2>3, Pops
  <2>5. IF accept THEN /\ Inside(z', e, d + 1) /\ SameNatives(z, z')
                       /\ Len(z') = Len(Front(z)) + 1
        ELSE z' = Front(z)
    BY <1>1, <1>6, <1>11, <2>2, <2>4
  <2>6. ~Leaves(op, took, z')
    BY <2>2 DEF Leaves
  <2>7. CASE accept
    <3>1. Counted(op, took, z') = d
      BY <1>1, <2>4, <2>5, <2>7 DEF Counted, Sp
    <3>2. d + 1 \in Nat /\ d <= d + 1
      BY <1>1
    <3>3. stay
      BY <1>7, <2>5, <2>6, <2>7, <3>1, <3>2
    <3>4. QED BY <3>3
  <2>8. CASE ~accept
    <3>1. Counted(op, took, z') = d
      BY <1>1, <2>2, <2>4, <2>5, <2>8 DEF Counted, Sp
    <3>2. stay
      BY <1>1, <1>7, <2>4, <2>5, <2>6, <2>8, <3>1
    <3>3. QED BY <3>2
  <2>9. QED BY <1>1, <2>7, <2>8
<1>12. CASE op = "ret"
  <2>1. z # << >> /\ Top # Data /\ After(op) = Front(z) /\ Pc(op) = Top
        /\ Class(op) = -1
    BY <1>3, <1>12 DEF Executes, After, Pc, Class
  <2>2. /\ Front(z) \in Seq(Values) /\ Len(Front(z)) = Len(z) - 1 /\ Len(z) > 0
        /\ \A p \in 1 .. Len(z) - 1 : Front(z)[p] = z[p]
        /\ Top = z[Len(z)] /\ Top \in Values
    BY <1>1, <2>1, FrontFacts DEF Top
  <2>3. CASE accept
    <3>1. z' = Append(Front(z), Top)
      BY <1>3, <2>1, <2>3
    <3>2. /\ z' \in Seq(Values) /\ Len(z') = Len(z)
          /\ \A p \in 1 .. Len(z) - 1 : z'[p] = z[p]
          /\ z'[Len(z)] = z[Len(z)]
      <4>1. /\ z' \in Seq(Values) /\ Len(z') = Len(z) - 1 + 1
            /\ \A p \in 1 .. Len(z) - 1 : z'[p] = Front(z)[p]
            /\ z'[Len(z) - 1 + 1] = Top
        BY <2>2, <3>1, AppendFacts
      <4>2. Len(z) - 1 + 1 = Len(z)
        BY <1>1
      <4>3. QED BY <2>2, <4>1, <4>2
    <3>3. \A p \in 1 .. Len(z) : z'[p] = z[p]
      BY <1>1, <3>2
    <3>4. z' = z
      BY <1>1, <3>2, <3>3, SeqEqual
    <3>5. ~Leaves(op, took, z') /\ Counted(op, took, z') <= d
      BY <1>1, <3>4 DEF Leaves, Counted, Sp
    <3>6. stay
      BY <1>1, <1>5, <1>7, <3>4, <3>5
    <3>7. QED BY <3>6
  <2>4. CASE ~accept
    <3>1. z' = Front(z) /\ ~took
      BY <1>3, <1>4, <1>12, <2>1, <2>4
    <3>2. CASE Top = Inner
      <4>1. Len(z) > e
        <5>1. Len(z) \in 1 .. Len(z)
          BY <1>1, <2>2
        <5>2. Len(z) \in Inners(z)
          BY <2>2, <3>2, <5>1 DEF Inners
        <5>3. QED BY <5>2 DEF Inside
      <4>2. /\ Inside(z', e, IF d > 0 THEN d - 1 ELSE 0)
            /\ SameNatives(z, z')
        BY <1>1, <2>2, <3>1, <3>2, <4>1, Pops
      <4>3. ~Leaves(op, took, z')
        BY <1>1, <2>2, <3>1, <4>1 DEF Leaves, Sp
      <4>4. Counted(op, took, z') = IF d > 0 THEN d - 1 ELSE 0
        BY <1>1, <2>1, <2>2, <3>1 DEF Counted, Sp
      <4>5. (IF d > 0 THEN d - 1 ELSE 0) \in Nat
        BY <1>1
      <4>6. stay
        BY <1>7, <4>2, <4>3, <4>4, <4>5
      <4>7. QED BY <4>6
    <3>3. CASE Top # Inner
      <4>1. Top >= 1
        BY <2>1, <2>2, <3>3, CallAssumption DEF Values, Data, Inner
      <4>2. Len(z) = e
        BY <1>1, <2>2, <4>1 DEF Inside
      <4>3. Inners(z) = {}
        BY <1>1, <4>2 DEF Inside, Inners
      <4>4. d = 0
        BY <1>1, <4>3, FS_EmptySet DEF Inside
      <4>5. Leaves(op, took, z')
        BY <1>1, <2>1, <2>2, <3>1, <4>2, <4>4 DEF Leaves, Sp
      <4>6. Inners(z') = {}
        BY <1>1, <2>2, <3>1, <4>3 DEF Inners
      <4>7. QED BY <2>1, <3>1, <4>1, <4>5, <4>6
    <3>4. QED BY <3>2, <3>3
  <2>5. QED BY <1>1, <2>3, <2>4
<1>13. op \in {"nop", "mask", "skip"} \/ op \in {"push", "call", "cont"}
       \/ op = "pop" \/ op = "ret"
  BY <1>3 DEF InterpOps
<1>14. QED BY <1>9, <1>10, <1>11, <1>12, <1>13

-----------------------------------------------------------------------------
\* Where routines stray, a push leaves the interpreter's words on top.
LEMMA StrayPushes ==
  ASSUME NEW s \in Seq(Values), NEW v \in {Data, Inner}, NEW e \in Nat, NEW d \in Nat,
         Astray(s, e, d)
  PROVE  /\ Len(Append(s, v)) = Len(s) + 1 /\ Len(s) \in Nat
         /\ \A p \in 1 .. Len(s) : Append(s, v)[p] = s[p]
         /\ ~(Append(s, v)[Len(s) + 1] >= 1)
         /\ Astray(Append(s, v), e, IF v = Inner THEN d + 1 ELSE d)
<1> DEFINE t == Append(s, v)
           n == Len(s)
           c == IF v = Inner THEN d + 1 ELSE d
<1>1. v \in Values /\ ~(v >= 1)
  BY DEF Data, Inner, Values
<1>2. /\ t \in Seq(Values) /\ Len(t) = n + 1 /\ n \in Nat
      /\ \A p \in 1 .. n : t[p] = s[p]
      /\ t[n + 1] = v
  BY <1>1, AppendFacts
<1> HIDE DEF t
<1>3. Inners(t) = IF v = Inner THEN Inners(s) \union {n + 1} ELSE Inners(s)
  BY <1>2 DEF Inners
<1>4. n + 1 \notin Inners(s) /\ \A q \in Inners(s) : q \in 1 .. n
  BY <1>2 DEF Inners
<1>5. IsFiniteSet(Inners(s)) /\ Cardinality(Inners(s)) \in Nat
  BY InnersFinite
<1>6. Cardinality(Inners(t)) =
        IF v = Inner THEN Cardinality(Inners(s)) + 1 ELSE Cardinality(Inners(s))
  BY <1>3, <1>4, <1>5, FS_AddElement
<1>7. Cardinality(Inners(t)) <= c /\ ("inner" \notin Idioms => c = Cardinality(Inners(t)))
  BY <1>5, <1>6 DEF Astray
<1>8. ASSUME NEW p \in 1 .. Len(t), t[p] >= 1
      PROVE  p <= e /\ \A q \in Inners(t) : p < q
  <2>1. p \in 1 .. n /\ s[p] >= 1
    BY <1>1, <1>2, <1>8
  <2>2. p <= e /\ (\A q \in Inners(s) : p < q) /\ p < n + 1
    BY <1>2, <2>1 DEF Astray
  <2>3. QED BY <1>3, <2>2
<1>9. Astray(t, e, c)
  BY <1>7, <1>8 DEF Astray
<1>10. QED BY <1>1, <1>2, <1>9 DEF t

\* A pop takes the last of the interpreter's words, or finds none above.
LEMMA StrayPops ==
  ASSUME NEW s \in Seq(Values), NEW e \in Nat, NEW d \in Nat, s # << >>,
         Astray(s, e, d)
  PROVE  /\ Len(Front(s)) = Len(s) - 1 /\ Len(s) \in Nat /\ Len(s) > 0
         /\ \A p \in 1 .. Len(s) - 1 : Front(s)[p] = s[p]
         /\ s[Len(s)] # Inner => Astray(Front(s), e, d)
         /\ s[Len(s)] = Inner =>
              /\ d > 0 /\ Astray(Front(s), e, d - 1)
              /\ "inner" \in Idioms => Astray(Front(s), e, d)
         /\ s[Len(s)] >= 1 =>
              /\ Inners(Front(s)) = {} /\ Len(s) <= e
              /\ "inner" \notin Idioms => d = 0
              /\ d > 0 => Astray(Front(s), e, d - 1)
<1> DEFINE t == Front(s)
           n == Len(s)
           k == Cardinality(Inners(s))
<1>1. /\ n \in Nat /\ n > 0 /\ t \in Seq(Values) /\ Len(t) = n - 1 /\ n \in 1 .. n
      /\ \A p \in 1 .. n - 1 : t[p] = s[p]
  BY FrontFacts
<1> HIDE DEF t
<1>2. Inners(t) = IF s[n] = Inner THEN Inners(s) \ {n} ELSE Inners(s)
  BY <1>1 DEF Inners
<1>3. n \in Inners(s) <=> s[n] = Inner
  BY <1>1 DEF Inners
<1>4. IsFiniteSet(Inners(s)) /\ k \in Nat /\ Inners(s) \subseteq 1 .. n
  BY InnersFinite
<1>5. /\ Cardinality(Inners(t)) = IF s[n] = Inner THEN k - 1 ELSE k
      /\ s[n] = Inner => k > 0
  <2>1. n \in Inners(s) => Cardinality(Inners(s) \ {n}) = k - 1
    BY <1>4, FS_RemoveElement
  <2>2. Inners(s) # {} => k > 0
    BY <1>4, FS_EmptySet
  <2>3. QED BY <1>2, <1>3, <2>1, <2>2
<1>6. k <= d /\ ("inner" \notin Idioms => d = k)
  BY DEF Astray
<1>7. ASSUME NEW c \in Nat, Cardinality(Inners(t)) <= c,
             "inner" \notin Idioms => c = Cardinality(Inners(t))
      PROVE  Astray(t, e, c)
  <2>1. \A p \in 1 .. Len(t) : p \in 1 .. n /\ t[p] = s[p]
    BY <1>1
  <2>2. Inners(t) \subseteq Inners(s)
    BY <1>2
  <2>3. \A p \in 1 .. Len(t) : t[p] >= 1 => p <= e /\ \A q \in Inners(t) : p < q
    BY <2>1, <2>2 DEF Astray
  <2>4. QED BY <1>7, <2>3 DEF Astray
<1> HIDE DEF k
<1>8. s[n] # Inner => Astray(t, e, d)
  BY <1>5, <1>6, <1>7
<1>9. ASSUME s[n] = Inner
      PROVE  d > 0 /\ Astray(t, e, d - 1) /\ ("inner" \in Idioms => Astray(t, e, d))
  <2>1. d > 0 /\ d - 1 \in Nat /\ k - 1 <= d - 1 /\ k - 1 <= d
        /\ ("inner" \notin Idioms => d - 1 = k - 1)
    BY <1>4, <1>5, <1>6, <1>9
  <2>2. QED BY <1>5, <1>7, <1>9, <2>1
<1>10. ASSUME s[n] >= 1
       PROVE  /\ Inners(t) = {} /\ n <= e
              /\ "inner" \notin Idioms => d = 0
              /\ d > 0 => Astray(t, e, d - 1)
  <2>1. n <= e /\ \A q \in Inners(s) : n < q
    BY <1>1, <1>10 DEF Astray
  <2>2. Inners(s) = {}
    BY <1>1, <1>4, <2>1
  <2>3. Inners(t) = {} /\ Cardinality(Inners(t)) = 0
    BY <1>2, <2>2, FS_EmptySet
  <2>4. "inner" \notin Idioms => d = 0
    BY <1>6, <2>2, FS_EmptySet DEF k
  <2>5. d > 0 => d - 1 \in Nat /\ 0 <= d - 1
    OBVIOUS
  <2>6. d > 0 => Astray(t, e, d - 1)
    BY <1>7, <2>3, <2>4, <2>5
  <2>7. QED BY <2>1, <2>3, <2>4, <2>6
<1>11. QED BY <1>1, <1>8, <1>9, <1>10 DEF t

\* A step of a routine that may stray takes no interrupt; it keeps to Astray,
\* and to the addresses interrupts were taken at, or is the RET that leaves.
LEMMA Wanders ==
  ASSUME Tame, Strays, TypeOK, ~hyb.pend, Astray(z, hyb.entry, hyb.depth),
         NEW op \in InterpOps, NEW took \in BOOLEAN, Interpret(op, took)
  PROVE  /\ ~hyb'.pend
         /\ \/ /\ ~Leaves(op, took, z')
               /\ Astray(z', hyb.entry, Counted(op, took, z'))
               /\ \A p \in 1 .. Len(z') :
                    z'[p] >= 1 => p \in 1 .. Len(z) /\ z'[p] = z[p]
               /\ "preempt" \in Idioms =>
                    \A p \in 1 .. Len(z) :
                      z[p] >= 1 /\ IsPreempted(z[p]) =>
                        p \in 1 .. Len(z') /\ z'[p] = z[p]
            \/ /\ Leaves(op, took, z')
               /\ z # << >> /\ Top >= 1 /\ z' = Front(z) /\ Inners(z') = {}
<1> DEFINE e == hyb.entry
           d == hyb.depth
           n == Len(z)
           keeps == \A p \in 1 .. Len(z') : z'[p] >= 1 => p \in 1 .. n /\ z'[p] = z[p]
           holds == "preempt" \in Idioms =>
                      \A p \in 1 .. n : z[p] >= 1 /\ IsPreempted(z[p]) =>
                                       p \in 1 .. Len(z') /\ z'[p] = z[p]
           stay  == /\ ~Leaves(op, took, z')
                    /\ Astray(z', e, Counted(op, took, z'))
                    /\ keeps /\ holds
           leave == /\ Leaves(op, took, z')
                    /\ z # << >> /\ Top >= 1 /\ z' = Front(z) /\ Inners(z') = {}
<1>1. /\ z \in Seq(Values) /\ e \in Nat /\ d \in Nat /\ n \in Nat
  BY DEF TypeOK, Hybrid
<1>2. "irq" \notin Idioms /\ "cont" \notin Idioms
  BY DEF Tame
<1>3. /\ took = FALSE /\ z' = After(op) /\ Executes(op) /\ op # "cont"
      /\ ~hyb'.pend
  <2>1. took = FALSE
    BY <1>2 DEF Interpret
  <2>2. z' = After(op) /\ Executes(op)
    BY <2>1 DEF Interpret
  <2>3. op # "cont"
    BY <1>2, <2>2 DEF Executes
  <2>4. CASE Leaves(op, took, After(op))
    <3>1. hyb' = Idle
      BY <2>1, <2>2, <2>4 DEF Interpret
    <3>2. QED BY <2>1, <2>2, <2>3, <3>1 DEF Idle
  <2>5. CASE ~Leaves(op, took, After(op))
    <3> DEFINE pend == (took \/ hyb.pend) /\ ~((took \/ hyb.pend) /\ op # "mask")
    <3>1. hyb' = [hyb EXCEPT !.depth = Counted(op, took, After(op)), !.pend = pend]
      BY <2>1, <2>2, <2>5, Zenon DEF Interpret
    <3>2. pend = FALSE
      BY <2>1
    <3> HIDE DEF pend
    <3>3. hyb'.pend = FALSE
      BY <3>1, <3>2 DEF TypeOK, Hybrid
    <3>4. QED BY <2>1, <2>2, <2>3, <3>3
  <2>6. QED BY <2>1, <2>2, <2>3, <2>4, <2>5
<1>4. CASE op \in {"nop", "mask", "skip"}
  <2>1. z' = z
    BY <1>3, <1>4 DEF After
  <2>2. Counted(op, took, z') = d /\ ~Leaves(op, took, z')
    BY <1>1, <1>3, <2>1 DEF Counted, Leaves, Sp
  <2>3. stay
    BY <2>1, <2>2
  <2>4. QED BY <1>3, <2>3
<1>5. CASE op \in {"push", "call"}
  <2> DEFINE v == IF op = "push" THEN Data ELSE Inner
  <2>1. z' = Append(z, v) /\ v \in {Data, Inner} /\ (v = Inner <=> op = "call")
    BY <1>3, <1>5 DEF After, Data, Inner
  <2> HIDE DEF v
  <2>2. /\ Len(z') = n + 1 /\ (\A p \in 1 .. n : z'[p] = z[p]) /\ ~(z'[n + 1] >= 1)
        /\ Astray(z', e, IF v = Inner THEN d + 1 ELSE d)
    BY <1>1, <2>1, StrayPushes
  <2>3. ~Leaves(op, took, z') /\ Counted(op, took, z') = IF v = Inner THEN d + 1 ELSE d
    BY <1>1, <1>3, <1>5, <2>1, <2>2 DEF Counted, Leaves, Class, Sp
  <2>4. keeps /\ holds
    BY <1>1, <2>2
  <2>5. stay
    BY <2>2, <2>3, <2>4
  <2>6. QED BY <1>3, <2>5
<1>6. CASE op \in {"pop", "drop", "ret"}
  <2>1. z # << >> /\ z' = Front(z) /\ Top = z[n]
    BY <1>3, <1>6 DEF After, Executes, Top
  <2>2. /\ Len(z') = n - 1 /\ n > 0
        /\ \A p \in 1 .. n - 1 : z'[p] = z[p]
        /\ Top # Inner => Astray(z', e, d)
        /\ Top = Inner =>
             /\ d > 0 /\ Astray(z', e, d - 1)
             /\ "inner" \in Idioms => Astray(z', e, d)
        /\ Top >= 1 =>
             /\ Inners(z') = {} /\ n <= e
             /\ "inner" \notin Idioms => d = 0
             /\ d > 0 => Astray(z', e, d - 1)
    BY <1>1, <2>1, StrayPops
  <2>3. keeps
    BY <1>1, <2>2
  <2>4. ASSUME ~(Top >= 1) \/ "preempt" \notin Idioms \/ ~IsPreempted(Top) PROVE holds
    BY <1>1, <2>1, <2>2, <2>4
  <2>5. CASE op \in {"pop", "drop"}
    <3>1. ~Leaves(op, took, z') /\ Counted(op, took, z') = d
      BY <1>1, <1>3, <2>2, <2>5 DEF Leaves, Counted, Class, Sp
    <3>2. \/ Top = Data
          \/ Top = Inner /\ "inner" \in Idioms
          \/ Top \in 1 .. MaxCalls /\ MayDrop(Top)
      BY <1>3, <2>5 DEF Executes, MayDrop
    <3>3. Astray(z', e, d)
      BY <2>2, <3>2, CallAssumption DEF Data, Inner
    <3>4. ~(Top >= 1) \/ "preempt" \notin Idioms \/ ~IsPreempted(Top)
      BY <3>2 DEF MayDrop, Tame, Data, Inner
    <3>5. stay
      BY <2>3, <2>4, <3>1, <3>3, <3>4
    <3>6. QED BY <1>3, <3>5
  <2>6. CASE op = "ret"
    <3>1. Class(op) = -1 /\ Top # Data
      BY <1>3, <2>6 DEF Class, Executes
    <3>2. CASE d > 0
      <4>1. ~Leaves(op, took, z') /\ Counted(op, took, z') = d - 1
        BY <1>1, <1>3, <2>2, <3>1, <3>2 DEF Leaves, Counted, Sp
      <4>2. Top = Inner \/ Top >= 1
        <5>1. Top \in Values
          BY <1>1, <2>1, <2>2
        <5>2. QED BY <3>1, <5>1, CallAssumption DEF Values, Data, Inner
      <4>3. Astray(z', e, d - 1)
        BY <2>2, <3>2, <4>2
      <4>4. ~(Top >= 1) \/ "preempt" \notin Idioms
        BY <1>1, <2>2, <3>2 DEF Tame
      <4>5. stay
        BY <2>3, <2>4, <4>1, <4>3, <4>4
      <4>6. QED BY <1>3, <4>5
    <3>3. CASE d = 0
      <4>1. Top >= 1
        <5>1. Top \in Values /\ Top # Inner
          BY <1>1, <2>1, <2>2, <3>3
        <5>2. QED BY <3>1, <5>1, CallAssumption DEF Values, Data, Inner
      <4>2. Leaves(op, took, z')
        BY <1>1, <1>3, <2>2, <3>1, <3>3, <4>1 DEF Leaves, Sp
      <4>3. leave
        BY <2>1, <2>2, <4>1, <4>2
      <4>4. QED BY <1>3, <4>3
    <3>4. QED BY <1>1, <3>2, <3>3
  <2>7. QED BY <1>6, <2>5, <2>6
<1>7. op \in {"nop", "mask", "skip"} \/ op \in {"push", "call"}
      \/ op \in {"pop", "drop", "ret"}
  BY <1>3 DEF InterpOps
<1>8. QED BY <1>4, <1>5, <1>6, <1>7

-----------------------------------------------------------------------------
\* Frames and calls unchanged: what holds of the return addresses still holds
\* when some of them are gone.
LEMMA NativesKept ==
  ASSUME TypeOK, TypeOK', Serials, Placed, UNCHANGED <<frames, calls>>,
         \A p \in 1 .. Len(z') : z'[p] >= 1 => p \in 1 .. Len(z) /\ z'[p] = z[p]
  PROVE  Serials' /\ Placed'
<1>1. \A p \in 1 .. Len(z') : z'[p] \in Int /\ (z'[p] >= 1 \/ z'[p] <= 0)
  <2>1. \A p \in 1 .. Len(z') : z'[p] \in Values
    BY DEF TypeOK
  <2>2. QED BY <2>1, CallAssumption DEF Values, Data, Inner
<1>2. calls \in Nat
  BY CallAssumption DEF TypeOK
<1>3. Len(z) \in Nat /\ Len(z') \in Nat
  BY DEF TypeOK
<1>4. \A p \in 1 .. Len(z') : z'[p] <= calls
  BY <1>1, <1>2 DEF Serials
<1>5. \A p, q \in 1 .. Len(z') : p < q /\ z'[p] >= 1 /\ z'[q] >= 1 => z'[p] < z'[q]
  BY DEF Serials
<1>6. Serials'
  BY <1>4, <1>5 DEF Serials, Waits
<1>7. Placed'
  BY DEF Placed, Waits
<1>8. QED BY <1>6, <1>7

\* A RET to a return address of compiled code finds the frame that waits.
LEMMA RetUnwinds ==
  ASSUME TypeOK, TypeOK', Serials, Placed, IrqKept, UNCHANGED <<frames, calls>>,
         mode # "unwind", z # << >>, Top >= 1,
         z' = Front(z), mode' = "unwind", zpc' = Top
  PROVE  Serials' /\ Placed' /\ IrqKept' /\ Unwound'
<1>1. z \in Seq(Values) /\ z' \in Seq(Values)
  BY DEF TypeOK
<1>2. /\ Len(z) \in Nat /\ Len(z) > 0 /\ Len(z') = Len(z) - 1
      /\ \A p \in 1 .. Len(z) - 1 : z'[p] = z[p]
      /\ Top = z[Len(z)] /\ Len(z) \in 1 .. Len(z)
  BY <1>1, FrontFacts DEF Top
<1>3. Serials' /\ Placed'
  <2>1. \A p \in 1 .. Len(z') : z'[p] >= 1 => p \in 1 .. Len(z) /\ z'[p] = z[p]
    BY <1>2
  <2>2. QED BY <2>1, NativesKept
<1>4. IrqKept'
  <2>1. ASSUME NEW i \in 1 .. Len(frames), frames[i].kind = "irq"
        PROVE  \/ \E p \in 1 .. Len(z') : z'[p] = frames[i].id
               \/ zpc' = frames[i].id
    <3>1. PICK p \in 1 .. Len(z) : z[p] = frames[i].id
      BY <2>1 DEF IrqKept
    <3>2. CASE p = Len(z)
      BY <1>2, <3>1, <3>2
    <3>3. CASE p # Len(z)
      <4>1. p \in 1 .. Len(z') /\ z'[p] = z[p]
        BY <1>2, <3>3
      <4>2. QED BY <3>1, <4>1
    <3>4. QED BY <3>2, <3>3
  <2>2. QED BY <2>1 DEF IrqKept
<1>5. Unwound'
  <2>1. PICK i \in 1 .. Len(frames) : Waits(i) /\ frames[i].id = Top
    BY <1>2 DEF Placed
  <2>2. \A j \in 1 .. Len(frames) : frames[j].sp \in Nat /\ frames[j].id \in Nat
    <3>1. \A j \in 1 .. Len(frames) : frames[j] \in Frame
      BY DEF TypeOK
    <3>2. QED BY <3>1, CallAssumption DEF Frame
  <2>3. Len(z) = frames[i].sp + 1
    BY <1>2, <2>1 DEF Placed
  <2>4. frames[i].sp = Len(z')
    BY <1>2, <2>2, <2>3
  <2>5. \A j \in 1 .. Len(frames) :
          Waits(j) /\ frames[j].id > Top => Len(z') < frames[j].sp
    <3>1. SUFFICES ASSUME NEW j \in 1 .. Len(frames), Waits(j), frames[j].id > Top
                   PROVE  Len(z') < frames[j].sp
      OBVIOUS
    <3>2. Top < frames[j].id
      BY <2>1, <2>2, <3>1
    <3>3. Len(z) <= frames[j].sp
      BY <1>2, <3>1, <3>2 DEF Placed
    <3>4. QED BY <1>2, <2>2, <3>3
  <2>6. QED BY <2>1, <2>4, <2>5 DEF Unwound, Waits
<1>6. QED BY <1>3, <1>4, <1>5

\* Entering the interpreter, on a stack with none of its addresses.
LEMMA EnterInside ==
  ASSUME TypeOK', NEW sp \in Nat, Enter(sp), Len(z') = sp, Inners(z') = {},
         Strays => ~hyb.pend
  PROVE  Interpreted' /\ mode' # "unwind"
<1>1. z' \in Seq(Values) /\ \A p \in 1 .. Len(z') : p <= sp
  BY DEF TypeOK
<1>2. CASE mode' = "run" /\ UNCHANGED hyb
  <2>1. mode' # "interp" /\ (Strays => ~hyb'.pend)
    BY <1>2
  <2>2. QED BY <1>2, <2>1 DEF Interpreted
<1>3. CASE mode' = "interp" /\ hyb' = [entry |-> sp, depth |-> 0, pend |-> FALSE]
  <2>1. hyb'.entry = sp /\ hyb'.depth = 0 /\ ~hyb'.pend
    BY <1>3
  <2>2. Cardinality(Inners(z')) = 0
    BY FS_EmptySet
  <2>3. sp <= Len(z') /\ 0 <= Cardinality(Inners(z'))
    BY <2>2
  <2>4. \A p \in 1 .. Len(z') : z'[p] >= 1 => p <= sp
    BY <1>1
  <2>5. Inside(z', sp, 0)
    BY <2>3, <2>4 DEF Inside
  <2>6. Astray(z', sp, 0)
    BY <2>2, <2>4 DEF Astray
  <2>7. QED BY <1>3, <2>1, <2>5, <2>6 DEF Interpreted
<1>4. QED BY <1>2, <1>3 DEF Enter

\* A call, or an interrupt: a new return address and a frame that waits for it.
LEMMA CallKeeps ==
  ASSUME TypeOK, TypeOK', CallInv, NEW kind \in {"call", "irq"}, CallAs(kind),
         kind = "irq" => "preempt" \in Idioms
  PROVE  CallInv'
<1> DEFINE n == Len(z)
           m == Len(frames)
           c == calls + 1
<1>1. /\ mode = "run" /\ calls' = c /\ z' = Append(z, c) /\ PushFrame(kind, c)
      /\ Enter(Sp + 1) /\ calls < MaxCalls
  BY DEF CallAs
<1>2. c \in 1 .. MaxCalls /\ c \in Values /\ c \in 0 .. MaxCalls /\ calls \in Nat
      /\ c > calls
  BY <1>1, CallAssumption DEF TypeOK, Values
<1>3. /\ n \in Nat /\ Len(z') = n + 1 /\ \A p \in 1 .. n : z'[p] = z[p]
      /\ z'[n + 1] = c
  BY <1>1, <1>2, AppendFacts DEF TypeOK
<1>4. /\ m \in Nat /\ Len(frames') = m + 1
      /\ \A i \in 1 .. m : frames'[i] = frames[i]
      /\ frames'[m + 1] = [kind |-> kind, sp |-> n, id |-> c]
  <2>1. kind \in {"call", "tail", "irq"}
    OBVIOUS
  <2>2. QED BY <1>1, <1>2, <2>1, PushFrameType DEF Sp
<1>5. /\ \A i \in 1 .. m : Waits(i)' <=> Waits(i)
      /\ \A i \in {m + 1} : Waits(i)'
      /\ frames'[m + 1].id = c /\ frames'[m + 1].sp = n /\ frames'[m + 1].kind = kind
  BY <1>4 DEF Waits
<1>6. \A i \in 1 .. m : frames[i].id \in Nat /\ frames[i].sp \in Nat
  <2>1. \A i \in 1 .. m : frames[i] \in Frame
    BY DEF TypeOK
  <2>2. QED BY <2>1, CallAssumption DEF Frame
<1>7. \A p \in 1 .. n : z[p] \in Int /\ z[p] <= calls
  <2>1. \A p \in 1 .. n : z[p] \in Values
    BY DEF TypeOK
  <2>2. QED BY <2>1, CallAssumption DEF Values, Data, Inner, CallInv, Serials
<1> HIDE DEF c
<1>p. \A p \in 1 .. n + 1 : p \in 1 .. n \/ p = n + 1
  BY <1>3
<1>i. \A i \in 1 .. m + 1 : i \in 1 .. m \/ i = m + 1
  BY <1>4
<1>8. Serials'
  <2>1. \A p \in 1 .. Len(z') : z'[p] <= calls'
    BY <1>1, <1>2, <1>3, <1>7, <1>p
  <2>2. \A i \in 1 .. Len(frames') :
          frames'[i].id <= calls' /\ (Waits(i)' => frames'[i].id >= 1)
    BY <1>1, <1>2, <1>4, <1>5, <1>6, <1>i DEF CallInv, Serials
  <2>3. \A p, q \in 1 .. Len(z') :
          p < q /\ z'[p] >= 1 /\ z'[q] >= 1 => z'[p] < z'[q]
    <3>1. SUFFICES ASSUME NEW p \in 1 .. Len(z'), NEW q \in 1 .. Len(z'), p < q,
                          z'[p] >= 1, z'[q] >= 1
                   PROVE  z'[p] < z'[q]
      OBVIOUS
    <3>2. p \in 1 .. n
      BY <1>3, <3>1
    <3>3. CASE q = n + 1
      BY <1>2, <1>3, <1>7, <3>2, <3>3
    <3>4. CASE q \in 1 .. n
      BY <1>3, <3>1, <3>2, <3>4 DEF CallInv, Serials
    <3>5. QED BY <1>3, <1>p, <3>3, <3>4
  <2>4. \A i, j \in 1 .. Len(frames') :
          i < j /\ Waits(i)' /\ Waits(j)' => frames'[i].id < frames'[j].id
    <3>1. SUFFICES ASSUME NEW i \in 1 .. Len(frames'), NEW j \in 1 .. Len(frames'),
                          i < j, Waits(i)', Waits(j)'
                   PROVE  frames'[i].id < frames'[j].id
      OBVIOUS
    <3>2. i \in 1 .. m
      BY <1>4, <3>1
    <3>3. frames'[i].id <= calls /\ frames'[i].id \in Nat
      BY <1>4, <1>6, <3>2 DEF CallInv, Serials
    <3>4. CASE j = m + 1
      BY <1>2, <1>5, <3>3, <3>4
    <3>5. CASE j \in 1 .. m
      BY <1>4, <1>5, <3>1, <3>2, <3>5 DEF CallInv, Serials
    <3>6. QED BY <1>4, <1>i, <3>4, <3>5
  <2>5. QED BY <2>1, <2>2, <2>3, <2>4 DEF Serials
<1>9. Placed'
  <2>1. ASSUME NEW p \in 1 .. Len(z'), z'[p] >= 1
        PROVE  \E i \in 1 .. Len(frames') : Waits(i)' /\ frames'[i].id = z'[p]
    <3>1. CASE p = n + 1
      <4>1. PICK i \in 1 .. Len(frames') : i = m + 1
        BY <1>4
      <4>2. Waits(i)' /\ frames'[i].id = z'[p]
        BY <1>3, <1>5, <3>1, <4>1
      <4>3. QED BY <4>2
    <3>2. CASE p \in 1 .. n
      <4>1. PICK i \in 1 .. m : Waits(i) /\ frames[i].id = z[p]
        BY <1>3, <2>1, <3>2 DEF CallInv, Placed
      <4>2. i \in 1 .. Len(frames')
        BY <1>4
      <4>3. QED BY <1>3, <1>4, <1>5, <3>2, <4>1, <4>2
    <3>3. QED BY <1>3, <1>p, <3>1, <3>2
  <2>2. ASSUME NEW p \in 1 .. Len(z'), NEW i \in 1 .. Len(frames'),
               z'[p] >= 1, Waits(i)'
        PROVE  /\ z'[p] = frames'[i].id => p = frames'[i].sp + 1
               /\ z'[p] < frames'[i].id => p <= frames'[i].sp
    <3>1. CASE p \in 1 .. n /\ i \in 1 .. m
      BY <1>3, <1>4, <1>5, <2>2, <3>1 DEF CallInv, Placed
    <3>2. CASE p \in 1 .. n /\ i = m + 1
      BY <1>2, <1>3, <1>5, <1>7, <3>2
    <3>3. CASE p = n + 1 /\ i \in 1 .. m
      <4>1. frames'[i].id <= calls /\ frames'[i].id \in Nat
        BY <1>4, <1>6, <3>3 DEF CallInv, Serials
      <4>2. c \in Nat /\ z'[p] = c
        BY <1>2, <1>3, <3>3
      <4>3. QED BY <1>2, <4>1, <4>2
    <3>4. CASE p = n + 1 /\ i = m + 1
      BY <1>2, <1>3, <1>5, <3>4
    <3>5. QED BY <1>3, <1>4, <1>p, <1>i, <3>1, <3>2, <3>3, <3>4
  <2>3. QED BY <2>1, <2>2 DEF Placed
<1>10. IrqKept'
  <2>1. ASSUME NEW i \in 1 .. Len(frames'), frames'[i].kind = "irq"
        PROVE  "preempt" \in Idioms /\ \E p \in 1 .. Len(z') : z'[p] = frames'[i].id
    <3>1. CASE i = m + 1
      <4>1. PICK p \in 1 .. Len(z') : p = n + 1
        BY <1>3
      <4>2. kind = "irq"
        BY <1>5, <2>1, <3>1
      <4>3. QED BY <1>3, <1>5, <3>1, <4>1, <4>2
    <3>2. CASE i \in 1 .. m
      <4>1. PICK p \in 1 .. n : z[p] = frames[i].id
        BY <1>1, <1>4, <2>1, <3>2 DEF CallInv, IrqKept
      <4>2. p \in 1 .. Len(z') /\ z'[p] = frames'[i].id
        BY <1>3, <1>4, <3>2, <4>1
      <4>3. "preempt" \in Idioms
        BY <1>4, <2>1, <3>2 DEF CallInv, IrqKept
      <4>4. QED BY <4>2, <4>3
    <3>3. QED BY <1>4, <1>i, <3>1, <3>2
  <2>2. QED BY <2>1 DEF IrqKept
<1>11. Interpreted' /\ mode' # "unwind"
  <2>1. Inners(z) = {}
    BY <1>1 DEF CallInv, Interpreted
  <2>2. c # Inner
    BY <1>2 DEF Inner
  <2>3. Inners(z') = {}
    BY <1>3, <1>p, <2>1, <2>2 DEF Inners
  <2>4. Sp + 1 \in Nat /\ Len(z') = Sp + 1 /\ Enter(Sp + 1)
    BY <1>1, <1>3 DEF Sp
  <2>5. Strays => ~hyb.pend
    BY DEF CallInv, Interpreted
  <2>6. QED BY <2>3, <2>4, <2>5, EnterInside
<1>12. QED BY <1>8, <1>9, <1>10, <1>11 DEF CallInv, Unwound

\* A tail jump's frame waits for nothing.
LEMMA TailKeeps ==
  ASSUME TypeOK, TypeOK', CallInv, TailJump
  PROVE  CallInv'
<1> DEFINE m == Len(frames)
<1>1. /\ mode = "run" /\ PushFrame("tail", 0) /\ Enter(Sp) /\ UNCHANGED <<z, zpc, calls>>
  BY DEF TailJump
<1>2. /\ m \in Nat /\ Len(frames') = m + 1
      /\ \A i \in 1 .. m : frames'[i] = frames[i]
      /\ frames'[m + 1] = [kind |-> "tail", sp |-> Sp, id |-> 0]
  <2>1. 0 \in 0 .. MaxCalls
    BY CallAssumption
  <2>2. QED BY <1>1, <2>1, PushFrameType
<1>3. /\ \A i \in 1 .. m : Waits(i)' <=> Waits(i)
      /\ \A i \in {m + 1} : ~Waits(i)' /\ frames'[i].id = 0 /\ frames'[i].kind = "tail"
  BY <1>2 DEF Waits
<1>4. \A i \in 1 .. m + 1 : i \in 1 .. m \/ i = m + 1
  BY <1>2
<1>5. \A i \in 1 .. Len(frames') :
        (Waits(i)' \/ frames'[i].kind = "irq") => i \in 1 .. m
  BY <1>2, <1>3, <1>4
<1>6. Serials'
  <2>1. calls \in Nat
    BY CallAssumption DEF TypeOK
  <2>2. \A i \in 1 .. Len(frames') :
          frames'[i].id <= calls' /\ (Waits(i)' => frames'[i].id >= 1)
    BY <1>1, <1>2, <1>3, <1>4, <2>1 DEF CallInv, Serials
  <2>3. \A i, j \in 1 .. Len(frames') :
          i < j /\ Waits(i)' /\ Waits(j)' => frames'[i].id < frames'[j].id
    BY <1>2, <1>3, <1>5 DEF CallInv, Serials
  <2>4. QED BY <1>1, <2>2, <2>3 DEF Serials, CallInv
<1>7. Placed'
  <2>1. ASSUME NEW p \in 1 .. Len(z'), z'[p] >= 1
        PROVE  \E i \in 1 .. Len(frames') : Waits(i)' /\ frames'[i].id = z'[p]
    <3>1. PICK i \in 1 .. m : Waits(i) /\ frames[i].id = z[p]
      BY <1>1, <2>1 DEF CallInv, Placed
    <3>2. i \in 1 .. Len(frames')
      BY <1>2
    <3>3. QED BY <1>1, <1>2, <1>3, <3>1, <3>2
  <2>2. ASSUME NEW p \in 1 .. Len(z'), NEW i \in 1 .. Len(frames'),
               z'[p] >= 1, Waits(i)'
        PROVE  /\ z'[p] = frames'[i].id => p = frames'[i].sp + 1
               /\ z'[p] < frames'[i].id => p <= frames'[i].sp
    BY <1>1, <1>2, <1>3, <1>5, <2>2 DEF CallInv, Placed
  <2>3. QED BY <2>1, <2>2 DEF Placed
<1>8. IrqKept'
  BY <1>1, <1>2, <1>5 DEF CallInv, IrqKept
<1>9. Interpreted' /\ mode' # "unwind"
  <2>1. Inners(z') = {}
    BY <1>1 DEF CallInv, Interpreted, Inners
  <2>2. Sp \in Nat /\ Len(z') = Sp
    BY <1>1 DEF Sp, TypeOK
  <2>3. Strays => ~hyb.pend
    BY DEF CallInv, Interpreted
  <2>4. QED BY <1>1, <2>1, <2>2, <2>3, EnterInside
<1>10. QED BY <1>6, <1>7, <1>8, <1>9 DEF CallInv, Unwound

\* A word of data covers the stack and uncovers it again.
LEMMA PushKeeps ==
  ASSUME TypeOK, TypeOK', CallInv, PushData
  PROVE  CallInv'
<1>1. mode = "run" /\ z' = Append(z, Data) /\ UNCHANGED <<frames, mode, zpc, calls, hyb>>
  BY DEF PushData
<1>2. z \in Seq(Values) /\ Data \in Values /\ ~(Data >= 1) /\ Data # Inner
  BY DEF TypeOK, Values, Data, Inner
<1>3. /\ Len(z) \in Nat /\ Len(z') = Len(z) + 1 /\ \A p \in 1 .. Len(z) : z'[p] = z[p]
      /\ z'[Len(z) + 1] = Data
  BY <1>1, <1>2, AppendFacts
<1>4. \A p \in 1 .. Len(z') : z'[p] >= 1 => p \in 1 .. Len(z) /\ z'[p] = z[p]
  BY <1>2, <1>3
<1>5. Serials' /\ Placed'
  BY <1>1, <1>4, NativesKept DEF CallInv
<1>6. IrqKept'
  <2>1. \A p \in 1 .. Len(z) : p \in 1 .. Len(z') /\ z'[p] = z[p]
    BY <1>3
  <2>2. QED BY <1>1, <2>1 DEF CallInv, IrqKept
<1>7. Interpreted'
  <2>1. Inners(z') = {} /\ (Strays => ~hyb'.pend)
    BY <1>1, <1>2, <1>3 DEF CallInv, Interpreted, Inners
  <2>2. QED BY <1>1, <2>1 DEF Interpreted
<1>8. QED BY <1>1, <1>5, <1>6, <1>7 DEF CallInv, Unwound

\* A pop drops data or the address of a call; an interrupt's stays.
LEMMA PopKeeps ==
  ASSUME Tame, TypeOK, TypeOK', CallInv, Pop
  PROVE  CallInv'
<1>1. /\ mode = "run" /\ z # << >> /\ z' = Front(z)
      /\ UNCHANGED <<frames, mode, zpc, calls, hyb>>
      /\ Top = Data \/ ~IsPreempted(Top) \/ "preempt" \notin Idioms
  BY DEF Pop, MayDrop, Tame
<1>2. z \in Seq(Values)
  BY DEF TypeOK
<1>3. /\ Len(z) \in Nat /\ Len(z') = Len(z) - 1 /\ \A p \in 1 .. Len(z) - 1 : z'[p] = z[p]
      /\ Top = z[Len(z)]
  BY <1>1, <1>2, FrontFacts DEF Top
<1>4. Serials' /\ Placed'
  <2>1. \A p \in 1 .. Len(z') : z'[p] >= 1 => p \in 1 .. Len(z) /\ z'[p] = z[p]
    BY <1>3
  <2>2. QED BY <1>1, <2>1, NativesKept DEF CallInv
<1>5. IrqKept'
  <2>1. ASSUME NEW i \in 1 .. Len(frames), frames[i].kind = "irq"
        PROVE  "preempt" \in Idioms /\ \E p \in 1 .. Len(z') : z'[p] = frames[i].id
    <3>0. "preempt" \in Idioms
      BY <2>1 DEF CallInv, IrqKept
    <3>1. PICK p \in 1 .. Len(z) : z[p] = frames[i].id
      BY <1>1, <2>1 DEF CallInv, IrqKept
    <3>2. Waits(i) /\ frames[i].id >= 1
      BY <2>1 DEF CallInv, Serials, Waits
    <3>3. p # Len(z)
      BY <1>1, <1>3, <2>1, <3>0, <3>1, <3>2 DEF IsPreempted, Data
    <3>4. p \in 1 .. Len(z') /\ z'[p] = z[p]
      BY <1>3, <3>3
    <3>5. QED BY <3>0, <3>1, <3>4
  <2>2. QED BY <1>1, <2>1 DEF IrqKept
<1>6. Interpreted'
  <2>1. Inners(z') = {} /\ (Strays => ~hyb'.pend)
    BY <1>1, <1>3 DEF CallInv, Interpreted, Inners
  <2>2. QED BY <1>1, <2>1 DEF Interpreted
<1>7. QED BY <1>1, <1>4, <1>5, <1>6 DEF CallInv, Unwound

\* A RET in compiled code.
LEMMA RetKeeps ==
  ASSUME TypeOK, TypeOK', CallInv, Ret
  PROVE  CallInv'
<1>1. /\ mode = "run" /\ z # << >> /\ z' = Front(z) /\ Top # Data
      /\ UNCHANGED <<frames, calls, hyb>> /\ mode' = "unwind" /\ zpc' = Top
  BY DEF Ret
<1>2. z \in Seq(Values)
  BY DEF TypeOK
<1>3. /\ Len(z) \in Nat /\ Len(z') = Len(z) - 1 /\ \A p \in 1 .. Len(z) - 1 : z'[p] = z[p]
      /\ Top = z[Len(z)] /\ Top \in Values /\ Len(z) \in 1 .. Len(z)
  BY <1>1, <1>2, FrontFacts DEF Top
<1>4. Inners(z) = {}
  BY <1>1 DEF CallInv, Interpreted
<1>5. Top >= 1
  BY <1>1, <1>3, <1>4, CallAssumption DEF Inners, Values, Data, Inner
<1>6. Serials' /\ Placed' /\ IrqKept' /\ Unwound'
  BY <1>1, <1>5, RetUnwinds DEF CallInv
<1>7. Inners(z') = {}
  BY <1>3, <1>4 DEF Inners
<1>8. QED BY <1>1, <1>6, <1>7 DEF CallInv, Interpreted

\* A frame goes: nothing on the stack needs it.
LEMMA FrameGoes ==
  ASSUME TypeOK, TypeOK', CallInv, mode = "unwind", frames # << >>,
         frames' = Front(frames), UNCHANGED <<z, calls, hyb>>, mode' # "interp",
         \/ Last(frames).kind = "tail"
         \/ Sp <= Last(frames).sp
  PROVE  /\ Serials' /\ Placed' /\ Interpreted'
         /\ Len(frames) \in Nat /\ Len(frames') = Len(frames) - 1
         /\ \A i \in 1 .. Len(frames') :
              /\ i \in 1 .. Len(frames) - 1 /\ frames'[i] = frames[i]
              /\ Waits(i)' <=> Waits(i)
<1> DEFINE m == Len(frames)
<1>1. frames \in Seq(Frame) /\ z \in Seq(Values)
  BY DEF TypeOK
<1>2. /\ m \in Nat /\ m > 0 /\ Len(frames') = m - 1 /\ Last(frames) = frames[m]
      /\ \A i \in 1 .. m - 1 : frames'[i] = frames[i]
  BY <1>1, FrontFacts
<1>3. \A i \in 1 .. Len(frames') :
        /\ i \in 1 .. m - 1 /\ i \in 1 .. m /\ frames'[i] = frames[i]
        /\ Waits(i)' <=> Waits(i)
  BY <1>2 DEF Waits
<1>4. Serials'
  BY <1>3 DEF CallInv, Serials
<1>5. Placed'
  <2>1. ASSUME NEW p \in 1 .. Len(z), z[p] >= 1
        PROVE  \E i \in 1 .. Len(frames') : Waits(i)' /\ frames'[i].id = z[p]
    <3>1. PICK i \in 1 .. m : Waits(i) /\ frames[i].id = z[p]
      BY <2>1 DEF CallInv, Placed
    <3>2. i # m
      <4>1. SUFFICES ASSUME i = m PROVE FALSE
        OBVIOUS
      <4>2. Len(z) <= frames[m].sp
        BY <1>2, <3>1, <4>1 DEF Waits, Sp
      <4>3. p = frames[m].sp + 1
        BY <2>1, <3>1, <4>1 DEF CallInv, Placed
      <4>4. frames[m].sp \in Nat /\ Len(z) \in Nat
        <5>1. frames[m] \in Frame
          BY <1>1, <1>2
        <5>2. QED BY <1>1, <5>1, CallAssumption DEF Frame
      <4>5. QED BY <4>2, <4>3, <4>4
    <3>3. i \in 1 .. Len(frames')
      BY <1>2, <3>2
    <3>4. QED BY <1>3, <3>1, <3>3
  <2>2. ASSUME NEW p \in 1 .. Len(z), NEW i \in 1 .. Len(frames'), z[p] >= 1, Waits(i)'
        PROVE  /\ z[p] = frames'[i].id => p = frames'[i].sp + 1
               /\ z[p] < frames'[i].id => p <= frames'[i].sp
    BY <1>3, <2>2 DEF CallInv, Placed
  <2>3. QED BY <2>1, <2>2 DEF Placed
<1>6. Interpreted'
  BY DEF CallInv, Interpreted, Inners
<1>7. QED BY <1>2, <1>3, <1>4, <1>5, <1>6

\* The propagation guard passes over frames the return is not for.
LEMMA PropagateKeeps ==
  ASSUME TypeOK, TypeOK', CallInv, Propagate
  PROVE  CallInv'
<1> DEFINE m == Len(frames)
<1>1. /\ mode = "unwind" /\ frames # << >> /\ frames' = Front(frames)
      /\ UNCHANGED <<z, mode, zpc, calls, hyb>>
      /\ Last(frames).kind = "tail" \/ Sp < Last(frames).sp
  BY DEF Propagate, Unwinding, GoesPast
<1>2. frames \in Seq(Frame) /\ Len(z) \in Nat
  BY DEF TypeOK
<1>3. m \in Nat /\ m > 0 /\ Last(frames) = frames[m] /\ Last(frames) \in Frame
  BY <1>1, <1>2, FrontFacts
<1>4. Last(frames).sp \in Nat
  BY <1>3, CallAssumption DEF Frame
<1>5. /\ Serials' /\ Placed' /\ Interpreted' /\ Len(frames') = m - 1
      /\ \A i \in 1 .. Len(frames') :
           /\ i \in 1 .. m - 1 /\ frames'[i] = frames[i] /\ (Waits(i)' <=> Waits(i))
  <2>1. Last(frames).kind = "tail" \/ Sp <= Last(frames).sp
    BY <1>1, <1>2, <1>4 DEF Sp
  <2>2. QED BY <1>1, <2>1, FrameGoes
<1>6. IrqKept'
  <2>1. \A i \in 1 .. Len(frames') : i \in 1 .. m
    BY <1>3, <1>5
  <2>2. QED BY <1>1, <1>5, <2>1 DEF CallInv, IrqKept
<1>7. Unwound'
  <2>1. PICK i \in 1 .. m : Waits(i) /\ frames[i].id = zpc /\ frames[i].sp = Len(z)
    BY <1>1 DEF CallInv, Unwound
  <2>2. i # m
    BY <1>1, <1>2, <1>3, <1>4, <2>1 DEF Waits, Sp
  <2>3. i \in 1 .. Len(frames')
    BY <1>3, <1>5, <2>2
  <2>4. \A j \in 1 .. Len(frames') :
          Waits(j)' /\ frames'[j].id > zpc => Len(z) < frames'[j].sp
    <3>1. \A j \in 1 .. Len(frames') : j \in 1 .. m
      BY <1>3, <1>5
    <3>2. QED BY <1>1, <1>5, <3>1 DEF CallInv, Unwound
  <2>5. zpc >= 1
    BY <1>1 DEF CallInv, Unwound
  <2>6. QED BY <1>1, <1>5, <2>1, <2>3, <2>4, <2>5 DEF Unwound
<1>8. QED BY <1>5, <1>6, <1>7 DEF CallInv

\* The frame the Z80 returned to goes on.
LEMMA ResumeKeeps ==
  ASSUME TypeOK, TypeOK', CallInv, Resume
  PROVE  CallInv'
<1> DEFINE m == Len(frames)
<1>1. /\ mode = "unwind" /\ frames # << >> /\ frames' = Front(frames)
      /\ UNCHANGED <<z, calls, hyb>> /\ mode' = "run"
      /\ Last(frames).kind \in {"call", "irq"}
  BY DEF Resume, Unwinding
<1>2. Last(frames).id = zpc /\ Sp = Last(frames).sp
  BY ResumesRight
<1>3. frames \in Seq(Frame) /\ Len(z) \in Nat
  BY DEF TypeOK
<1>4. m \in Nat /\ m > 0 /\ Last(frames) = frames[m] /\ m \in 1 .. m
  BY <1>1, <1>3, FrontFacts
<1>5. /\ Serials' /\ Placed' /\ Interpreted' /\ Len(frames') = m - 1
      /\ \A i \in 1 .. Len(frames') : i \in 1 .. m - 1 /\ frames'[i] = frames[i]
  <2>1. Sp <= Last(frames).sp /\ mode' # "interp"
    BY <1>1, <1>2, <1>3 DEF Sp
  <2>2. QED BY <1>1, <2>1, FrameGoes
<1>6. IrqKept'
  <2>1. ASSUME NEW i \in 1 .. Len(frames'), frames'[i].kind = "irq"
        PROVE  "preempt" \in Idioms /\ \E p \in 1 .. Len(z') : z'[p] = frames'[i].id
    <3>1. i \in 1 .. m /\ i < m /\ frames[i].kind = "irq" /\ frames'[i] = frames[i]
      BY <1>4, <1>5, <2>1
    <3>2. Waits(i) /\ Waits(m)
      BY <1>1, <1>4, <3>1 DEF Waits
    <3>3. frames[i].id < frames[m].id
      BY <1>4, <3>1, <3>2 DEF CallInv, Serials
    <3>4. frames[i].id # zpc
      <4>1. frames[i] \in Frame /\ frames[m] \in Frame
        BY <1>3, <1>4, <3>1
      <4>2. frames[i].id \in Nat /\ frames[m].id \in Nat
        BY <4>1, CallAssumption DEF Frame
      <4>3. QED BY <1>2, <1>4, <3>3, <4>2
    <3>5. QED BY <1>1, <3>1, <3>4 DEF CallInv, IrqKept
  <2>2. QED BY <2>1 DEF IrqKept
<1>7. QED BY <1>1, <1>5, <1>6 DEF CallInv, Unwound

\* A step of the interpreter.
LEMMA InterpretKeeps ==
  ASSUME Tame, TypeOK, TypeOK', CallInv,
         NEW op \in InterpOps, NEW took \in BOOLEAN, Interpret(op, took)
  PROVE  CallInv'
<1>1. mode = "interp" /\ UNCHANGED <<frames, calls>>
  BY DEF Interpret
<1>2. ASSUME ~Leaves(op, took, z'), Interpreted',
             \A p \in 1 .. Len(z') : z'[p] >= 1 => p \in 1 .. Len(z) /\ z'[p] = z[p],
             "preempt" \in Idioms =>
               \A p \in 1 .. Len(z) :
                 z[p] >= 1 /\ IsPreempted(z[p]) => p \in 1 .. Len(z') /\ z'[p] = z[p]
      PROVE  CallInv'
  <2>1. UNCHANGED <<mode, zpc>>
    BY <1>2 DEF Interpret
  <2>2. Serials' /\ Placed'
    BY <1>1, <1>2, NativesKept DEF CallInv
  <2>3. IrqKept'
    <3>1. ASSUME NEW i \in 1 .. Len(frames), frames[i].kind = "irq"
          PROVE  "preempt" \in Idioms /\ \E p \in 1 .. Len(z') : z'[p] = frames[i].id
      <4>1. "preempt" \in Idioms
        BY <3>1 DEF CallInv, IrqKept
      <4>2. PICK p \in 1 .. Len(z) : z[p] = frames[i].id
        BY <1>1, <3>1 DEF CallInv, IrqKept
      <4>3. z[p] >= 1 /\ IsPreempted(z[p])
        BY <3>1, <4>2 DEF CallInv, Serials, Waits, IsPreempted
      <4>4. p \in 1 .. Len(z') /\ z'[p] = z[p]
        BY <1>2, <4>1, <4>3
      <4>5. QED BY <4>1, <4>2, <4>4
    <3>2. QED BY <1>1, <3>1 DEF IrqKept
  <2>4. QED BY <1>1, <1>2, <2>1, <2>2, <2>3 DEF CallInv, Unwound
<1>3. ASSUME Leaves(op, took, z'), z # << >>, Top >= 1, z' = Front(z), Inners(z') = {},
             Strays => ~hyb'.pend
      PROVE  CallInv'
  <2>1. mode' = "unwind" /\ zpc' = Top
    BY <1>3 DEF Interpret
  <2>2. Serials' /\ Placed' /\ IrqKept' /\ Unwound'
    BY <1>1, <1>3, <2>1, RetUnwinds DEF CallInv
  <2>3. Interpreted'
    BY <1>3, <2>1 DEF Interpreted
  <2>4. QED BY <2>2, <2>3 DEF CallInv
<1>4. ~Leaves(op, took, z') =>
        mode' = mode /\ hyb'.entry = hyb.entry /\ hyb'.depth = Counted(op, took, z')
  BY DEF Interpret, TypeOK, Hybrid
<1>5. CASE ~Strays
  <2>1. Inside(z, hyb.entry, hyb.depth)
    BY <1>1, <1>5 DEF CallInv, Interpreted
  <2>2. CASE /\ ~Leaves(op, took, z')
             /\ Inside(z', hyb.entry, Counted(op, took, z'))
             /\ SameNatives(z, z')
    <3>1. Interpreted'
      BY <1>1, <1>4, <1>5, <2>2 DEF Interpreted
    <3>2. (\A p \in 1 .. Len(z') : p \in Nat) /\ (\A p \in 1 .. Len(z) : p \in Nat)
      BY DEF TypeOK
    <3>3. \A p \in 1 .. Len(z') : z'[p] >= 1 => p \in 1 .. Len(z) /\ z'[p] = z[p]
      BY <2>2, <3>2 DEF SameNatives, NativeAt
    <3>4. \A p \in 1 .. Len(z) : z[p] >= 1 => p \in 1 .. Len(z') /\ z'[p] = z[p]
      BY <2>2, <3>2 DEF SameNatives, NativeAt
    <3>5. QED BY <1>2, <2>2, <3>1, <3>3, <3>4
  <2>3. QED BY <1>3, <1>5, <2>1, <2>2, Interprets
<1>6. CASE Strays
  <2>1. ~hyb.pend /\ Astray(z, hyb.entry, hyb.depth)
    BY <1>1, <1>6 DEF CallInv, Interpreted
  <2>2. CASE Leaves(op, took, z')
    BY <1>3, <1>6, <2>1, <2>2, Wanders
  <2>3. CASE ~Leaves(op, took, z')
    <3>1. ~hyb'.pend /\ Astray(z', hyb.entry, Counted(op, took, z'))
      BY <1>6, <2>1, <2>3, Wanders
    <3>2. Interpreted'
      BY <1>1, <1>4, <1>6, <2>3, <3>1 DEF Interpreted
    <3>3. QED BY <1>2, <1>6, <2>1, <2>3, <3>2, Wanders
  <2>4. QED BY <2>2, <2>3
<1>7. QED BY <1>5, <1>6
-----------------------------------------------------------------------------
\* Every step keeps the two stacks together.
LEMMA CallStep ==
  ASSUME Tame, TypeOK, CallInv, [Next]_vars
  PROVE  CallInv'
<1>1. TypeOK'
  BY TypeStep
<1>2. CASE Call \/ TakeIrq
  <2>1. CallAs("call") \/ (CallAs("irq") /\ "preempt" \in Idioms)
    BY <1>2 DEF Call, TakeIrq
  <2>2. QED BY <1>1, <2>1, CallKeeps
<1>3. CASE TailJump
  BY <1>1, <1>3, TailKeeps
<1>4. CASE PushData
  BY <1>1, <1>4, PushKeeps
<1>5. CASE Pop
  BY <1>1, <1>5, PopKeeps
<1>6. CASE Ret
  BY <1>1, <1>6, RetKeeps
<1>7. CASE Propagate
  BY <1>1, <1>7, PropagateKeeps
<1>8. CASE Resume
  BY <1>1, <1>8, ResumeKeeps
<1>9. CASE UNCHANGED vars
  BY <1>9 DEF vars, CallInv, Serials, Placed, IrqKept, Unwound, Interpreted, Waits,
              Inners, Inside
<1>10. QED
  BY <1>1, <1>2, <1>3, <1>4, <1>5, <1>6, <1>7, <1>8, <1>9, InterpretKeeps DEF Next

\* For stacks of any depth and any number of calls, aborts, tail jumps,
\* interrupts and interpreted routines, those entered by a jump that pop what
\* their caller pushed or abort it included: whenever compiled code goes on
\* after a call or an interrupt, the Z80's RET went there and sp is what it was.
THEOREM ReturnsAgree == ASSUME Tame PROVE Spec => ResumesWhereZ80Does
<1>1. Init => CallInv
  <2>1. SUFFICES ASSUME Init PROVE CallInv
    OBVIOUS
  <2>2. Len(z) = 0 /\ Len(frames) = 0 /\ mode = "run" /\ ~hyb.pend
    BY <2>1 DEF Init, Idle
  <2>3. 1 .. 0 = {}
    OBVIOUS
  <2>4. QED BY <2>2, <2>3
            DEF CallInv, Serials, Placed, IrqKept, Unwound, Interpreted, Inners
<1>2. TypeOK /\ CallInv /\ [Next]_vars => CallInv'
  BY CallStep
<1>3. TypeOK /\ CallInv /\ [Next]_vars =>
        [Resume => Last(frames).id = zpc /\ Sp = Last(frames).sp]_vars
  BY ResumesRight
<1>4. QED BY <1>1, <1>2, <1>3, TypeCorrect, PTL DEF Spec, ResumesWhereZ80Does
=============================================================================
