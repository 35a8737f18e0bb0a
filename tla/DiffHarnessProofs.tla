------------------------- MODULE DiffHarnessProofs -------------------------
(***************************************************************************)
(* For every routine of any instructions and length, every mistranslation   *)
(* and any length of trace: a test leaves the program as it was, its        *)
(* verdict is about the routine alone, and the instruction a traced         *)
(* divergence names is the mistranslated one.                               *)
(***************************************************************************)
EXTENDS DiffHarness, DataLemmas, FiniteSetTheorems

-----------------------------------------------------------------------------
(* Instructions.                                                            *)

Machine == [a : 0 .. 3, ram : 0 .. 3, bank : 0 .. 1, reg : 0 .. 1, int : BOOLEAN,
            iff : BOOLEAN, psg : 0 .. 1, sp : Int, cyc : Nat,
            deadline : {"line", "never"}]
Bug == {b \in [at : Nat, in : {"none", "reg", "ram", "cyc"}] : b.in = "none" <=> b.at = 0}
Engines == {"native", "super"}

\* The same but for the PSG's registers and the deadline.
Same(s, t) ==
  /\ s.a = t.a /\ s.ram = t.ram /\ s.bank = t.bank /\ s.reg = t.reg
  /\ s.int = t.int /\ s.iff = t.iff /\ s.sp = t.sp /\ s.cyc = t.cyc

\* An instruction makes a machine of a machine and leaves its deadline.
LEMMA GoodFacts ==
  ASSUME NEW op, NEW s \in Machine
  PROVE  /\ Good(op, s) \in Machine /\ Good(op, s).deadline = s.deadline
         /\ Good(op, s).cyc = s.cyc
         /\ Good(op, s).sp = s.sp + (IF op \in {"pop", "ret"} \/ (op = "retz" /\ s.a = 0) THEN 1
                                     ELSE IF op = "push" THEN -1 ELSE 0)
<1>1. /\ s.a \in 0 .. 3 /\ s.ram \in 0 .. 3 /\ s.bank \in 0 .. 1 /\ s.sp \in Int
      /\ s.a % 2 \in 0 .. 1 /\ (s.a + 1) % 4 \in 0 .. 3 /\ s.bank \in 0 .. 3
  BY DEF Machine
<1>2. CASE op \in {"inc", "store", "load"}
  BY <1>1, <1>2 DEF Good, Machine
<1>a. CASE op = "page"
  <2> DEFINE v == s.a % 2
  <2>1. Good(op, s) = [s EXCEPT !.bank = v] /\ v \in 0 .. 1
    BY <1>1, <1>a DEF Good
  <2> HIDE DEF v
  <2>2. QED BY <1>1, <1>a, <2>1 DEF Machine
<1>b. CASE op = "banked"
  <2> DEFINE v == s.bank
  <2>1. Good(op, s) = [s EXCEPT !.a = v] /\ v \in 0 .. 3
    BY <1>1, <1>b DEF Good
  <2> HIDE DEF v
  <2>2. QED BY <1>1, <1>b, <2>1 DEF Machine
<1>c. CASE op \in {"vdp", "psg"}
  <2> DEFINE v == s.a % 2
  <2>1. Good(op, s) \in {[s EXCEPT !.reg = v], [s EXCEPT !.psg = v]} /\ v \in 0 .. 1
    BY <1>1, <1>c DEF Good
  <2> HIDE DEF v
  <2>2. QED BY <1>1, <1>c, <2>1 DEF Machine
<1>3. CASE op = "status"
  <2> DEFINE v == IF s.int THEN 1 ELSE 0
             t == [s EXCEPT !.a = v, !.int = FALSE]
  <2>1. Good(op, s) = t /\ v \in 0 .. 3
    BY <1>3 DEF Good
  <2> HIDE DEF v
  <2>2. t \in Machine /\ t.deadline = s.deadline /\ t.cyc = s.cyc /\ t.sp = s.sp
    BY <2>1 DEF Machine
  <2>3. s.sp + 0 = s.sp
    BY <1>1
  <2> HIDE DEF t
  <2>4. QED BY <1>3, <2>1, <2>2, <2>3
<1>d. CASE op = "rep"
  <2> DEFINE t == [s EXCEPT !.a = 0, !.ram = 0]
  <2>1. Good(op, s) = t /\ 0 \in 0 .. 3
    BY <1>d DEF Good
  <2>2. t \in Machine /\ t.deadline = s.deadline /\ t.cyc = s.cyc /\ t.sp = s.sp
    BY <2>1 DEF Machine
  <2>3. s.sp + 0 = s.sp
    BY <1>1
  <2> HIDE DEF t
  <2>4. QED BY <1>d, <2>1, <2>2, <2>3
<1>4. CASE op \in {"push", "pop", "retz", "ret"}
  BY <1>1, <1>4 DEF Good, Machine
<1>5. CASE op \notin {"inc", "store", "load", "page", "banked", "vdp", "status", "psg", "rep",
                      "push", "pop", "retz", "ret"}
  BY <1>1, <1>5 DEF Good, Machine
<1>6. QED BY <1>2, <1>a, <1>b, <1>c, <1>3, <1>d, <1>4, <1>5

\* The same of an instruction of a compiled or an interpreted routine.
LEMMA EffectFacts ==
  ASSUME NEW engine, NEW p, NEW b \in Bug, NEW i \in Nat \ {0}, NEW s \in Machine
  PROVE  /\ Effect(engine, p, b, i, s) \in Machine
         /\ Effect(engine, p, b, i, s).deadline = s.deadline
         /\ Effect(engine, p, b, i, s).sp = Good(Op(p, i), s).sp
<1> DEFINE g == Good(Op(p, i), s)
           t == [g EXCEPT !.cyc = @ + 1]
<1>1. g \in Machine /\ g.deadline = s.deadline
  BY GoodFacts
<1> HIDE DEF g
<1>2. t \in Machine /\ t.deadline = s.deadline /\ t.sp = g.sp /\ t.a \in 0 .. 3 /\ t.ram \in 0 .. 3
      /\ t.cyc \in Nat
  BY <1>1 DEF Machine
<1>3. Effect(engine, p, b, i, s)
        = IF engine # "native" \/ b.at # i THEN t
          ELSE CASE b.in = "reg" -> [t EXCEPT !.a = (@ + 1) % 4]
                 [] b.in = "ram" -> [t EXCEPT !.ram = (@ + 1) % 4]
                 [] b.in = "cyc" -> [t EXCEPT !.cyc = @ + 1]
  BY DEF Effect, g
<1>4. b.at = i => b.in \in {"reg", "ram", "cyc"}
  BY DEF Bug
<1> HIDE DEF t
<1>5. CASE engine # "native" \/ b.at # i
  BY <1>2, <1>3, <1>5 DEF g
<1>6. CASE engine = "native" /\ b.at = i
  <2>1. (t.a + 1) % 4 \in 0 .. 3 /\ (t.ram + 1) % 4 \in 0 .. 3 /\ t.cyc + 1 \in Nat
    BY <1>2
  <2>2. CASE b.in = "reg"
    BY <1>2, <1>3, <1>6, <2>1, <2>2 DEF Machine, g
  <2>3. CASE b.in = "ram"
    BY <1>2, <1>3, <1>6, <2>1, <2>3 DEF Machine, g
  <2>4. CASE b.in = "cyc"
    BY <1>2, <1>3, <1>6, <2>1, <2>4 DEF Machine, g
  <2>5. QED BY <1>4, <1>6, <2>2, <2>3, <2>4
<1>7. QED BY <1>5, <1>6

\* The PSG's registers and the deadline do not matter to an instruction.
LEMMA EffectSame ==
  ASSUME NEW engine, NEW p, NEW b \in Bug, NEW i \in Nat \ {0},
         NEW s \in Machine, NEW t \in Machine, Same(s, t)
  PROVE  /\ Same(Effect(engine, p, b, i, s), Effect(engine, p, b, i, t))
         /\ Returns(p, i, s) <=> Returns(p, i, t)
<1> DEFINE op == Op(p, i)
           g == Good(op, s)
           h == Good(op, t)
<1>1. g \in Machine /\ h \in Machine
  BY GoodFacts
<1>2. Same(g, h)
  <2>1. CASE op \in {"inc", "store", "load", "page", "banked"}
    BY <2>1 DEF Good, Machine, Same
  <2>2. CASE op \in {"vdp", "status", "psg", "rep"}
    BY <2>2 DEF Good, Machine, Same
  <2>3. CASE op \in {"push", "pop", "retz", "ret"}
    BY <2>3 DEF Good, Machine, Same
  <2>4. CASE op \notin {"inc", "store", "load", "page", "banked", "vdp", "status", "psg", "rep",
                        "push", "pop", "retz", "ret"}
    BY <2>4 DEF Good, Machine, Same
  <2>5. QED BY <2>1, <2>2, <2>3, <2>4
<1> HIDE DEF g, h
<1>3. Same(Effect(engine, p, b, i, s), Effect(engine, p, b, i, t))
  <2>1. b.at = i => b.in \in {"reg", "ram", "cyc"}
    BY DEF Bug
  <2>2. CASE engine # "native" \/ b.at # i
    BY <1>1, <1>2, <2>2 DEF Effect, Machine, Same, g, h
  <2>3. CASE engine = "native" /\ b.at = i /\ b.in = "reg"
    BY <1>1, <1>2, <2>3 DEF Effect, Machine, Same, g, h
  <2>4. CASE engine = "native" /\ b.at = i /\ b.in = "ram"
    BY <1>1, <1>2, <2>4 DEF Effect, Machine, Same, g, h
  <2>5. CASE engine = "native" /\ b.at = i /\ b.in = "cyc"
    BY <1>1, <1>2, <2>5 DEF Effect, Machine, Same, g, h
  <2>6. QED BY <2>1, <2>2, <2>3, <2>4, <2>5
<1>4. Returns(p, i, s) <=> Returns(p, i, t)
  BY DEF Returns, Same
<1>5. QED BY <1>3, <1>4

\* A run goes from each state to the next by an instruction.
LEMMA PathFacts ==
  ASSUME NEW engine, NEW p \in Seq(Ops), NEW b \in Bug, NEW s \in Machine
  PROVE  /\ Len(p) \in Nat
         /\ Path(engine, p, b, s) \in [0 .. Len(p) -> Machine]
         /\ Path(engine, p, b, s)[0] = s
         /\ \A n \in 1 .. Len(p) :
              Path(engine, p, b, s)[n] = Effect(engine, p, b, n, Path(engine, p, b, s)[n - 1])
<1> DEFINE len == Len(p)
           H   == [n \in 1 .. len |-> [t \in Machine |-> Effect(engine, p, b, n, t)]]
           Rec(g) == g = [n \in 0 .. len |->
                            IF n = 0 THEN s ELSE Effect(engine, p, b, n, g[n - 1])]
           at == Path(engine, p, b, s)
<1>1. len \in Nat
  OBVIOUS
<1> HIDE DEF len
<1>2. Extends(len, Machine, H)
  BY <1>1, EffectFacts DEF Extends
<1>3. PICK g : Chain(g, len, Machine, s, H)
  <2> HIDE DEF H
  <2>1. QED BY <1>1, <1>2, Chaining
<1>4. /\ g \in [0 .. len -> Machine] /\ g[0] = s
      /\ \A n \in 1 .. len : g[n] = Effect(engine, p, b, n, g[n - 1])
  <2>1. /\ g \in [0 .. len -> Machine] /\ g[0] = s
        /\ \A n \in 1 .. len : g[n] = H[n][g[n - 1]]
    BY <1>3 DEF Chain
  <2>2. \A n \in 1 .. len : n - 1 \in 0 .. len
    BY <1>1
  <2>3. QED BY <2>1, <2>2
<1>5. Rec(g)
  <2> DEFINE v(n) == IF n = 0 THEN s ELSE Effect(engine, p, b, n, g[n - 1])
  <2>1. \A n \in 0 .. len : g[n] = v(n)
    <3>1. \A n \in 0 .. len : n = 0 \/ n \in 1 .. len
      BY <1>1
    <3>2. QED BY <1>4, <3>1
  <2> HIDE DEF v
  <2>2. g = [n \in 0 .. len |-> v(n)]
    BY <1>4, <2>1
  <2>3. QED BY <2>2 DEF v
<1>6. at = CHOOSE h : Rec(h)
  BY DEF Path, len
<1>7. Rec(at)
  BY <1>5, <1>6
<1> HIDE DEF at
<1>8. at[0] = s
  BY <1>1, <1>7
<1>9. ASSUME NEW n \in 1 .. len PROVE at[n] = Effect(engine, p, b, n, at[n - 1])
  <2>1. n \in 0 .. len /\ n # 0
    BY <1>1
  <2>2. QED BY <1>7, <2>1
<1> DEFINE T == {n \in 0 .. len : at[n] \in Machine}
<1>10. \A n \in 0 .. len : n \in T
  <2>1. 0 \in T
    BY <1>1, <1>8
  <2>2. ASSUME NEW n \in 0 .. len - 1, n \in T PROVE n + 1 \in T
    <3>1. n + 1 \in 1 .. len /\ n + 1 \in 0 .. len /\ n + 1 - 1 = n /\ n + 1 \in Nat \ {0}
      BY <1>1
    <3>2. at[n + 1] = Effect(engine, p, b, n + 1, at[n])
      BY <1>9, <3>1
    <3>3. at[n] \in Machine
      BY <2>2
    <3>4. QED BY <3>1, <3>2, <3>3, EffectFacts
  <2> HIDE DEF T
  <2>3. QED BY <1>1, <2>1, <2>2, Climb
<1>11. at \in [0 .. len -> Machine]
  <2>1. DOMAIN at = 0 .. len /\ at = [n \in DOMAIN at |-> at[n]]
    BY <1>7
  <2>2. QED BY <1>10, <2>1
<1>12. QED BY <1>1, <1>8, <1>9, <1>11 DEF at, len

\* Two runs from the same state agree up to the mistranslated instruction.
LEMMA PathsAgree ==
  ASSUME NEW p \in Seq(Ops), NEW b \in Bug, NEW s \in Machine
  PROVE  \A n \in 0 .. Len(p) :
           b.at = 0 \/ n < b.at => Path("native", p, b, s)[n] = Path("super", p, b, s)[n]
<1> DEFINE N == Path("native", p, b, s)
           I == Path("super", p, b, s)
           T == {n \in 0 .. Len(p) : b.at = 0 \/ n < b.at => N[n] = I[n]}
<1>1. Len(p) \in Nat /\ b.at \in Nat
  BY DEF Bug
<1>2. /\ N[0] = s /\ \A n \in 1 .. Len(p) : N[n] = Effect("native", p, b, n, N[n - 1])
      /\ I[0] = s /\ \A n \in 1 .. Len(p) : I[n] = Effect("super", p, b, n, I[n - 1])
  BY PathFacts
<1> HIDE DEF N, I
<1>3. 0 \in T
  BY <1>1, <1>2
<1>4. ASSUME NEW n \in 0 .. Len(p) - 1, n \in T PROVE n + 1 \in T
  <2>1. n + 1 \in 1 .. Len(p) /\ n + 1 \in 0 .. Len(p) /\ n + 1 - 1 = n /\ n \in Nat
    BY <1>1
  <2>2. SUFFICES ASSUME b.at = 0 \/ n + 1 < b.at PROVE N[n + 1] = I[n + 1]
    BY <2>1
  <2>3. N[n] = I[n] /\ b.at # n + 1
    BY <1>1, <1>4, <2>1, <2>2
  <2>4. N[n + 1] = Effect("native", p, b, n + 1, N[n]) /\ I[n + 1] = Effect("super", p, b, n + 1, I[n])
    BY <1>2, <2>1
  <2>5. QED BY <2>3, <2>4 DEF Effect
<1>5. \A n \in 0 .. Len(p) : n \in T
  <2> HIDE DEF T
  <2>1. QED BY <1>1, <1>3, <1>4, Climb
<1>6. QED BY <1>5 DEF N, I

\* A mistranslated register or time shows after its instruction.
LEMMA PathsPart ==
  ASSUME NEW p \in Seq(Ops), NEW b \in Bug, NEW s \in Machine,
         b.in \in {"reg", "cyc"}, b.at \in 1 .. Len(p)
  PROVE  \/ Path("native", p, b, s)[b.at].a # Path("super", p, b, s)[b.at].a
         \/ Path("native", p, b, s)[b.at].cyc # Path("super", p, b, s)[b.at].cyc
<1> DEFINE N == Path("native", p, b, s)
           I == Path("super", p, b, s)
           g == Good(Op(p, b.at), I[b.at - 1])
<1>1. b.at \in Nat /\ b.at - 1 \in 0 .. Len(p) /\ b.at - 1 < b.at
  OBVIOUS
<1>2. N[b.at - 1] = I[b.at - 1] /\ I[b.at - 1] \in Machine
  BY <1>1, PathsAgree, PathFacts
<1>3. /\ N[b.at] = Effect("native", p, b, b.at, I[b.at - 1])
      /\ I[b.at] = Effect("super", p, b, b.at, I[b.at - 1])
  <2>1. \A n \in 1 .. Len(p) : /\ N[n] = Effect("native", p, b, n, N[n - 1])
                              /\ I[n] = Effect("super", p, b, n, I[n - 1])
    BY PathFacts
  <2>2. N[b.at] = Effect("native", p, b, b.at, N[b.at - 1])
        /\ I[b.at] = Effect("super", p, b, b.at, I[b.at - 1])
    BY <2>1, Zenon
  <2>3. QED BY <1>2, <2>1, <2>2
<1>4. g \in Machine
  BY <1>2, GoodFacts
<1> HIDE DEF N, I
<1>5. I[b.at] = [g EXCEPT !.cyc = @ + 1]
  BY <1>3 DEF Effect
<1> HIDE DEF g
<1>6. I[b.at].a = g.a /\ I[b.at].cyc = g.cyc + 1 /\ g.a \in 0 .. 3 /\ g.cyc \in Nat
  BY <1>4, <1>5 DEF Machine
<1>7. CASE b.in = "reg"
  <2>1. N[b.at].a = (g.a + 1) % 4
    BY <1>3, <1>4, <1>7 DEF Effect, Machine, g
  <2>2. (g.a + 1) % 4 # g.a
    BY <1>6
  <2>3. QED BY <1>6, <2>1, <2>2 DEF N, I
<1>8. CASE b.in = "cyc"
  <2>1. N[b.at].cyc = g.cyc + 1 + 1
    BY <1>3, <1>4, <1>8 DEF Effect, Machine, g
  <2>2. QED BY <1>6, <2>1 DEF N, I
<1>9. QED BY <1>7, <1>8

\* Where the first return is, the run ends.
LEMMA FinalFacts ==
  ASSUME NEW engine, NEW p \in Seq(Ops), NEW b, NEW s,
         NEW i \in 1 .. Len(p) + 1, Returns(p, i, Path(engine, p, b, s)[i - 1]),
         \A k \in 1 .. i - 1 : ~ Returns(p, k, Path(engine, p, b, s)[k - 1])
  PROVE  Final(engine, p, b, s) = Effect(engine, p, b, i, Path(engine, p, b, s)[i - 1])
<1> DEFINE at == Path(engine, p, b, s)
           R  == {k \in 1 .. Len(p) + 1 : Returns(p, k, at[k - 1])}
<1>1. Final(engine, p, b, s) = Effect(engine, p, b, Min(R), at[Min(R) - 1])
  BY DEF Final
<1> HIDE DEF at
<1>2. i \in R /\ \A k \in R : i <= k
  BY DEF at
<1>3. \A k \in R : k \in Nat
  OBVIOUS
<1> HIDE DEF R
<1>4. Min(R) = i
  <2>1. ASSUME NEW x \in R, \A y \in R : x <= y PROVE x = i
    BY <2>1, <1>2, <1>3
  <2>2. Min(R) = CHOOSE x \in R : \A y \in R : x <= y
    BY DEF Min
  <2>3. Min(R) \in R /\ \A y \in R : Min(R) <= y
    BY <1>2, <2>2
  <2>4. QED BY <2>1, <2>3
<1>5. QED BY <1>1, <1>4 DEF at

-----------------------------------------------------------------------------
(* The stack.                                                               *)

\* How many of the first i instructions are op.
Count(p, op, i) == Cardinality({k \in 1 .. i : p[k] = op})

\* The next one counts if it is op.
LEMMA Counted ==
  ASSUME NEW p, NEW op, NEW i \in Nat \ {0}
  PROVE  /\ Count(p, op, i) \in Nat /\ Count(p, op, i - 1) \in Nat
         /\ Count(p, op, i) = Count(p, op, i - 1) + (IF p[i] = op THEN 1 ELSE 0)
<1> DEFINE C == {k \in 1 .. i - 1 : p[k] = op}
           D == {k \in 1 .. i : p[k] = op}
<1>1. IsFiniteSet(1 .. i - 1) /\ C \subseteq 1 .. i - 1
  BY FS_Interval
<1>2. IsFiniteSet(C)
  BY <1>1, FS_Subset
<1>3. i \notin C /\ D = IF p[i] = op THEN C \cup {i} ELSE C
  OBVIOUS
<1>4. Count(p, op, i) = Cardinality(D) /\ Count(p, op, i - 1) = Cardinality(C)
  BY DEF Count
<1> HIDE DEF C, D
<1>5. Cardinality(C) \in Nat
  BY <1>2, FS_CardinalityType
<1>6. Cardinality(C \cup {i}) = Cardinality(C) + 1
  BY <1>2, <1>3, FS_AddElement
<1>7. QED BY <1>3, <1>4, <1>5, <1>6

\* Each instruction moves the stack's level.
LEMMA LevelStep ==
  ASSUME NEW p, NEW i \in Nat \ {0}
  PROVE  /\ Level(p, i) \in Int /\ Level(p, i - 1) \in Int
         /\ Level(p, i) = Level(p, i - 1) + (IF p[i] = "pop" THEN 1
                                             ELSE IF p[i] = "push" THEN -1 ELSE 0)
<1>1. \A j : Level(p, j) = Count(p, "pop", j) - Count(p, "push", j)
  BY DEF Level, Count
<1>2. QED BY <1>1, Counted

\* Before the first instruction it is the entry's.
LEMMA LevelZero == \A p : Level(p, 0) = 0
<1>1. ASSUME NEW p, NEW op PROVE Cardinality({k \in 1 .. 0 : p[k] = op}) = 0
  <2>1. {k \in 1 .. 0 : p[k] = op} = {}
    OBVIOUS
  <2>2. QED BY <2>1, FS_EmptySet
<1>2. QED BY <1>1 DEF Level

-----------------------------------------------------------------------------
(* The traces.                                                              *)

Entries == [pc : Nat, a : 0 .. 3, sp : Int, cyc : Nat]

\* The entry of instruction i, about to be executed from s.
Ent(i, s) == [pc |-> i, a |-> s.a, sp |-> s.sp, cyc |-> s.cyc]

\* A trace of compiled code: one entry for each instruction.
Listed(l, at) == \A j \in 1 .. Len(l) : l[j] = Ent(j, at[j - 1])

\* A trace of n interpreted instructions: some have several entries, of which the
\* first is of the state before the instruction.
Traced(l, at, n) ==
  /\ \A j \in 1 .. Len(l) : l[j].pc \in 1 .. n
  /\ Len(l) > 0 => l[1] = Ent(1, at[0])
  /\ \A j \in 2 .. Len(l) :
       \/ l[j].pc = l[j - 1].pc
       \/ l[j].pc = l[j - 1].pc + 1 /\ l[j] = Ent(l[j].pc, at[l[j].pc - 1])
  /\ Len(l) < TraceMax => \/ n = 0 /\ Len(l) = 0
                          \/ Len(l) > 0 /\ l[Len(l)].pc = n

\* A trace that is full takes no more.
LEMMA PutFacts ==
  ASSUME NEW l \in Seq(Entries), NEW e \in Entries
  PROVE  /\ Put(l, e) \in Seq(Entries) /\ Len(l) \in Nat /\ TraceMax \in Nat
         /\ Len(l) < TraceMax =>
              /\ Len(Put(l, e)) = Len(l) + 1
              /\ \A i \in 1 .. Len(l) : Put(l, e)[i] = l[i]
              /\ Put(l, e)[Len(l) + 1] = e
         /\ ~ (Len(l) < TraceMax) => Put(l, e) = l
<1>1. TraceMax \in Nat
  BY DiffAssumption
<1>2. QED BY <1>1, AppendFacts DEF Put

\* An entry more, if the trace has room.
LEMMA ListedStep ==
  ASSUME NEW l \in Seq(Entries), NEW at, NEW n \in Nat, Ent(n + 1, at[n]) \in Entries,
         Listed(l, at), Len(l) <= n, Len(l) < TraceMax => Len(l) = n
  PROVE  /\ Listed(Put(l, Ent(n + 1, at[n])), at) /\ Len(Put(l, Ent(n + 1, at[n]))) <= n + 1
         /\ Len(Put(l, Ent(n + 1, at[n]))) < TraceMax
              => Len(Put(l, Ent(n + 1, at[n]))) = n + 1
<1> DEFINE e == Ent(n + 1, at[n])
           k == Put(l, e)
<1>1. /\ k \in Seq(Entries) /\ Len(l) \in Nat /\ TraceMax \in Nat
      /\ Len(l) < TraceMax => /\ Len(k) = Len(l) + 1 /\ k[Len(l) + 1] = e
                              /\ \A i \in 1 .. Len(l) : k[i] = l[i]
      /\ ~ (Len(l) < TraceMax) => k = l
  BY PutFacts
<1>2. e = Ent(n + 1, at[n]) /\ n + 1 - 1 = n
  OBVIOUS
<1> HIDE DEF e, k
<1>3. CASE Len(l) < TraceMax
  <2>1. Len(k) = n + 1 /\ k[n + 1] = e /\ \A i \in 1 .. n : k[i] = l[i]
    BY <1>1, <1>3
  <2>2. \A j \in 1 .. n + 1 : j \in 1 .. n \/ j = n + 1
    OBVIOUS
  <2>3. Listed(k, at)
    BY <2>1, <2>2, <1>2, <1>3 DEF Listed
  <2>4. QED BY <2>1, <2>3 DEF k, e
<1>4. CASE ~ (Len(l) < TraceMax)
  BY <1>1, <1>4 DEF k, e
<1>5. QED BY <1>3, <1>4

\* The same of an interpreted instruction's first entry.
LEMMA TracedStep ==
  ASSUME NEW l \in Seq(Entries), NEW at, NEW n \in Nat, Ent(n + 1, at[n]) \in Entries,
         Traced(l, at, n)
  PROVE  Traced(Put(l, Ent(n + 1, at[n])), at, n + 1)
<1> DEFINE e == Ent(n + 1, at[n])
           k == Put(l, e)
<1>1. /\ k \in Seq(Entries) /\ Len(l) \in Nat /\ TraceMax \in Nat
      /\ Len(l) < TraceMax => /\ Len(k) = Len(l) + 1 /\ k[Len(l) + 1] = e
                              /\ \A i \in 1 .. Len(l) : k[i] = l[i]
      /\ ~ (Len(l) < TraceMax) => k = l
  BY PutFacts
<1>2. e = Ent(n + 1, at[n]) /\ e.pc = n + 1 /\ n + 1 - 1 = n
      /\ \A j \in 1 .. Len(l) : l[j].pc \in 1 .. n /\ l[j].pc \in 1 .. n + 1
  BY DEF Ent, Traced
<1> HIDE DEF e, k
<1>3. CASE Len(l) < TraceMax
  <2>1. \/ n = 0 /\ Len(l) = 0
        \/ Len(l) > 0 /\ l[Len(l)].pc = n
    BY <1>3 DEF Traced
  <2>2. \A j \in 1 .. Len(k) : k[j].pc \in 1 .. n + 1
    <3>1. TAKE j \in 1 .. Len(k)
    <3>2. j \in 1 .. Len(l) \/ j = Len(l) + 1
      BY <1>1, <1>3
    <3>3. QED BY <1>1, <1>2, <1>3, <3>2
  <2>3. k[1] = Ent(1, at[0])
    <3>1. CASE Len(l) = 0
      <4>1. n = 0 /\ k[1] = e
        BY <2>1, <3>1, <1>1, <1>3
      <4>2. QED BY <4>1, <1>2
    <3>2. CASE Len(l) > 0
      <4>1. 1 \in 1 .. Len(l)
        BY <3>2, <1>1
      <4>2. QED BY <4>1, <3>2, <1>1, <1>3 DEF Traced
    <3>3. QED BY <3>1, <3>2, <1>1
  <2>4. ASSUME NEW j \in 2 .. Len(k)
        PROVE  \/ k[j].pc = k[j - 1].pc
               \/ k[j].pc = k[j - 1].pc + 1 /\ k[j] = Ent(k[j].pc, at[k[j].pc - 1])
    <3>1. CASE j \in 2 .. Len(l)
      <4>1. j \in 1 .. Len(l) /\ j - 1 \in 1 .. Len(l)
        BY <3>1, <1>1
      <4>2. QED BY <4>1, <3>1, <1>1, <1>3 DEF Traced
    <3>2. CASE j = Len(l) + 1
      <4>1. Len(l) \in 1 .. Len(l) /\ j - 1 = Len(l) /\ Len(l) > 0
        BY <3>2, <1>1
      <4>2. k[j - 1].pc = n /\ k[j] = e
        BY <4>1, <3>2, <2>1, <1>1, <1>3
      <4>3. QED BY <4>2, <1>2
    <3>3. QED BY <3>1, <3>2, <1>1, <1>3
  <2>5. Len(k) > 0 /\ k[Len(k)].pc = n + 1
    BY <1>1, <1>2, <1>3
  <2>6. QED BY <2>2, <2>3, <2>4, <2>5 DEF Traced, k, e
<1>4. CASE ~ (Len(l) < TraceMax)
  <2>1. Traced(l, at, n + 1)
    BY <1>2, <1>4 DEF Traced
  <2>2. QED BY <2>1, <1>1, <1>4 DEF k, e
<1>5. QED BY <1>3, <1>4

\* A repeated instruction's entry is in the same logical one.
LEMMA TracedAgain ==
  ASSUME NEW l \in Seq(Entries), NEW at, NEW n \in Nat \ {0}, NEW e \in Entries,
         Traced(l, at, n), e.pc = n
  PROVE  Traced(Put(l, e), at, n)
<1> DEFINE k == Put(l, e)
<1>1. /\ k \in Seq(Entries) /\ Len(l) \in Nat /\ TraceMax \in Nat
      /\ Len(l) < TraceMax => /\ Len(k) = Len(l) + 1 /\ k[Len(l) + 1] = e
                              /\ \A i \in 1 .. Len(l) : k[i] = l[i]
      /\ ~ (Len(l) < TraceMax) => k = l
  BY PutFacts
<1> HIDE DEF k
<1>2. CASE Len(l) < TraceMax
  <2>1. Len(l) > 0 /\ l[Len(l)].pc = n
    BY <1>2 DEF Traced
  <2>2. \A j \in 1 .. Len(k) : k[j].pc \in 1 .. n
    <3>1. TAKE j \in 1 .. Len(k)
    <3>2. j \in 1 .. Len(l) \/ j = Len(l) + 1
      BY <1>1, <1>2
    <3>3. n \in 1 .. n
      OBVIOUS
    <3>4. QED BY <1>1, <1>2, <3>2, <3>3 DEF Traced
  <2>3. k[1] = Ent(1, at[0])
    <3>1. 1 \in 1 .. Len(l)
      BY <2>1, <1>1
    <3>2. QED BY <3>1, <2>1, <1>1, <1>2 DEF Traced
  <2>4. ASSUME NEW j \in 2 .. Len(k)
        PROVE  \/ k[j].pc = k[j - 1].pc
               \/ k[j].pc = k[j - 1].pc + 1 /\ k[j] = Ent(k[j].pc, at[k[j].pc - 1])
    <3>1. CASE j \in 2 .. Len(l)
      <4>1. j \in 1 .. Len(l) /\ j - 1 \in 1 .. Len(l)
        BY <3>1, <1>1
      <4>2. QED BY <4>1, <3>1, <1>1, <1>2 DEF Traced
    <3>2. CASE j = Len(l) + 1
      <4>1. Len(l) \in 1 .. Len(l) /\ j - 1 = Len(l)
        BY <3>2, <2>1, <1>1
      <4>2. QED BY <4>1, <3>2, <2>1, <1>1, <1>2
    <3>3. QED BY <3>1, <3>2, <1>1, <1>2
  <2>5. Len(k) > 0 /\ k[Len(k)].pc = n
    BY <1>1, <1>2
  <2>6. QED BY <2>2, <2>3, <2>4, <2>5 DEF Traced, k
<1>3. CASE ~ (Len(l) < TraceMax)
  BY <1>1, <1>3 DEF k
<1>4. QED BY <1>2, <1>3

\* The entries of compiled code are those of as many instructions.
LEMMA ListedTraced ==
  ASSUME NEW l \in Seq(Entries), NEW at, Listed(l, at)
  PROVE  Traced(l, at, Len(l))
<1>1. Len(l) \in Nat
  OBVIOUS
<1>2. \A j \in 1 .. Len(l) : l[j] = Ent(j, at[j - 1]) /\ l[j].pc = j
  BY DEF Listed, Ent
<1>3. Len(l) > 0 => l[1] = Ent(1, at[0]) /\ l[Len(l)].pc = Len(l)
  <2>1. Len(l) > 0 => 1 \in 1 .. Len(l) /\ Len(l) \in 1 .. Len(l) /\ 1 - 1 = 0
    BY <1>1
  <2>2. QED BY <2>1, <1>2
<1>4. ASSUME NEW j \in 2 .. Len(l)
      PROVE  l[j].pc = l[j - 1].pc + 1 /\ l[j] = Ent(l[j].pc, at[l[j].pc - 1])
  <2>1. j \in 1 .. Len(l) /\ j - 1 \in 1 .. Len(l) /\ j - 1 + 1 = j
    BY <1>1
  <2>2. QED BY <2>1, <1>2
<1>5. Len(l) = 0 \/ Len(l) > 0
  BY <1>1
<1>6. QED BY <1>1, <1>2, <1>3, <1>4, <1>5 DEF Traced

\* A logical instruction's number is its place in the routine.
LEMMA StepOf ==
  ASSUME NEW l \in Seq(Entries), NEW at, NEW n, Traced(l, at, n)
  PROVE  \A j \in 1 .. Len(l) : Step(l, j) = l[j].pc
<1> DEFINE U(j) == {h \in Heads(l) : h <= j}
           T == {j \in 0 .. Len(l) : Cardinality(U(j)) = IF j = 0 THEN 0 ELSE l[j].pc}
<1>1. Len(l) \in Nat /\ DOMAIN l = 1 .. Len(l) /\ Heads(l) \subseteq 1 .. Len(l)
      /\ \A j \in 1 .. Len(l) : l[j].pc \in Nat
  <2>1. Len(l) \in Nat /\ DOMAIN l = 1 .. Len(l) /\ \A j \in 1 .. Len(l) : l[j] \in Entries
    OBVIOUS
  <2>2. QED BY <2>1 DEF Heads, Entries
<1>2. 0 \in T
  <2>1. U(0) = {} /\ 0 \in 0 .. Len(l)
    BY <1>1
  <2>2. Cardinality({}) = 0
    BY FS_EmptySet
  <2> HIDE DEF U
  <2>3. QED BY <2>1, <2>2
<1>3. ASSUME NEW j \in 0 .. Len(l) - 1, j \in T PROVE j + 1 \in T
  <2>1. j \in Nat /\ j + 1 \in 1 .. Len(l) /\ j + 1 \in 0 .. Len(l) /\ j + 1 # 0 /\ j + 1 - 1 = j
    BY <1>1
  <2>2. IsFiniteSet(U(j)) /\ j + 1 \notin U(j)
    <3>1. U(j) \subseteq 1 .. Len(l) /\ IsFiniteSet(1 .. Len(l))
      BY <1>1, FS_Interval
    <3>2. QED BY <3>1, <2>1, FS_Subset
  <2>3. Cardinality(U(j)) = IF j = 0 THEN 0 ELSE l[j].pc
    BY <1>3
  <2>4. CASE j + 1 \in Heads(l)
    <3>1. U(j + 1) = U(j) \cup {j + 1}
      BY <1>1, <2>1, <2>4
    <3>2. Cardinality(U(j + 1)) = Cardinality(U(j)) + 1
      BY <3>1, <2>2, FS_AddElement
    <3>3. l[j + 1].pc = (IF j = 0 THEN 0 ELSE l[j].pc) + 1
      <4>1. CASE j = 0
        <5>1. l[1].pc = 1
          BY <2>1, <4>1, <1>1 DEF Traced, Ent
        <5>2. QED BY <4>1, <5>1
      <4>2. CASE j # 0
        <5>1. j + 1 \in 2 .. Len(l) /\ l[j + 1].pc # l[j].pc
          BY <2>1, <2>4, <4>2 DEF Heads
        <5>2. QED BY <5>1, <2>1, <4>2 DEF Traced
      <4>3. QED BY <4>1, <4>2
    <3>4. QED BY <2>1, <2>3, <3>2, <3>3
  <2>5. CASE j + 1 \notin Heads(l)
    <3>1. U(j + 1) = U(j)
      BY <1>1, <2>1, <2>5
    <3>2. j # 0 /\ l[j + 1].pc = l[j].pc
      BY <1>1, <2>1, <2>5 DEF Heads
    <3>3. QED BY <2>1, <2>3, <3>1, <3>2
  <2>6. QED BY <2>4, <2>5
<1>4. \A j \in 0 .. Len(l) : j \in T
  <2> HIDE DEF T
  <2>1. QED BY <1>1, <1>2, <1>3, Climb
<1>5. ASSUME NEW j \in 1 .. Len(l) PROVE Step(l, j) = l[j].pc
  <2>1. j \in T /\ j # 0
    BY <1>4, <1>1
  <2>2. QED BY <2>1 DEF Step
<1>6. QED BY <1>5

\* A logical instruction's first entry is of the state before it.
LEMMA HeadEntry ==
  ASSUME NEW l \in Seq(Entries), NEW at, NEW n, Traced(l, at, n), NEW h \in Heads(l)
  PROVE  h \in 1 .. Len(l) /\ l[h] = Ent(l[h].pc, at[l[h].pc - 1])
<1>1. h \in 1 .. Len(l) /\ Len(l) \in Nat /\ (h = 1 \/ l[h].pc # l[h - 1].pc)
  BY DEF Heads
<1>2. CASE h = 1
  <2>1. l[1] = Ent(1, at[0])
    BY <1>1, <1>2 DEF Traced
  <2>2. l[1].pc = 1 /\ 1 - 1 = 0
    BY <2>1 DEF Ent
  <2>3. QED BY <1>1, <1>2, <2>1, <2>2
<1>3. CASE h # 1
  <2>1. h \in 2 .. Len(l)
    BY <1>1, <1>3
  <2>2. QED BY <1>1, <1>3, <2>1 DEF Traced
<1>4. QED BY <1>2, <1>3

\* A trace skips no instruction.
LEMMA HeadExists ==
  ASSUME NEW l \in Seq(Entries), NEW at, NEW n, Traced(l, at, n)
  PROVE  \A j \in 1 .. Len(l) : \A q \in 1 .. l[j].pc : \E h \in Heads(l) : l[h].pc = q
<1> DEFINE Reached(j) == \A q \in 1 .. l[j].pc : \E h \in Heads(l) : l[h].pc = q
           T == {j \in 0 .. Len(l) : j = 0 \/ Reached(j)}
<1>1. Len(l) \in Nat /\ DOMAIN l = 1 .. Len(l) /\ \A j \in 1 .. Len(l) : l[j].pc \in Nat
  <2>1. Len(l) \in Nat /\ DOMAIN l = 1 .. Len(l) /\ \A j \in 1 .. Len(l) : l[j] \in Entries
    OBVIOUS
  <2>2. QED BY <2>1 DEF Entries
<1>2. 0 \in T
  BY <1>1
<1>3. ASSUME NEW j \in 0 .. Len(l) - 1, j \in T PROVE j + 1 \in T
  <2>1. j \in Nat /\ j + 1 \in 1 .. Len(l) /\ j + 1 \in 0 .. Len(l) /\ j + 1 - 1 = j
    BY <1>1
  <2>2. CASE j = 0
    <3>1. l[1].pc = 1 /\ 1 \in Heads(l)
      BY <1>1, <2>1, <2>2 DEF Traced, Ent, Heads
    <3>2. Reached(1)
      BY <3>1
    <3>3. QED BY <2>1, <2>2, <3>2
  <2>3. CASE j # 0
    <3>1. Reached(j) /\ l[j].pc \in Nat
      BY <1>1, <1>3, <2>1, <2>3
    <3>2. CASE l[j + 1].pc = l[j].pc
      BY <3>1, <3>2, <2>1
    <3>3. CASE l[j + 1].pc # l[j].pc
      <4>1. j + 1 \in Heads(l)
        BY <1>1, <2>1, <3>3 DEF Heads
      <4>2. l[j + 1].pc = l[j].pc + 1
        <5>1. j + 1 \in 2 .. Len(l)
          BY <2>1, <2>3
        <5>2. QED BY <5>1, <2>1, <3>3 DEF Traced
      <4>3. \A q \in 1 .. l[j].pc + 1 : q \in 1 .. l[j].pc \/ q = l[j].pc + 1
        BY <3>1
      <4>4. Reached(j + 1)
        BY <3>1, <4>1, <4>2, <4>3
      <4>5. QED BY <2>1, <4>4
    <3>4. QED BY <3>2, <3>3
  <2>4. QED BY <2>2, <2>3
<1>4. \A j \in 0 .. Len(l) : j \in T
  <2> HIDE DEF T
  <2>1. QED BY <1>1, <1>2, <1>3, Climb
<1>5. ASSUME NEW j \in 1 .. Len(l) PROVE Reached(j)
  <2>1. j \in T /\ j # 0
    BY <1>4, <1>1
  <2>2. QED BY <2>1
<1>6. QED BY <1>5

\* The first logical instruction whose entries differ is the one after the
\* mistranslated one, or a later one after a mistranslated store.
LEMMA Named ==
  ASSUME NEW p \in Seq(Ops), NEW b \in Bug, NEW s \in Machine,
         NEW rl \in Seq(Entries), Listed(rl, Path("native", p, b, s)), Len(rl) <= Len(p) + 1,
         NEW sl \in Seq(Entries), NEW n, Traced(sl, Path("super", p, b, s), n),
         FirstDivergent(rl, sl) # 0
  PROVE  IF b.in = "ram" THEN FirstDivergent(rl, sl) >= b.at ELSE FirstDivergent(rl, sl) = b.at
<1> DEFINE N == Path("native", p, b, s)
           I == Path("super", p, b, s)
           apart == {i \in Heads(rl) :
                       \E j \in Heads(sl) : Step(rl, i) = Step(sl, j) /\ rl[i] # sl[j]}
           k == Min(apart)
<1>1. /\ Len(rl) \in Nat /\ Len(p) \in Nat /\ b.at \in Nat
      /\ DOMAIN rl = 1 .. Len(rl)
      /\ b.in \in {"none", "reg", "ram", "cyc"} /\ (b.in = "none" <=> b.at = 0)
  BY DEF Bug
<1>2. /\ \A i \in 1 .. Len(rl) : rl[i] = Ent(i, N[i - 1]) /\ rl[i].pc = i
      /\ \A i \in 1 .. Len(rl) : Step(rl, i) = i
  <2>1. \A i \in 1 .. Len(rl) : rl[i] = Ent(i, N[i - 1])
    BY DEF Listed
  <2>2. \A i \in 1 .. Len(rl) : rl[i].pc = i
    <3>1. \A i, t : Ent(i, t).pc = i
      BY DEF Ent
    <3>2. QED BY <2>1, <3>1
  <2>3. \A i \in 1 .. Len(rl) : Step(rl, i) = rl[i].pc
    BY ListedTraced, StepOf
  <2>4. QED BY <2>1, <2>2, <2>3
<1>3. \A j \in Heads(sl) : /\ Step(sl, j) = sl[j].pc /\ j \in 1 .. Len(sl)
                           /\ sl[j] = Ent(sl[j].pc, I[sl[j].pc - 1])
  BY StepOf, HeadEntry
<1>4. \A j \in Heads(sl) : \A q \in 1 .. sl[j].pc : \E h \in Heads(sl) : sl[h].pc = q
  BY <1>3, HeadExists
<1> HIDE DEF N, I
<1>5. Heads(rl) = 1 .. Len(rl)
  <2>1. \A i \in 2 .. Len(rl) : rl[i].pc # rl[i - 1].pc
    <3>1. TAKE i \in 2 .. Len(rl)
    <3>2. i \in 1 .. Len(rl) /\ i - 1 \in 1 .. Len(rl) /\ i - 1 # i
      BY <1>1
    <3>3. rl[i].pc = i /\ rl[i - 1].pc = i - 1
      BY <3>2, <1>2, Zenon
    <3>4. QED BY <3>2, <3>3, Zenon
  <2>2. \A i \in 1 .. Len(rl) : i = 1 \/ i \in 2 .. Len(rl)
    BY <1>1
  <2>3. QED BY <1>1, <2>1, <2>2 DEF Heads
<1>6. apart # {} /\ k # 1 /\ FirstDivergent(rl, sl) = rl[k - 1].pc
  BY DEF FirstDivergent
<1>7. k \in apart /\ \A i \in apart : k <= i
  <2>1. PICK w \in apart : \A y \in apart : w <= y
    <3>1. apart \subseteq Nat
      BY <1>5
    <3> HIDE DEF apart
    <3>2. QED BY <1>6, <3>1, Least
  <2>2. k = CHOOSE x \in apart : \A y \in apart : x <= y
    BY DEF Min
  <2>3. QED BY <2>1, <2>2
<1>8. PICK j \in Heads(sl) : Step(rl, k) = Step(sl, j) /\ rl[k] # sl[j]
  BY <1>7
<1>9. k \in 1 .. Len(rl) /\ sl[j].pc = k
  BY <1>2, <1>3, <1>5, <1>7, <1>8
<1>a. \A i \in 1 .. k - 1 : ~ \E h \in Heads(sl) : sl[h].pc = i /\ rl[i] # sl[h]
  <2>1. TAKE i \in 1 .. k - 1
  <2>2. i \in 1 .. Len(rl) /\ ~ (k <= i)
    BY <1>1, <1>9
  <2>3. i \notin apart
    BY <1>7, <2>2
  <2>4. QED BY <1>2, <1>3, <1>5, <2>2, <2>3
<1> HIDE DEF k, apart
<1>10. k - 1 \in 1 .. Len(rl) /\ k - 1 \in 0 .. Len(p) /\ FirstDivergent(rl, sl) = k - 1
  <2>1. k - 1 \in 1 .. Len(rl) /\ k - 1 \in 0 .. Len(p)
    BY <1>1, <1>6, <1>9
  <2>2. QED BY <2>1, <1>2, <1>6
<1>11. Ent(k, N[k - 1]) # Ent(k, I[k - 1])
  BY <1>2, <1>3, <1>8, <1>9
<1>12. b.at # 0 /\ b.at <= k - 1
  <2>1. N[k - 1] # I[k - 1]
    BY <1>11
  <2>2. ~ (b.at = 0 \/ k - 1 < b.at)
    BY <2>1, <1>10, PathsAgree DEF N, I
  <2>3. QED BY <2>2, <1>1, <1>10
<1>13. CASE b.in = "ram"
  BY <1>1, <1>10, <1>12, <1>13
<1>14. CASE b.in \in {"reg", "cyc"}
  <2>1. SUFFICES ASSUME b.at # k - 1 PROVE FALSE
    BY <1>10, <1>14
  <2>2. b.at \in 1 .. Len(p) /\ b.at + 1 \in 1 .. k - 1 /\ b.at + 1 \in 1 .. k
        /\ b.at + 1 \in 1 .. Len(rl) /\ b.at + 1 - 1 = b.at
    <3>1. k \in Nat /\ k <= Len(rl) /\ k - 1 <= Len(p) /\ b.at < k - 1 /\ b.at > 0
      BY <1>1, <1>9, <1>10, <1>12, <2>1
    <3>2. QED BY <3>1, <1>1
  <2>3. PICK h \in Heads(sl) : sl[h].pc = b.at + 1
    BY <1>4, <1>9, <2>2
  <2>4. rl[b.at + 1] = Ent(b.at + 1, N[b.at]) /\ sl[h] = Ent(b.at + 1, I[b.at])
    <3>1. rl[b.at + 1] = Ent(b.at + 1, N[b.at])
      BY <1>2, <2>2
    <3>2. sl[h] = Ent(b.at + 1, I[b.at])
      BY <1>3, <2>2, <2>3
    <3>3. QED BY <3>1, <3>2
  <2>5. N[b.at].a # I[b.at].a \/ N[b.at].cyc # I[b.at].cyc
    BY <1>14, <2>2, PathsPart DEF N, I
  <2>6. rl[b.at + 1] # sl[h]
    BY <2>4, <2>5 DEF Ent
  <2>7. QED BY <1>a, <2>2, <2>3, <2>6
<1>15. QED BY <1>1, <1>12, <1>13, <1>14

-----------------------------------------------------------------------------
(* Types.                                                                   *)

Diffs    == [in : BOOLEAN, freeze : BOOLEAN, max : Nat, trace : BOOLEAN, env : BOOLEAN]
Logs     == [native : Seq(Entries), super : Seq(Entries)]
Verdicts == {"none", "ok", "diverges", "skipped"}

TypeOK ==
  /\ prog \in Seq(Ops) /\ Routine(prog)
  /\ bug \in Bug
  /\ m \in Machine /\ before \in Machine
  /\ snap \in [S : Machine, R : Machine]
  /\ phase \in {"program"} \cup Engines
  /\ pc \in Nat /\ (phase \in Engines => pc # 0)
  /\ diff \in Diffs
  /\ log \in Logs
  /\ result \in [verdict : Verdicts, named : Nat]

\* A routine is a sequence of instructions.
LEMMA RoutineFacts ==
  ASSUME NEW p \in Routines
  PROVE  p \in Seq(Ops) /\ Routine(p)
<1>1. PICK n \in 0 .. MaxOps : p \in [1 .. n -> Ops]
  BY DEF Routines, SeqOf
<1>2. n \in Nat
  BY DiffAssumption
<1>3. QED BY <1>1, <1>2, SeqDef DEF Routines

\* A compiled run's tick keeps a machine a machine.
LEMMA TickFacts ==
  ASSUME NEW s \in Machine
  PROVE  Tick(s) \in Machine /\ (s.deadline = "never" => Tick(s) = s)
<1>1. (s.ram + 1) % 4 \in 0 .. 3
  BY DEF Machine
<1> DEFINE v == (s.ram + 1) % 4
<1>2. Tick(s) = s \/ Tick(s) = [s EXCEPT !.int = FALSE, !.ram = v]
  BY DEF Tick
<1>3. s.deadline = "never" => Tick(s) = s
  BY DEF Tick
<1> HIDE DEF v
<1>4. v \in 0 .. 3
  BY <1>1 DEF v
<1>5. QED BY <1>2, <1>3, <1>4 DEF Machine

\* What an instruction adds to a run's trace.
LEMMA LoggedFacts ==
  ASSUME TypeOK, pc # 0
  PROVE  /\ Logged("native") \in Logs
         /\ Logged("super") \in Logs
         /\ Logged("native").super = log.super /\ Logged("super").native = log.native
         /\ Entry \in Entries /\ [Entry EXCEPT !.a = 0] \in Entries
         /\ diff.trace => /\ Logged("native").native = Put(log.native, Entry)
                          /\ Logged("super").super
                               = IF Op(prog, pc) = "rep"
                                   THEN Put(Put(log.super, Entry), [Entry EXCEPT !.a = 0])
                                   ELSE Put(log.super, Entry)
<1>1. Entry \in Entries /\ [Entry EXCEPT !.a = 0] \in Entries
  <2>1. m.a \in 0 .. 3 /\ m.sp \in Int /\ m.cyc \in Nat /\ pc \in Nat /\ 0 \in 0 .. 3
    BY DEF TypeOK, Machine
  <2>2. QED BY <2>1 DEF Entry, Entries
<1>2. /\ log.native \in Seq(Entries) /\ log.super \in Seq(Entries)
      /\ log["native"] = log.native /\ log["super"] = log.super
  BY DEF TypeOK, Logs
<1>3. Put(log.native, Entry) \in Seq(Entries) /\ Put(log.super, Entry) \in Seq(Entries)
  BY <1>1, <1>2, PutFacts
<1>4. Put(Put(log.super, Entry), [Entry EXCEPT !.a = 0]) \in Seq(Entries)
  BY <1>1, <1>3, PutFacts
<1>5. Logged("native") = IF diff.trace THEN [log EXCEPT !.native = Put(log.native, Entry)] ELSE log
  BY <1>2 DEF Logged
<1>6. Logged("super")
        = IF diff.trace
            THEN [log EXCEPT !.super = IF Op(prog, pc) = "rep"
                                         THEN Put(Put(log.super, Entry), [Entry EXCEPT !.a = 0])
                                         ELSE Put(log.super, Entry)]
            ELSE log
  BY <1>2 DEF Logged
<1>7. QED BY <1>1, <1>2, <1>3, <1>4, <1>5, <1>6 DEF TypeOK, Logs

\* A divergence's instruction is a number, 0 if it has none.
LEMMA NamedNat ==
  ASSUME NEW rl \in Seq(Entries), NEW sl
  PROVE  FirstDivergent(rl, sl) \in Nat
<1> DEFINE apart == {i \in Heads(rl) :
                       \E j \in Heads(sl) : Step(rl, i) = Step(sl, j) /\ rl[i] # sl[j]}
           k == Min(apart)
<1>1. Len(rl) \in Nat /\ DOMAIN rl = 1 .. Len(rl)
  OBVIOUS
<1>2. apart \subseteq 1 .. Len(rl)
  BY <1>1 DEF Heads
<1>3. FirstDivergent(rl, sl) = IF apart = {} \/ k = 1 THEN 0 ELSE rl[k - 1].pc
  BY DEF FirstDivergent
<1>4. k = CHOOSE x \in apart : \A y \in apart : x <= y
  BY DEF Min
<1> HIDE DEF apart
<1>5. apart # {} => k \in apart
  <2>1. apart # {} => \E x \in apart : \A y \in apart : x <= y
    <3>1. apart \subseteq Nat
      BY <1>2
    <3>2. QED BY <3>1, Least
  <2>2. QED BY <2>1, <1>4
<1> HIDE DEF k
<1>6. CASE apart # {} /\ k # 1
  <2>1. k - 1 \in 1 .. Len(rl)
    <3>1. k \in 1 .. Len(rl) /\ k # 1
      BY <1>2, <1>5, <1>6
    <3>2. QED BY <3>1, <1>1
  <2>2. rl[k - 1] \in Entries
    BY <2>1
  <2>3. QED BY <1>3, <1>6, <2>2 DEF Entries
<1>7. QED BY <1>3, <1>6

\* The machine an instruction of a run leaves.
LEMMA DoesFacts ==
  ASSUME TypeOK, phase \in Engines
  PROVE  /\ Does("native", Tick(m)) \in Machine /\ Does("native", Tick(m)).deadline = m.deadline
         /\ Does("super", m) \in Machine /\ Does("super", m).deadline = m.deadline
<1>1. /\ bug \in Bug /\ pc \in Nat \ {0} /\ m \in Machine
  BY DEF TypeOK
<1>2. Tick(m) \in Machine /\ Tick(m).deadline = m.deadline
  BY <1>1, TickFacts DEF Tick, Machine
<1>3. QED BY <1>1, <1>2, EffectFacts DEF Does

\* The state is well-typed: a routine stays one, a machine a machine.
THEOREM TypeCorrect == Spec => []TypeOK
<1>1. Init => TypeOK
  <2>1. SUFFICES ASSUME Init PROVE TypeOK
    OBVIOUS
  <2>2. prog \in Seq(Ops) /\ Routine(prog)
    BY <2>1, RoutineFacts DEF Init
  <2>3. bug \in Bug
    <3>1. Len(prog) \in Nat
      BY <2>2
    <3>2. QED BY <2>1, <3>1 DEF Init, Bug
  <2>4. m \in Machine
    <3>1. 3 \in 0 .. 3 /\ 2 \in 0 .. 3 /\ 0 \in 0 .. 1 /\ 0 \in Nat /\ 0 \in Int
      OBVIOUS
    <3>2. m \in Machines
      BY <2>1 DEF Init
    <3>3. QED BY <3>1, <3>2 DEF Machines, Machine
  <2>5. before \in Machine /\ snap \in [S : Machine, R : Machine]
    BY <2>1, <2>4 DEF Init
  <2>6. phase = "program" /\ pc = 0
    BY <2>1 DEF Init
  <2>7. diff \in Diffs
    BY <2>1, DiffAssumption DEF Init, Diffs
  <2>8. log \in Logs
    BY <2>1 DEF Init, Logs
  <2>9. result \in [verdict : Verdicts, named : Nat]
    BY <2>1 DEF Init, NoResult, Verdicts
  <2>10. QED BY <2>2, <2>3, <2>4, <2>5, <2>6, <2>7, <2>8, <2>9 DEF TypeOK, Engines
<1>2. TypeOK /\ [Next]_vars => TypeOK'
  <2> SUFFICES ASSUME TypeOK, [Next]_vars PROVE TypeOK'
    OBVIOUS
  <2>1. CASE Enter
    <3>1. m' \in Machine /\ before' \in Machine
      BY <2>1 DEF Enter, Away, TypeOK, Machine
    <3>2. snap' \in [S : Machine, R : Machine] /\ pc' # 0 /\ pc' \in Nat
      BY <2>1 DEF Enter, TypeOK
    <3>3. diff' \in Diffs
      <4>1. diff \in Diffs /\ diff.max - 1 \in Nat
        BY <2>1 DEF Enter, Eligible, TypeOK, Diffs
      <4> DEFINE n == diff.max - 1
      <4>2. diff' = [diff EXCEPT !.max = n, !.in = TRUE, !.freeze = TRUE, !.trace = diff.env]
        BY <2>1 DEF Enter
      <4>3. n \in Nat
        BY <4>1
      <4> HIDE DEF n
      <4>4. QED BY <4>1, <4>2, <4>3 DEF Diffs
    <3>4. log' \in Logs
      BY <2>1 DEF Enter, Logs
    <3>5. result' \in [verdict : Verdicts, named : Nat] /\ phase' \in Engines
      BY <2>1 DEF Enter, NoResult, Verdicts, Engines
    <3>6. UNCHANGED <<prog, bug>>
      BY <2>1 DEF Enter
    <3>7. QED BY <3>1, <3>2, <3>3, <3>4, <3>5, <3>6 DEF TypeOK
  <2>2. CASE Program
    <3>1. m' \in Machine /\ before' = m'
      BY <2>2 DEF Program, TypeOK, Machine
    <3>2. QED BY <2>2, <3>1 DEF Program, TypeOK
  <2>3. CASE Stop \/ UNCHANGED vars
    BY <2>3 DEF Stop, vars, TypeOK
  <2>4. CASE Native
    <3>1. phase \in Engines /\ pc \in Nat /\ pc # 0
      BY <2>4 DEF Native, TypeOK, Engines
    <3>2. m' \in Machine
      BY <2>4, <3>1, DoesFacts DEF Native
    <3>3. log' \in Logs
      BY <2>4, <3>1, LoggedFacts DEF Native
    <3>4. snap' \in [S : Machine, R : Machine]
          /\ diff' \in Diffs
      <4>1. CASE Op(prog, pc) = "call" /\ Eligible
        <5> DEFINE n == diff.max - 1
        <5>1. diff \in Diffs /\ n \in Nat
          BY <4>1 DEF Eligible, TypeOK, Diffs
        <5>2. diff' = [diff EXCEPT !.max = n] /\ snap' = [snap EXCEPT !.S = m]
          BY <2>4, <4>1 DEF Native, Inner
        <5> HIDE DEF n
        <5>3. QED BY <5>1, <5>2 DEF Diffs, TypeOK
      <4>2. CASE ~ (Op(prog, pc) = "call" /\ Eligible)
        BY <2>4, <4>2 DEF Native, Inner, TypeOK
      <4>3. QED BY <4>1, <4>2
    <3>5. UNCHANGED <<prog, bug, phase, result, before>> /\ pc' = pc + 1
      BY <2>4 DEF Native
    <3>6. QED BY <3>1, <3>2, <3>3, <3>4, <3>5 DEF TypeOK
  <2>5. CASE NativeReturns
    <3>1. phase \in Engines /\ pc # 0
      BY <2>5 DEF NativeReturns, TypeOK, Engines
    <3>2. snap' \in [S : Machine, R : Machine]
      BY <2>5, <3>1, DoesFacts DEF NativeReturns, TypeOK
    <3>3. m' \in Machine
      BY <2>5 DEF NativeReturns, Away, Restore, Machine, TypeOK
    <3>4. log' \in Logs
      BY <2>5, <3>1, LoggedFacts DEF NativeReturns
    <3>5. UNCHANGED <<prog, bug, diff, result, before>> /\ pc' = 1 /\ phase' \in Engines
      BY <2>5 DEF NativeReturns, Engines
    <3>6. QED BY <3>2, <3>3, <3>4, <3>5 DEF TypeOK
  <2>6. CASE Abort
    <3>1. m' \in Machine
      BY <2>6 DEF Abort, Restore, Machine, TypeOK
    <3>2. diff' \in Diffs
      BY <2>6 DEF Abort, Release, TypeOK, Diffs
    <3>3. result' \in [verdict : Verdicts, named : Nat]
      BY <2>6 DEF Abort, NoResult, Verdicts
    <3>4. UNCHANGED <<prog, bug, pc, snap, log, before>> /\ phase' = "program"
      BY <2>6 DEF Abort
    <3>5. QED BY <3>1, <3>2, <3>3, <3>4 DEF TypeOK, Engines
  <2>7. CASE Super
    <3>1. phase \in Engines /\ pc \in Nat /\ pc # 0
      BY <2>7 DEF Super, TypeOK, Engines
    <3>2. m' \in Machine
      BY <2>7, <3>1, DoesFacts DEF Super
    <3>3. log' \in Logs
      BY <2>7, <3>1, LoggedFacts DEF Super
    <3>4. UNCHANGED <<prog, bug, phase, snap, diff, result, before>> /\ pc' = pc + 1
      BY <2>7 DEF Super
    <3>5. QED BY <3>1, <3>2, <3>3, <3>4 DEF TypeOK
  <2>8. CASE SuperReturns
    <3>1. phase \in Engines /\ pc # 0
      BY <2>8 DEF SuperReturns, TypeOK, Engines
    <3>2. m' \in Machine
      <4>1. m' = Restore(snap.S) /\ snap.S \in Machine /\ m \in Machine
        BY <2>8 DEF SuperReturns, TypeOK
      <4>2. QED BY <4>1 DEF Restore, Machine
    <3>3. log' \in Logs
      BY <2>8, <3>1, LoggedFacts DEF SuperReturns
    <3>4. diff' \in Diffs
      <4>1. Release \in Diffs
        BY DEF Release, TypeOK, Diffs
      <4>2. diff' \in {Release, [Release EXCEPT !.max = 0]}
        BY <2>8 DEF SuperReturns
      <4>3. QED BY <4>1, <4>2 DEF Diffs
    <3>5. result' \in [verdict : Verdicts, named : Nat]
      <4>1. FirstDivergent(log'.native, log'.super) \in Nat
        <5>1. log'.native \in Seq(Entries)
          BY <3>3 DEF Logs
        <5>2. QED BY <5>1, NamedNat
      <4>2. \E v \in {"diverges", "ok"}, n \in {0, FirstDivergent(log'.native, log'.super)} :
              result' = [verdict |-> v, named |-> n]
        BY <2>8 DEF SuperReturns
      <4>3. QED BY <4>1, <4>2 DEF Verdicts
    <3>6. UNCHANGED <<prog, bug, pc, snap, before>> /\ phase' = "program"
      BY <2>8 DEF SuperReturns
    <3>7. QED BY <3>2, <3>3, <3>4, <3>5, <3>6 DEF TypeOK, Engines
  <2>9. QED BY <2>1, <2>2, <2>3, <2>4, <2>5, <2>6, <2>7, <2>8 DEF Next
<1>3. QED BY <1>1, <1>2, PTL DEF Spec

-----------------------------------------------------------------------------
(* The inductive invariant.                                                 *)

\* The states of the routine under test.
Run(engine) == Path(engine, prog, bug, snap.S)

\* In a test nothing is tested anew, no deadline falls due and nothing is reported.
Frozen ==
  phase \in Engines => /\ diff.in /\ m.deadline = "never"
                       /\ snap.S = before /\ result = NoResult

\* A run is where its engine alone would be, short of the first return.
Follows ==
  phase \in Engines =>
    /\ pc \in 1 .. Len(prog) + 1
    /\ Same(m, Run(phase)[pc - 1])
    /\ \A k \in 1 .. pc - 1 : ~ Returns(prog, k, Run(phase)[k - 1])

\* The interpreted run has the compiled one's end to be compared with, and its
\* stack is where its instructions took it.
Compared ==
  phase = "super" =>
    /\ Same(snap.R, Final("native", prog, bug, snap.S))
    /\ m.sp = snap.S.sp + Level(prog, pc - 1)

\* The traces are of the runs.
Traces ==
  phase \in Engines /\ diff.trace =>
    /\ Listed(log.native, Run("native")) /\ Len(log.native) <= Len(prog) + 1
    /\ phase = "native" => /\ log.super = << >>
                           /\ Len(log.native) <= pc - 1
                           /\ Len(log.native) < TraceMax => Len(log.native) = pc - 1
    /\ phase = "super" => Traced(log.super, Run("super"), pc - 1)

Inv == Frozen /\ Follows /\ Compared /\ Traces /\ Unperturbed /\ VerdictRight /\ Pinpoints

\* The state of a run before its next instruction, and what it makes of it.
LEMMA RunStep ==
  ASSUME TypeOK, Frozen, Follows, phase \in Engines
  PROVE  /\ pc \in Nat \ {0} /\ Len(prog) \in Nat /\ pc - 1 \in 0 .. Len(prog)
         /\ Run(phase)[pc - 1] \in Machine /\ Tick(m) = m
         /\ Same(Does(phase, m), Effect(phase, prog, bug, pc, Run(phase)[pc - 1]))
         /\ Returns(prog, pc, m) <=> Returns(prog, pc, Run(phase)[pc - 1])
         /\ Entry = Ent(pc, Run(phase)[pc - 1])
         /\ ~ Returns(prog, pc, m) => pc \in 1 .. Len(prog)
<1>1. /\ prog \in Seq(Ops) /\ bug \in Bug /\ m \in Machine /\ snap.S \in Machine
      /\ Len(prog) \in Nat /\ pc \in 1 .. Len(prog) + 1 /\ m.deadline = "never"
      /\ Same(m, Run(phase)[pc - 1])
  BY DEF TypeOK, Frozen, Follows
<1>2. pc \in Nat \ {0} /\ pc - 1 \in 0 .. Len(prog)
  BY <1>1
<1>3. Run(phase)[pc - 1] \in Machine
  <2>1. Run(phase) \in [0 .. Len(prog) -> Machine]
    BY <1>1, PathFacts DEF Run
  <2>2. QED BY <1>2, <2>1
<1>4. Tick(m) = m
  BY <1>1, TickFacts
<1>5. /\ Same(Does(phase, m), Effect(phase, prog, bug, pc, Run(phase)[pc - 1]))
      /\ Returns(prog, pc, m) <=> Returns(prog, pc, Run(phase)[pc - 1])
  BY <1>1, <1>2, <1>3, EffectSame DEF Does
<1>6. Entry = Ent(pc, Run(phase)[pc - 1])
  BY <1>1 DEF Entry, Ent, Same
<1>7. ~ Returns(prog, pc, m) => pc \in 1 .. Len(prog)
  <2>1. pc = Len(prog) + 1 => Op(prog, pc) = "ret"
    BY <1>1 DEF Op
  <2>2. QED BY <1>1, <2>1 DEF Returns
<1>8. QED BY <1>1, <1>2, <1>3, <1>4, <1>5, <1>6, <1>7

\* A run's next state, when its instruction does not return.
LEMMA RunOn ==
  ASSUME TypeOK, Frozen, Follows, phase \in Engines, ~ Returns(prog, pc, m)
  PROVE  /\ pc \in 1 .. Len(prog)
         /\ Same(Does(phase, m), Run(phase)[pc])
         /\ \A k \in 1 .. pc : ~ Returns(prog, k, Run(phase)[k - 1])
<1>1. pc \in 1 .. Len(prog) /\ Same(Does(phase, m), Effect(phase, prog, bug, pc, Run(phase)[pc - 1]))
  BY RunStep
<1>2. Run(phase)[pc] = Effect(phase, prog, bug, pc, Run(phase)[pc - 1])
  <2>1. prog \in Seq(Ops) /\ bug \in Bug /\ snap.S \in Machine
    BY DEF TypeOK
  <2>2. QED BY <1>1, <2>1, PathFacts DEF Run
<1>3. ASSUME NEW k \in 1 .. pc PROVE ~ Returns(prog, k, Run(phase)[k - 1])
  <2>1. k \in 1 .. pc - 1 \/ k = pc
    BY RunStep
  <2>2. QED BY <2>1, RunStep DEF Follows
<1>4. QED BY <1>1, <1>2, <1>3

\* A run's end, when its instruction returns.
LEMMA RunEnd ==
  ASSUME TypeOK, Frozen, Follows, phase \in Engines, Returns(prog, pc, m)
  PROVE  Same(Does(phase, m), Final(phase, prog, bug, snap.S))
<1>1. /\ pc \in 1 .. Len(prog) + 1 /\ prog \in Seq(Ops)
      /\ \A k \in 1 .. pc - 1 : ~ Returns(prog, k, Path(phase, prog, bug, snap.S)[k - 1])
  BY DEF Follows, TypeOK, Run
<1>2. Returns(prog, pc, Path(phase, prog, bug, snap.S)[pc - 1])
  BY RunStep DEF Run
<1>3. Final(phase, prog, bug, snap.S)
        = Effect(phase, prog, bug, pc, Path(phase, prog, bug, snap.S)[pc - 1])
  BY <1>1, <1>2, FinalFacts
<1>4. QED BY <1>3, RunStep DEF Run

\* The interpreter's condition ends the run where the routine returns: a routine
\* returns above its entry's stack, and calls nothing there.
LEMMA EndsRight ==
  ASSUME TypeOK, Frozen, Follows, Compared, phase = "super"
  PROVE  /\ SuperEnds(Does("super", m)) <=> Returns(prog, pc, m)
         /\ ~ Returns(prog, pc, m) => Does("super", m).sp = snap.S.sp + Level(prog, pc)
<1> DEFINE op == Op(prog, pc)
           t  == Does("super", m)
<1>1. /\ pc \in Nat \ {0} /\ Len(prog) \in Nat /\ pc \in 1 .. Len(prog) + 1
      /\ prog \in Seq(Ops) /\ bug \in Bug /\ m \in Machine /\ m.sp \in Int /\ snap.S.sp \in Int
      /\ m.sp = snap.S.sp + Level(prog, pc - 1)
  <2>1. phase \in Engines
    BY DEF Engines
  <2>2. QED BY <2>1, RunStep DEF TypeOK, Follows, Compared, Machine
<1>2. t.sp = m.sp + (IF op \in {"pop", "ret"} \/ (op = "retz" /\ m.a = 0) THEN 1
                     ELSE IF op = "push" THEN -1 ELSE 0)
  <2>1. t.sp = Good(op, m).sp
    BY <1>1, EffectFacts DEF Does
  <2>2. QED BY <1>1, <2>1, GoodFacts
<1>3. /\ Level(prog, pc) \in Int /\ Level(prog, pc - 1) \in Int
      /\ Level(prog, pc) = Level(prog, pc - 1) + (IF prog[pc] = "pop" THEN 1
                                                  ELSE IF prog[pc] = "push" THEN -1 ELSE 0)
  BY <1>1, LevelStep
<1>4. SuperEnds(t) <=> /\ op \in {"ret", "retz", "call"}
                       /\ t.sp > m.sp \/ op = "call"
                       /\ t.sp > snap.S.sp
  BY DEF SuperEnds
<1>5. Returns(prog, pc, m) <=> op = "ret" \/ (op = "retz" /\ m.a = 0)
  BY DEF Returns
<1>6. CASE pc = Len(prog) + 1
  <2>1. op = "ret"
    BY <1>1, <1>6 DEF Op
  <2>2. Level(prog, pc - 1) >= 0
    <3>1. pc - 1 = Len(prog)
      BY <1>1, <1>6
    <3>2. QED BY <3>1 DEF TypeOK, Routine
  <2> HIDE DEF op, t
  <2>3. QED BY <1>1, <1>2, <1>3, <1>4, <1>5, <2>1, <2>2 DEF t
<1>7. CASE pc # Len(prog) + 1
  <2>1. pc \in 1 .. Len(prog)
    BY <1>1, <1>7
  <2>2. op = prog[pc] /\ op \in Ops
    BY <1>1, <2>1 DEF Op
  <2>3. op # "ret"
    BY <2>2, DiffAssumption
  <2>4. /\ op = "retz" => Level(prog, pc) >= 0
        /\ op = "call" => Level(prog, pc) <= 0
    BY <2>1, <2>2 DEF TypeOK, Routine
  <2> HIDE DEF op, t
  <2>5. QED BY <1>1, <1>2, <1>3, <1>4, <1>5, <2>2, <2>3, <2>4, SMTT(30) DEF t
<1>8. QED BY <1>6, <1>7

\* A machine restored or sent away runs like the one saved.
LEMMA Restored ==
  ASSUME TypeOK
  PROVE  /\ Same(Away(m), m) /\ Away(m).deadline = "never" /\ Away(m).sp = m.sp
         /\ Restore(snap.S) = [snap.S EXCEPT !.psg = Restore(snap.S).psg]
         /\ Same(Away(Restore(snap.S)), snap.S) /\ Away(Restore(snap.S)).deadline = "never"
         /\ Away(Restore(snap.S)).sp = snap.S.sp
BY DEF TypeOK, Machine, Restore, Away, Same

\* A state's path begins at it.
LEMMA RunStart ==
  ASSUME TypeOK
  PROVE  \A engine : Path(engine, prog, bug, snap.S)[0] = snap.S
                     /\ Path(engine, prog, bug, m)[0] = m
<1>1. prog \in Seq(Ops) /\ bug \in Bug /\ snap.S \in Machine /\ m \in Machine
  BY DEF TypeOK
<1>2. ASSUME NEW engine
      PROVE  Path(engine, prog, bug, snap.S)[0] = snap.S /\ Path(engine, prog, bug, m)[0] = m
  <2>1. Path(engine, prog, bug, snap.S)[0] = snap.S
    BY <1>1, PathFacts
  <2>2. Path(engine, prog, bug, m)[0] = m
    BY <1>1, PathFacts
  <2>3. QED BY <2>1, <2>2
<1>3. QED BY <1>2

\* Machines that agree differ from others alike.
LEMMA DiffersSame ==
  ASSUME NEW r, NEW i, NEW u, NEW v, Same(r, u), Same(i, v)
  PROVE  Differs(r, i) <=> Differs(u, v)
BY DEF Same, Differs

\* The initial states satisfy the invariant.
LEMMA InvInit == Init => Inv
<1>1. SUFFICES ASSUME Init PROVE Inv
  OBVIOUS
<1>2. phase = "program" /\ result = NoResult /\ before = m /\ ~ diff.in /\ ~ diff.freeze
  BY <1>1 DEF Init
<1>3. m \in Machines
  BY <1>1 DEF Init
<1>4. Unperturbed
  BY <1>2, <1>3 DEF Unperturbed, Machines
<1>5. QED BY <1>2, <1>4 DEF Inv, Frozen, Follows, Compared, Traces, VerdictRight, Pinpoints,
                            Engines, NoResult

\* A test begins.
LEMMA InvEnter == TypeOK /\ TypeOK' /\ Inv /\ Enter => Inv'
<1> SUFFICES ASSUME TypeOK, TypeOK', Inv, Enter PROVE Inv'
  OBVIOUS
<1>1. /\ phase = "program" /\ ~ diff.in /\ diff'.in /\ snap'.S = m /\ m' = Away(m)
      /\ phase' = "native" /\ pc' = 1 /\ log' = [native |-> << >>, super |-> << >>]
      /\ before' = m /\ result' = NoResult /\ UNCHANGED <<prog, bug>>
  BY DEF Enter, Eligible, TypeOK, Diffs
<1>2. Frozen'
  BY <1>1, Restored DEF Frozen
<1>3. Follows'
  <2>1. Run("native")'[0] = m
    BY <1>1, RunStart DEF Run
  <2>2. pc' - 1 = 0 /\ Same(m', m)
    BY <1>1, Restored
  <2>3. pc' \in 1 .. Len(prog') + 1
    BY <1>1 DEF TypeOK
  <2>4. \A k : k \notin 1 .. pc' - 1
    BY <1>1
  <2>5. QED BY <1>1, <2>1, <2>2, <2>3, <2>4 DEF Follows
<1>4. Compared' /\ Unperturbed' /\ VerdictRight'
  BY <1>1 DEF Compared, Unperturbed, VerdictRight
<1>5. Traces'
  <2>1. log'.native = << >> /\ log'.super = << >> /\ Len(log'.native) = 0 /\ pc' - 1 = 0
    BY <1>1
  <2>2. Len(log'.native) <= Len(prog') + 1
    BY <2>1 DEF TypeOK
  <2>3. Listed(log'.native, Run("native")')
    BY <2>1 DEF Listed
  <2>4. QED BY <1>1, <2>1, <2>2, <2>3 DEF Traces
<1>6. Pinpoints'
  BY <1>1 DEF Pinpoints, NoResult
<1>7. QED BY <1>2, <1>3, <1>4, <1>5, <1>6 DEF Inv

\* The program runs on.
LEMMA InvProgram == TypeOK /\ Inv /\ Program => Inv'
<1> SUFFICES ASSUME TypeOK, Inv, Program PROVE Inv'
  OBVIOUS
<1>1. /\ phase = "program" /\ before' = m'
      /\ UNCHANGED <<prog, bug, phase, pc, snap, diff, log, result>>
  BY DEF Program
<1>2. PICK i \in BOOLEAN : m' = [m EXCEPT !.int = i]
  BY DEF Program
<1>3. Unperturbed'
  BY <1>1, <1>2 DEF Inv, Unperturbed, TypeOK, Machine
<1>4. QED BY <1>1, <1>3 DEF Inv, Frozen, Follows, Compared, Traces, VerdictRight, Pinpoints,
                            Engines

\* The program stops.
LEMMA InvStop == Inv /\ (Stop \/ UNCHANGED vars) => Inv'
BY DEF Inv, Frozen, Follows, Run, Compared, Traces, Unperturbed, VerdictRight, Pinpoints,
       Entry, Stop, vars

\* Nothing is tested in a test.
LEMMA NoInner ==
  ASSUME Frozen, phase \in Engines, Inner
  PROVE  UNCHANGED <<snap, diff>>
BY DEF Frozen, Inner, Eligible

\* An instruction of the compiled run.
LEMMA InvNative == TypeOK /\ TypeOK' /\ Inv /\ Native => Inv'
<1> SUFFICES ASSUME TypeOK, TypeOK', Inv, Native PROVE Inv'
  OBVIOUS
<1>1. /\ phase = "native" /\ phase \in Engines /\ ~ Returns(prog, pc, m)
      /\ pc' = pc + 1 /\ log' = Logged("native") /\ m' = Does("native", Tick(m))
      /\ UNCHANGED <<prog, bug, phase, result, before>>
  BY DEF Native, Engines
<1>2. Frozen /\ Follows /\ Traces
  BY DEF Inv
<1>3. UNCHANGED <<snap, diff>>
  BY <1>1, <1>2, NoInner DEF Native
<1>4. /\ m' = Does("native", m) /\ m'.deadline = m.deadline
      /\ pc \in 1 .. Len(prog) /\ pc \in Nat \ {0} /\ Len(prog) \in Nat
      /\ Same(m', Run("native")[pc]) /\ Entry = Ent(pc, Run("native")[pc - 1])
      /\ \A k \in 1 .. pc : ~ Returns(prog, k, Run("native")[k - 1])
  BY <1>1, <1>2, RunOn, RunStep, DoesFacts
<1>5. pc' - 1 = pc /\ pc' \in 1 .. Len(prog) + 1 /\ Run("native")' = Run("native")
  BY <1>1, <1>3, <1>4 DEF Run
<1>6. Frozen'
  BY <1>1, <1>2, <1>3, <1>4 DEF Frozen
<1>7. Follows'
  BY <1>1, <1>4, <1>5 DEF Follows
<1>8. Compared' /\ Unperturbed' /\ VerdictRight'
  BY <1>1 DEF Compared, Unperturbed, VerdictRight
<1>9. Traces'
  <2>1. SUFFICES ASSUME diff.trace
                 PROVE  /\ Listed(log'.native, Run("native"))
                        /\ Len(log'.native) <= Len(prog) + 1 /\ log'.super = << >>
                        /\ Len(log'.native) <= pc
                        /\ Len(log'.native) < TraceMax => Len(log'.native) = pc
    BY <1>1, <1>3, <1>5 DEF Traces
  <2>2. /\ log'.native = Put(log.native, Entry) /\ log'.super = log.super /\ Entry \in Entries
        /\ log.native \in Seq(Entries) /\ log'.native \in Seq(Entries)
    BY <1>1, <1>4, <2>1, LoggedFacts DEF TypeOK, Logs
  <2>3. /\ Listed(log.native, Run("native")) /\ log.super = << >>
        /\ Len(log.native) <= pc - 1
        /\ Len(log.native) < TraceMax => Len(log.native) = pc - 1
    BY <1>1, <1>2, <2>1 DEF Traces
  <2>4. pc - 1 \in Nat /\ pc - 1 + 1 = pc
    BY <1>4
  <2>5. Entry = Ent(pc - 1 + 1, Run("native")[pc - 1])
    BY <1>4, <2>4
  <2>6. /\ Listed(log'.native, Run("native")) /\ Len(log'.native) <= pc - 1 + 1
        /\ Len(log'.native) < TraceMax => Len(log'.native) = pc - 1 + 1
    <3> DEFINE n == pc - 1
               e == Ent(n + 1, Run("native")[n])
    <3>1. n \in Nat /\ Len(log.native) <= n
          /\ (Len(log.native) < TraceMax => Len(log.native) = n)
      BY <2>3, <2>4
    <3>2. log'.native = Put(log.native, e) /\ e \in Entries
      BY <2>2, <2>5, Zenon
    <3> HIDE DEF n
    <3>3. /\ Listed(Put(log.native, e), Run("native")) /\ Len(Put(log.native, e)) <= n + 1
          /\ Len(Put(log.native, e)) < TraceMax => Len(Put(log.native, e)) = n + 1
      BY <2>2, <2>3, <3>1, <3>2, ListedStep
    <3>4. QED BY <3>2, <3>3 DEF n
  <2>7. Len(log'.native) \in Nat /\ pc <= Len(prog) + 1
    BY <1>4, <2>2
  <2>8. QED BY <1>4, <2>2, <2>3, <2>4, <2>6, <2>7
<1>10. Pinpoints'
  BY <1>1 DEF Inv, Pinpoints
<1>11. QED BY <1>6, <1>7, <1>8, <1>9, <1>10 DEF Inv

\* The compiled run ends and the interpreted one begins.
LEMMA InvNativeReturns == TypeOK /\ TypeOK' /\ Inv /\ NativeReturns => Inv'
<1> SUFFICES ASSUME TypeOK, TypeOK', Inv, NativeReturns PROVE Inv'
  OBVIOUS
<1>1. /\ phase = "native" /\ phase \in Engines /\ Returns(prog, pc, m)
      /\ snap' = [snap EXCEPT !.R = Does("native", Tick(m))]
      /\ m' = Away(Restore(snap.S)) /\ log' = Logged("native")
      /\ phase' = "super" /\ pc' = 1 /\ UNCHANGED <<prog, bug, diff, result, before>>
  BY DEF NativeReturns, Engines
<1>2. Frozen /\ Follows /\ Traces
  BY DEF Inv
<1>3. snap'.S = snap.S /\ snap'.R = Does("native", m)
  BY <1>1, <1>2, RunStep DEF TypeOK
<1>4. /\ pc \in 1 .. Len(prog) + 1 /\ pc \in Nat \ {0} /\ Len(prog) \in Nat
      /\ Entry = Ent(pc, Run("native")[pc - 1])
      /\ Same(snap'.R, Final("native", prog, bug, snap.S))
  BY <1>1, <1>2, <1>3, RunStep, RunEnd DEF Follows
<1>5. /\ Same(m', snap.S) /\ m'.deadline = "never" /\ m'.sp = snap.S.sp
  BY <1>1, Restored
<1>6. Frozen'
  BY <1>1, <1>2, <1>3, <1>5 DEF Frozen
<1>7. Follows'
  <2>1. Run("super")'[0] = snap.S /\ pc' - 1 = 0
    BY <1>1, <1>3, RunStart DEF Run
  <2>2. pc' \in 1 .. Len(prog') + 1 /\ \A k : k \notin 1 .. pc' - 1
    BY <1>1, <1>4
  <2>3. QED BY <1>1, <1>5, <2>1, <2>2 DEF Follows
<1>8. Compared'
  <2>1. Level(prog, pc' - 1) = 0 /\ snap.S.sp + 0 = snap.S.sp
    <3>1. pc' - 1 = 0 /\ snap.S.sp \in Int
      BY <1>1 DEF TypeOK, Machine
    <3>2. QED BY <3>1, LevelZero
  <2>2. QED BY <1>1, <1>3, <1>4, <1>5, <2>1 DEF Compared
<1>9. Unperturbed' /\ VerdictRight'
  BY <1>1 DEF Unperturbed, VerdictRight
<1>10. Traces'
  <2>1. SUFFICES ASSUME diff.trace
                 PROVE  /\ Listed(log'.native, Run("native"))
                        /\ Len(log'.native) <= Len(prog) + 1
                        /\ Traced(log'.super, Run("super")', 0)
    BY <1>1, <1>3 DEF Traces, Run
  <2>2. /\ log'.native = Put(log.native, Entry) /\ log'.super = log.super /\ Entry \in Entries
        /\ log.native \in Seq(Entries) /\ log'.native \in Seq(Entries)
    BY <1>1, <1>4, <2>1, LoggedFacts DEF TypeOK, Logs
  <2>3. /\ Listed(log.native, Run("native")) /\ log.super = << >>
        /\ Len(log.native) <= pc - 1
        /\ Len(log.native) < TraceMax => Len(log.native) = pc - 1
    BY <1>1, <1>2, <2>1 DEF Traces
  <2>4. pc - 1 \in Nat /\ pc - 1 + 1 = pc
    BY <1>4
  <2>5. Entry = Ent(pc - 1 + 1, Run("native")[pc - 1])
    BY <1>4, <2>4
  <2>6. Listed(log'.native, Run("native")) /\ Len(log'.native) <= pc - 1 + 1
    <3> DEFINE n == pc - 1
               e == Ent(n + 1, Run("native")[n])
    <3>1. n \in Nat /\ Len(log.native) <= n
          /\ (Len(log.native) < TraceMax => Len(log.native) = n)
      BY <2>3, <2>4
    <3>2. log'.native = Put(log.native, e) /\ e \in Entries
      BY <2>2, <2>5, Zenon
    <3> HIDE DEF n
    <3>3. /\ Listed(Put(log.native, e), Run("native")) /\ Len(Put(log.native, e)) <= n + 1
          /\ Len(Put(log.native, e)) < TraceMax => Len(Put(log.native, e)) = n + 1
      BY <2>2, <2>3, <3>1, <3>2, ListedStep
    <3>4. QED BY <3>2, <3>3 DEF n
  <2>7. Len(log'.native) \in Nat /\ pc <= Len(prog) + 1
    BY <1>4, <2>2
  <2>8. Traced(<< >>, Run("super")', 0)
    BY DEF Traced
  <2>9. QED BY <1>4, <2>2, <2>3, <2>4, <2>6, <2>7, <2>8
<1>11. Pinpoints'
  BY <1>1 DEF Inv, Pinpoints
<1>12. QED BY <1>6, <1>7, <1>8, <1>9, <1>10, <1>11 DEF Inv

\* A test is abandoned.
LEMMA InvAbort == TypeOK /\ Inv /\ Abort => Inv'
<1> SUFFICES ASSUME TypeOK, Inv, Abort PROVE Inv'
  OBVIOUS
<1>1. /\ phase = "native" /\ m' = Restore(snap.S) /\ diff' = Release /\ phase' = "program"
      /\ result' = [NoResult EXCEPT !.verdict = "skipped"] /\ UNCHANGED before
  BY DEF Abort
<1>2. snap.S = before
  BY <1>1 DEF Inv, Frozen, Engines
<1>3. ~ diff'.in /\ ~ diff'.freeze
  BY <1>1 DEF Release, TypeOK, Diffs
<1>4. Unperturbed'
  BY <1>1, <1>2, <1>3, Restored DEF Unperturbed
<1>5. result'.verdict = "skipped" /\ result'.named = 0
  BY <1>1 DEF NoResult
<1>6. QED BY <1>1, <1>4, <1>5 DEF Inv, Frozen, Follows, Compared, Traces, VerdictRight,
                                  Pinpoints, Engines

\* The trace of an interpreted run after its next instruction.
LEMMA TracesOn ==
  ASSUME TypeOK, Inv, phase = "super", diff.trace
  PROVE  Traced(Logged("super").super, Run("super"), pc)
<1>1. phase \in Engines /\ Frozen /\ Follows /\ Traces
  BY DEF Engines, Inv
<1>2. /\ pc \in Nat \ {0} /\ Entry = Ent(pc, Run("super")[pc - 1])
      /\ Traced(log.super, Run("super"), pc - 1) /\ log.super \in Seq(Entries)
  BY <1>1, RunStep DEF Traces, TypeOK, Logs
<1>3. /\ Entry \in Entries /\ [Entry EXCEPT !.a = 0] \in Entries
      /\ Logged("super").super = IF Op(prog, pc) = "rep"
                                   THEN Put(Put(log.super, Entry), [Entry EXCEPT !.a = 0])
                                   ELSE Put(log.super, Entry)
  BY <1>2, LoggedFacts
<1>4. Traced(Put(log.super, Entry), Run("super"), pc)
  <2>1. pc - 1 \in Nat /\ pc - 1 + 1 = pc
    BY <1>2
  <2>2. Entry = Ent(pc - 1 + 1, Run("super")[pc - 1])
    BY <1>2, <2>1
  <2>3. Traced(Put(log.super, Entry), Run("super"), pc - 1 + 1)
    BY <1>2, <1>3, <2>1, <2>2, TracedStep
  <2>4. QED BY <2>1, <2>3
<1>5. Traced(Put(Put(log.super, Entry), [Entry EXCEPT !.a = 0]), Run("super"), pc)
  <2>1. [Entry EXCEPT !.a = 0].pc = pc
    BY DEF Entry
  <2>2. Put(log.super, Entry) \in Seq(Entries)
    BY <1>2, <1>3, PutFacts
  <2>3. QED BY <1>2, <1>3, <1>4, <2>1, <2>2, TracedAgain
<1>6. QED BY <1>3, <1>4, <1>5

\* An instruction of the interpreted run.
LEMMA InvSuper == TypeOK /\ TypeOK' /\ Inv /\ Super => Inv'
<1> SUFFICES ASSUME TypeOK, TypeOK', Inv, Super PROVE Inv'
  OBVIOUS
<1>1. /\ phase = "super" /\ phase \in Engines /\ ~ SuperEnds(Does("super", m))
      /\ pc' = pc + 1 /\ log' = Logged("super") /\ m' = Does("super", m)
      /\ UNCHANGED <<prog, bug, phase, snap, diff, result, before>>
  BY DEF Super, Engines
<1>2. Frozen /\ Follows /\ Compared /\ Traces
  BY DEF Inv
<1>3. ~ Returns(prog, pc, m) /\ m'.sp = snap.S.sp + Level(prog, pc)
  BY <1>1, <1>2, EndsRight
<1>4. /\ m'.deadline = m.deadline
      /\ pc \in 1 .. Len(prog) /\ pc \in Nat \ {0} /\ Len(prog) \in Nat
      /\ Same(m', Run("super")[pc])
      /\ \A k \in 1 .. pc : ~ Returns(prog, k, Run("super")[k - 1])
  BY <1>1, <1>2, <1>3, RunOn, RunStep, DoesFacts
<1>5. pc' - 1 = pc /\ pc' \in 1 .. Len(prog) + 1 /\ \A engine : Run(engine)' = Run(engine)
  BY <1>1, <1>4 DEF Run
<1>6. Frozen'
  BY <1>1, <1>2, <1>4 DEF Frozen
<1>7. Follows'
  BY <1>1, <1>4, <1>5 DEF Follows
<1>8. Compared'
  BY <1>1, <1>2, <1>3, <1>5 DEF Compared
<1>9. Unperturbed' /\ VerdictRight'
  BY <1>1 DEF Unperturbed, VerdictRight
<1>10. Traces'
  <2>1. SUFFICES ASSUME diff.trace
                 PROVE  /\ Listed(log'.native, Run("native"))
                        /\ Len(log'.native) <= Len(prog) + 1
                        /\ Traced(log'.super, Run("super"), pc)
    BY <1>1, <1>5 DEF Traces
  <2>2. log'.native = log.native
    BY <1>1, <1>4, LoggedFacts
  <2>3. QED BY <1>1, <1>2, <2>1, <2>2, TracesOn DEF Traces
<1>11. Pinpoints'
  BY <1>1 DEF Inv, Pinpoints
<1>12. QED BY <1>6, <1>7, <1>8, <1>9, <1>10, <1>11 DEF Inv

\* The interpreted run ends and the test reports.
LEMMA InvSuperReturns == TypeOK /\ TypeOK' /\ Inv /\ SuperReturns => Inv'
<1> SUFFICES ASSUME TypeOK, TypeOK', Inv, SuperReturns PROVE Inv'
  OBVIOUS
<1> DEFINE t == Does("super", m)
           d == Differs(snap.R, t)
<1>1. /\ phase = "super" /\ phase \in Engines /\ SuperEnds(t)
      /\ m' = Restore(snap.S) /\ log' = Logged("super")
      /\ diff' \in {Release, [Release EXCEPT !.max = 0]}
      /\ result' = [verdict |-> IF d THEN "diverges" ELSE "ok",
                    named   |-> IF d /\ diff.trace
                                  THEN FirstDivergent(log'.native, log'.super) ELSE 0]
      /\ phase' = "program" /\ UNCHANGED <<prog, bug, pc, snap, before>>
  BY DEF SuperReturns, Engines
<1>2. Frozen /\ Follows /\ Compared /\ Traces
  BY DEF Inv
<1>3. Returns(prog, pc, m)
  BY <1>1, <1>2, EndsRight
<1>4. Unperturbed'
  <2>1. Release \in Diffs /\ ~ Release.in /\ ~ Release.freeze
    BY DEF Release, TypeOK, Diffs
  <2>2. ~ diff'.in /\ ~ diff'.freeze
    BY <1>1, <2>1 DEF Diffs
  <2>3. snap.S = before
    BY <1>1, <1>2 DEF Frozen
  <2>4. QED BY <1>1, <2>2, <2>3, Restored DEF Unperturbed
<1>5. VerdictRight'
  <2>1. Same(t, Final("super", prog, bug, snap.S))
    BY <1>1, <1>2, <1>3, RunEnd
  <2>2. Same(snap.R, Final("native", prog, bug, snap.S))
    BY <1>1, <1>2 DEF Compared
  <2>3. d <=> Differs(Final("native", prog, bug, snap.S), Final("super", prog, bug, snap.S))
    BY <2>1, <2>2, DiffersSame
  <2>4. result'.verdict = IF d THEN "diverges" ELSE "ok"
    BY <1>1
  <2> HIDE DEF d
  <2>5. (result'.verdict = "diverges") <=> d
    BY <2>4
  <2>6. d \in BOOLEAN /\ Differs(Final("native", prog, bug, snap.S), Final("super", prog, bug, snap.S)) \in BOOLEAN
    BY DEF d, Differs
  <2>7. QED BY <1>1, <2>3, <2>5, <2>6 DEF VerdictRight
<1>6. Pinpoints'
  <2>1. SUFFICES ASSUME result'.named # 0
                 PROVE  IF bug.in = "ram" THEN result'.named >= bug.at
                                          ELSE result'.named = bug.at
    BY <1>1 DEF Pinpoints
  <2>2. diff.trace /\ result'.named = FirstDivergent(log'.native, log'.super)
    BY <1>1, <2>1
  <2>3. log'.native = log.native /\ log'.native \in Seq(Entries) /\ log'.super \in Seq(Entries)
    BY <1>1, LoggedFacts DEF TypeOK, Logs
  <2>4. Listed(log'.native, Run("native")) /\ Len(log'.native) <= Len(prog) + 1
    BY <1>1, <1>2, <2>2, <2>3 DEF Traces
  <2>5. Traced(log'.super, Run("super"), pc)
    BY <1>1, <2>2, TracesOn
  <2>6. prog \in Seq(Ops) /\ bug \in Bug /\ snap.S \in Machine
    BY DEF TypeOK
  <2>7. FirstDivergent(log'.native, log'.super) # 0
    BY <2>1, <2>2
  <2>8. QED BY <2>2, <2>3, <2>4, <2>5, <2>6, <2>7, Named DEF Run
<1>7. QED BY <1>1, <1>4, <1>5, <1>6 DEF Inv, Frozen, Follows, Compared, Traces, Engines

\* Every step keeps the invariant.
LEMMA InvHolds == Spec => []Inv
<1>1. TypeOK /\ TypeOK' /\ Inv /\ [Next]_vars => Inv'
  <2> SUFFICES ASSUME TypeOK, TypeOK', Inv, [Next]_vars PROVE Inv'
    OBVIOUS
  <2>1. CASE Enter
    BY <2>1, InvEnter
  <2>2. CASE Program
    BY <2>2, InvProgram
  <2>3. CASE Stop \/ UNCHANGED vars
    BY <2>3, InvStop
  <2>4. CASE Native
    BY <2>4, InvNative
  <2>5. CASE NativeReturns
    BY <2>5, InvNativeReturns
  <2>6. CASE Abort
    BY <2>6, InvAbort
  <2>7. CASE Super
    BY <2>7, InvSuper
  <2>8. CASE SuperReturns
    BY <2>8, InvSuperReturns
  <2>9. QED BY <2>1, <2>2, <2>3, <2>4, <2>5, <2>6, <2>7, <2>8 DEF Next
<1>2. QED BY <1>1, InvInit, TypeCorrect, PTL DEF Spec

-----------------------------------------------------------------------------
(* The theorems.                                                            *)

\* A test leaves no trace in the program: completed or abandoned by a longjmp,
\* it ends with the state it began with, the PSG's registers apart.
THEOREM LeavesNoTrace == Spec => []Unperturbed
<1>1. Inv => Unperturbed
  BY DEF Inv
<1>2. QED BY <1>1, InvHolds, PTL

\* A verdict is about the routine alone: it tells whether its compiled and its
\* interpreted form, each run to its own return, leave different states.
THEOREM JudgesRight == Spec => []VerdictRight
<1>1. Inv => VerdictRight
  BY DEF Inv
<1>2. QED BY <1>1, InvHolds, PTL

\* The instruction a traced divergence names is the mistranslated one, also when
\* the interpreter repeats instructions and when the trace is full.
THEOREM NamesTheMistake == Spec => []Pinpoints
<1>1. Inv => Pinpoints
  BY DEF Inv
<1>2. QED BY <1>1, InvHolds, PTL
=============================================================================
