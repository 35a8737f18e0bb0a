----------------------------- MODULE DataLemmas -----------------------------
(* Sequences used as stacks, pushed with Append and popped with Front, and   *)
(* induction over data: the facts the proofs about the components rest on.   *)
EXTENDS Integers, SequencesExt, SequenceTheorems, WellFoundedInduction, TLAPS

\* Everything but the last element.
LEMMA FrontFacts ==
  ASSUME NEW S, NEW s \in Seq(S), s # << >>
  PROVE  /\ Len(s) \in Nat /\ Len(s) > 0
         /\ Front(s) \in Seq(S)
         /\ Len(Front(s)) = Len(s) - 1
         /\ \A i \in 1 .. Len(s) - 1 : Front(s)[i] = s[i]
         /\ Last(s) = s[Len(s)] /\ Last(s) \in S
<1>1. Len(s) \in Nat /\ Len(s) > 0
  BY SMT
<1>2. \A i \in 1 .. Len(s) : s[i] \in S
  BY <1>1, SMT
<1>3. /\ Front(s) \in Seq(S)
      /\ Len(Front(s)) = IF 1 <= Len(s) - 1 THEN Len(s) - 1 - 1 + 1 ELSE 0
      /\ \A i \in 1 .. Len(s) - 1 - 1 + 1 : Front(s)[i] = s[1 + i - 1]
  <2>1. \A i \in 1 .. Len(s) - 1 : s[i] \in S
    BY <1>1, <1>2
  <2>2. 1 \in Int /\ Len(s) - 1 \in Int
    BY <1>1
  <2>3. QED BY <2>1, <2>2, SubSeqProperties DEF Front
<1>4. \A k \in Nat : k > 0 =>
        /\ (IF 1 <= k - 1 THEN k - 1 - 1 + 1 ELSE 0) = k - 1
        /\ 1 .. k - 1 - 1 + 1 = 1 .. k - 1
  OBVIOUS
<1>5. Len(Front(s)) = Len(s) - 1
  BY <1>1, <1>3, <1>4, Zenon
<1>6. \A i \in 1 .. Len(s) - 1 : Front(s)[i] = s[i]
  <2>1. TAKE i \in 1 .. Len(s) - 1
  <2>2. i \in 1 .. Len(s) - 1 - 1 + 1
    BY <1>1, <1>4
  <2>3. Front(s)[i] = s[1 + i - 1]
    BY <1>3, <2>2
  <2>4. 1 + i - 1 = i
    BY <1>1
  <2>5. QED BY <2>3, <2>4
<1>7. Last(s) = s[Len(s)] /\ Last(s) \in S
  BY <1>1, <1>2 DEF Last
<1>8. QED BY <1>1, <1>3, <1>5, <1>6, <1>7

\* What a push changes.
LEMMA AppendFacts ==
  ASSUME NEW S, NEW s \in Seq(S), NEW v \in S
  PROVE  /\ Append(s, v) \in Seq(S)
         /\ Len(Append(s, v)) = Len(s) + 1
         /\ Len(s) \in Nat
         /\ \A i \in 1 .. Len(s) : Append(s, v)[i] = s[i]
         /\ Append(s, v)[Len(s) + 1] = v
BY SMT

-----------------------------------------------------------------------------
(* Induction, by the least counterexample, and functions defined by it.     *)

\* A nonempty set of naturals has a least element.
LEMMA Least ==
  ASSUME NEW T, T \subseteq Nat, T # {}
  PROVE  \E x \in T : \A y \in T : x <= y
<1> DEFINE R == OpToRel(<, Nat)
<1>1. IsWellFoundedOn(R, Nat)
  BY NatLessThanWellFounded
<1>2. \A x, y \in Nat : y < x => <<y, x>> \in R
  BY DEF OpToRel
<1> HIDE DEF R
<1>3. PICK x \in T : \A y \in T : ~ (<<y, x>> \in R)
  BY <1>1, WFMin
<1>4. ASSUME NEW y \in T PROVE x <= y
  <2>1. x \in Nat /\ y \in Nat
    OBVIOUS
  <2>2. ~ (y < x)
    BY <2>1, <1>2, <1>3
  <2>3. QED BY <2>1, <2>2
<1>5. QED BY <1>4

\* A function on the naturals that calls itself on a smaller argument exists.
\* prev[n] is that argument and H[n] what is made of the value found there.
Descends(prev) == \A n \in Nat \ {0} : prev[n] \in Nat /\ prev[n] < n
StaysIn(S, H)  == \A n \in Nat \ {0} : \A s \in S : H[n][s] \in S
Recursive(f, S, first, prev, H) ==
  /\ f \in [Nat -> S] /\ f[0] = first
  /\ \A n \in Nat \ {0} : f[n] = H[n][f[prev[n]]]

LEMMA Recursion ==
  ASSUME NEW S, NEW first \in S, NEW prev, NEW H, Descends(prev), StaysIn(S, H)
  PROVE  \E f : Recursive(f, S, first, prev, H)
<1>a. /\ \A n \in Nat \ {0} : prev[n] \in Nat /\ prev[n] < n
      /\ \A n \in Nat \ {0} : \A s \in S : H[n][s] \in S
  BY DEF Descends, StaysIn
<1> DEFINE Upto(f, n) == /\ f \in [0 .. n -> S] /\ f[0] = first
                         /\ \A k \in 1 .. n : f[k] = H[k][f[prev[k]]]
           Missing == {n \in Nat : ~ \E f : Upto(f, n)}
\* Two of them agree where both are defined.
<1>1. ASSUME NEW f, NEW g, NEW m \in Nat, NEW n \in Nat, Upto(f, m), Upto(g, n),
             NEW x \in 0 .. m, x \in 0 .. n
      PROVE  f[x] = g[x]
  <2> DEFINE T == {k \in 0 .. m : k \in 0 .. n /\ f[k] # g[k]}
  <2>1. SUFFICES ASSUME T # {} PROVE FALSE
    BY <1>1
  <2>2. PICK k \in T : \A l \in T : k <= l
    <3>1. T \subseteq Nat
      OBVIOUS
    <3>2. QED BY <2>1, <3>1, Least
  <2>3. k # 0
    BY <1>1, <2>2
  <2>4. k \in 1 .. m /\ k \in 1 .. n /\ k \in Nat \ {0}
    BY <2>2, <2>3
  <2>5. prev[k] \in 0 .. m /\ prev[k] \in 0 .. n /\ prev[k] < k
    BY <1>a, <2>4
  <2>6. prev[k] \notin T
    BY <2>2, <2>4, <2>5
  <2>7. f[prev[k]] = g[prev[k]]
    BY <2>5, <2>6
  <2>8. QED BY <1>1, <2>2, <2>4, <2>7
<1>2. Missing = {}
  <2>1. SUFFICES ASSUME Missing # {} PROVE FALSE
    OBVIOUS
  <2>2. PICK n \in Missing : \A l \in Missing : n <= l
    <3>1. Missing \subseteq Nat
      OBVIOUS
    <3>2. QED BY <2>1, <3>1, Least
  <2>3. CASE n = 0
    <3>1. Upto([x \in 0 .. 0 |-> first], 0)
      OBVIOUS
    <3>2. QED BY <2>2, <2>3, <3>1
  <2>4. CASE n # 0
    <3>1. n \in Nat \ {0} /\ n - 1 \in Nat /\ n - 1 \notin Missing
      <4>1. n \in Nat
        OBVIOUS
      <4>2. n - 1 \in Nat /\ ~ (n <= n - 1)
        BY <4>1, <2>4
      <4>3. QED BY <4>1, <4>2, <2>2, <2>4
    <3>2. PICK f : Upto(f, n - 1)
      BY <3>1
    <3>3. /\ prev[n] \in 0 .. n - 1 /\ f[prev[n]] \in S /\ H[n][f[prev[n]]] \in S
      BY <1>a, <3>1, <3>2
    <3> DEFINE g == [x \in 0 .. n |-> IF x = n THEN H[n][f[prev[n]]] ELSE f[x]]
    <3>4. g \in [0 .. n -> S] /\ g[0] = first
      BY <3>1, <3>2, <3>3
    <3>5. ASSUME NEW k \in 1 .. n PROVE g[k] = H[k][g[prev[k]]]
      <4>1. prev[k] \in 0 .. k - 1 /\ prev[k] # n
        BY <1>a, <3>1
      <4>2. g[prev[k]] = f[prev[k]]
        BY <3>1, <4>1
      <4>3. CASE k = n
        BY <4>2, <4>3
      <4>4. CASE k # n
        <5>1. k \in 1 .. n - 1
          BY <3>1, <4>4
        <5>2. g[k] = f[k] /\ f[k] = H[k][f[prev[k]]]
          BY <3>2, <4>4, <5>1
        <5>3. QED BY <4>2, <5>2
      <4>5. QED BY <4>3, <4>4
    <3>6. Upto(g, n)
      BY <3>4, <3>5
    <3>7. QED BY <2>2, <3>6
  <2>5. QED BY <2>3, <2>4
<1> DEFINE F(n) == CHOOSE f : Upto(f, n)
           f == [n \in Nat |-> F(n)[n]]
<1>3. \A n \in Nat : Upto(F(n), n)
  BY <1>2
<1> HIDE DEF F
<1>4. f \in [Nat -> S] /\ f[0] = first
  BY <1>3
<1> HIDE DEF Upto
<1>5. ASSUME NEW n \in Nat \ {0} PROVE f[n] = H[n][f[prev[n]]]
  <2>1. Upto(F(n), n) /\ Upto(F(prev[n]), prev[n])
    BY <1>a, <1>3
  <2>2. prev[n] \in 0 .. n /\ prev[n] \in 0 .. prev[n] /\ n \in 1 .. n
    BY <1>a
  <2>3. F(n)[prev[n]] = F(prev[n])[prev[n]]
    <3>1. n \in Nat /\ prev[n] \in Nat
      BY <1>a
    <3>2. QED BY <1>1, <2>1, <2>2, <3>1
  <2>4. F(n)[n] = H[n][F(n)[prev[n]]]
    BY <2>1, <2>2 DEF Upto
  <2>5. prev[n] \in Nat
    BY <1>a
  <2>6. QED BY <2>3, <2>4, <2>5
<1>6. Recursive(f, S, first, prev, H)
  BY <1>4, <1>5 DEF Recursive
<1>7. QED BY <1>6

\* What holds of 0 and passes from each number to the next holds up to any.
LEMMA Climb ==
  ASSUME NEW m \in Nat, NEW T, 0 \in T, \A n \in 0 .. m - 1 : n \in T => n + 1 \in T
  PROVE  \A n \in 0 .. m : n \in T
<1> DEFINE Out == {n \in 0 .. m : n \notin T}
<1>1. SUFFICES ASSUME Out # {} PROVE FALSE
  OBVIOUS
<1>2. PICK n \in Out : \A k \in Out : n <= k
  <2>1. Out \subseteq Nat
    OBVIOUS
  <2>2. QED BY <1>1, <2>1, Least
<1>3. n # 0
  BY <1>2
<1>4. n - 1 \in 0 .. m - 1 /\ n - 1 \in 0 .. m /\ ~ (n <= n - 1)
  BY <1>2, <1>3
<1>5. n - 1 \in T
  BY <1>2, <1>4
<1>6. n - 1 + 1 \in T /\ n - 1 + 1 = n
  BY <1>2, <1>4, <1>5
<1>7. QED BY <1>2, <1>6

\* A function on 0 .. m whose every value is made of the one before exists.
Extends(m, S, H) == \A n \in 1 .. m : \A s \in S : H[n][s] \in S
Chain(f, m, S, first, H) ==
  /\ f \in [0 .. m -> S] /\ f[0] = first
  /\ \A n \in 1 .. m : f[n] = H[n][f[n - 1]]

LEMMA Chaining ==
  ASSUME NEW m \in Nat, NEW S, NEW first \in S, NEW H, Extends(m, S, H)
  PROVE  \E f : Chain(f, m, S, first, H)
<1>1. \A n \in 1 .. m : \A s \in S : H[n][s] \in S
  BY DEF Extends
<1> DEFINE prev == [n \in Nat |-> n - 1]
           G == [n \in Nat |-> [s \in S |-> IF n <= m THEN H[n][s] ELSE s]]
<1>2. Descends(prev)
  BY DEF Descends
<1>3. StaysIn(S, G)
  BY <1>1 DEF StaysIn
<1>4. PICK g : Recursive(g, S, first, prev, G)
  <2> HIDE DEF prev, G
  <2>1. QED BY <1>2, <1>3, Recursion
<1> DEFINE f == [n \in 0 .. m |-> g[n]]
<1>5. g \in [Nat -> S] /\ g[0] = first /\ \A n \in Nat \ {0} : g[n] = G[n][g[prev[n]]]
  BY <1>4 DEF Recursive
<1>6. f \in [0 .. m -> S] /\ f[0] = first
  BY <1>5
<1>7. ASSUME NEW n \in 1 .. m PROVE f[n] = H[n][f[n - 1]]
  <2>1. n \in Nat \ {0} /\ n \in 0 .. m /\ n - 1 \in 0 .. m /\ n - 1 \in Nat /\ n <= m
    OBVIOUS
  <2>2. prev[n] = n - 1 /\ g[n - 1] \in S
    BY <2>1, <1>5
  <2>3. g[n] = G[n][g[n - 1]]
    BY <2>1, <2>2, <1>5
  <2>4. G[n][g[n - 1]] = H[n][g[n - 1]]
    BY <2>1, <2>2
  <2>5. QED BY <2>1, <2>3, <2>4
<1>8. QED BY <1>6, <1>7 DEF Chain
=============================================================================
