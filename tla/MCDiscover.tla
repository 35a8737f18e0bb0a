----------------------------- MODULE MCDiscover -----------------------------
(***************************************************************************)
(* The programs that module Discover compiles: 32 addresses a slot, 4 fixed.*)
(***************************************************************************)
EXTENDS Discover

I(len, cf, to, op, n, count) ==
  [len |-> len, cf |-> cf, to |-> to, op |-> op, n |-> n, count |-> count]
Plain(len, op, n) == I(len, "none", 0, op, n, 0)
Flow(len, cf, to) == I(len, cf, to, "other", 0, 0)

Nop      == Plain(1, "other", 0)     Lda(n)  == Plain(2, "lda", n)
Inca     == Plain(1, "inca", 0)      Clobber == Plain(1, "clobber", 0)
Page(s)  == Plain(3, "page", s)      LdHl(n) == Plain(3, "ldhl", n)
LdVec    == Plain(3, "ldvec", 100)   StVec   == Plain(3, "stvec", 100)
PushHl   == Plain(1, "push", 0)      PopHl   == Plain(1, "pop", 0)
Bump     == Plain(1, "bump", 0)
Ret      == Flow(1, "ret", 0)        RetCc   == Flow(1, "retcc", 0)
Jp(a)    == Flow(3, "jump", a)       JpCc(a) == Flow(3, "jumpcc", a)
Call(a)  == Flow(3, "call", a)       CallCc(a) == Flow(3, "callcc", a)
JpHl     == Flow(1, "jphl", 0)
Table(a, count) == I(1, "jphl", 0, "table", a, count)

\* Instructions one after the other from an offset.
Code(o, is) ==
  LET place(acc, i) == [o |-> acc.o + i.len, f |-> (acc.o :> i) @@ acc.f]
  IN  FoldLeft(place, [o |-> o, f |-> << >>], is).f
\* Words one after the other; read as code they are one-byte instructions.
Words(o, ws) == [a \in {o + 2 * (i - 1) : i \in 1 .. Len(ws)} |-> ws[(a - o) \div 2 + 1]]

E(a, b)  == [addr |-> a, bank |-> b]
Fixed(a) == E(a, None)
P(code, word, seeds, black, routines) ==
  [code |-> code, word |-> word, seeds |-> seeds, black |-> black, routines |-> routines,
   keeps |-> {}]

\* Branches back, forth and into the middle, from an entry above its body.
Moves == <<Flow(2, "none", 0), Flow(2, "ret", 0), Flow(2, "retcc", 0), Flow(2, "call", 0)>>
  \o [i \in 1 .. 4 |-> Flow(2, "jump", 6 + 2 * i)]
  \o [i \in 1 .. 4 |-> Flow(2, "jumpcc", 6 + 2 * i)]
Digit(n, base, i) == 1 + (((n - 1) \div (base ^ i)) % base)
Branches ==
  [n \in 1 .. 2 * 12 ^ 3 |->
     P(0 :> (Code(0, <<Call(10), Ret>>)
               @@ Code(8, [i \in 1 .. 3 |-> Moves[Digit(n, 12, i - 1)]] \o <<Ret>>)),
       << >>, IF n > 12 ^ 3 THEN <<Fixed(0)>> ELSE <<Fixed(0), Fixed(12)>>,
       {}, {Fixed(10)})]

\* Four instructions before a jp (hl).  The routine at 29 returns with the HL it
\* was called with, the one at 20 with another.
Steps == <<LdHl(24), LdHl(28), PushHl, PopHl, Nop, Bump, Call(29), Call(20)>>
Changing == {1, 2, 4, 6, 8}   \* those that may change HL
CallBlock(is) ==
  [P(0 :> (Code(0, is) @@ Code(20, <<LdVec, Ret>>) @@ Code(24, <<Nop, Ret>>)
             @@ Code(28, <<Ret, Ret>>)),
     << >>, <<Fixed(0)>>, {}, {Fixed(0)}) EXCEPT !.keeps = {29}]

\* What the compiler assumes of d, four numbers of steps: no more is popped than
\* was pushed, at most one word is on the stack in the end, and it was in HL
\* since it was loaded there.
WellPushed(d) ==
  LET many(S, x) == Cardinality({i \in S : d[i] = x})
      top == {y \in 1 .. 4 : d[y] = 3 /\ many(y + 1 .. 4, 3) = many(y + 1 .. 4, 4)}
  IN  /\ \A i \in 1 .. 4 : many(1 .. i, 3) >= many(1 .. i, 4)
      /\ many(1 .. 4, 3) - many(1 .. 4, 4) <= 1
      /\ many(1 .. 4, 3) > many(1 .. 4, 4) =>
           \E x \in 1 .. Max(top) - 1 :
             d[x] \in {1, 2} /\ \A z \in x + 1 .. Max(top) : d[z] \notin Changing
Calls ==
  LET all == [n \in 1 .. 8 ^ 4 |-> [i \in 1 .. 4 |-> Digit(n, 8, i - 1)]]
      ds  == SelectSeq(all, WellPushed)
  IN  [k \in 1 .. Len(ds) |->
         CallBlock([i \in 1 .. 4 |-> Steps[ds[k][i]]] \o <<JpHl>>)]

\* A bank selected in line or by a helper, and a routine there; A is lost, or a
\* conditional call may not have paged.
Known3 == {<<Lda(2)>>, <<Lda(1), Inca>>, <<Clobber, Lda(2), Nop>>,
           <<Lda(255), Inca, Inca, Inca>>}
Lost   == {<<Lda(2), Clobber>>, <<Inca>>}
Routines23 == (2 :> Code(4, <<Ret>>)) @@ (3 :> Code(4, <<Nop, Ret>>))
Paging ==
  {P((0 :> (Code(0, <<Jp(8)>>) @@ Code(8, a \o <<Page(1), Call(36), Ret>>)))
       @@ Routines23, << >>, <<Fixed(0)>>, {}, {Fixed(0), E(36, 2)}) : a \in Known3}
  \union
  {P((0 :> (Code(0, <<Jp(8)>>) @@ Code(8, a \o <<Page(1), Call(36), Ret>>)))
       @@ Routines23, << >>, <<Fixed(0)>>, {}, {Fixed(0)}) : a \in Lost}
  \union
  {P((0 :> (Code(0, <<Jp(8)>>) @@ Code(8, a \o <<c, Call(36), Call(68), Ret>>)
              @@ Code(24, <<Page(1), Inca, Page(2), Ret>>)))
       @@ Routines23, << >>, <<Fixed(0), Fixed(24)>>, {},
     {Fixed(0)} \union IF c.cf = "call" THEN {E(36, 2), E(68, 3)} ELSE {}) :
     a \in Known3, c \in {Call(24), CallCc(24)}}
  \union   \* a routine of another bank pages on
  {P((0 :> Code(0, <<Ret>>)) @@ (2 :> Code(4, <<Call(40), Ret, Nop, Nop, Ret>>))
       @@ (1 :> Code(8, <<Ret>>)), << >>, <<Fixed(0), E(36, 2)>>, {}, {E(36, 2), E(40, 2)})}

\* Tables of proven and unproven length: the handlers follow, or code does, or
\* a word of RAM.
Dispatcher(table) == Code(0, <<Call(8), Ret>>) @@ Code(8, <<LdHl(table), Nop>>)
Body12(t) == (12 :> t)
Tables ==
  {P(0 :> (Dispatcher(13) @@ Body12(Table(13, n)) @@ Code(13, [i \in 1 .. 4 |-> Nop])
             @@ Code(17, <<Ret>>) @@ Code(18, <<Nop, Ret>>)),
     0 :> Words(13, <<17, 18, 5, 6>>), <<Fixed(0)>>, {}, {Fixed(8), Fixed(17), Fixed(18)}) :
     n \in {0, 2, 3, 4}}
  \union
  {P(0 :> (Dispatcher(13) @@ Body12(Table(13, n)) @@ Code(13, [i \in 1 .. 6 |-> Nop])
             @@ Code(6, <<Ret, Ret>>) @@ Code(19, <<Ret>>)),
     0 :> Words(13, <<6, 7, 6, w, 6>>), s, {}, {Fixed(8), Fixed(6), Fixed(7)} \union ToSet(s)) :
     n \in {0, 3}, w \in {7, 97}, s \in {<<Fixed(0), Fixed(19)>>}}
  \union
  {P((0 :> (Dispatcher(36) @@ Body12(Table(36, 2)))) @@ (1 :> Code(8, <<Ret, Ret>>)),
     1 :> Words(4, <<40, 41>>), <<Fixed(0)>>, {6}, {Fixed(40), Fixed(41)})}

\* Handlers installed in a vector that a later routine dispatches, and islands.
Vectors ==
  {P(0 :> (Code(0, <<a, b, Call(20), Ret>>) @@ Code(20, <<LdVec, JpHl>>) @@ Code(28, <<Ret>>)),
     << >>, <<Fixed(0)>>, black,
     {Fixed(20)} \union IF black = {} /\ a.op = "ldhl" /\ b.op = "stvec" THEN {Fixed(28)} ELSE {}) :
     a \in {LdHl(28), LdVec}, b \in {StVec, Nop}, black \in {{}, {28}}}
Islands ==
  {P(0 :> (Code(0, <<Call(7), Ret>>) @@ Code(4, <<Ret, Ret, Ret>>) @@ Code(7, <<LdHl(12), JpHl>>)
             @@ Code(12, [i \in 1 .. n |-> Jp(3 + i)])
             @@ Code(24, <<Ret, Ret, Ret, Ret>>)),
     << >>, <<Fixed(0)>>, {},
     {Fixed(7)} \union IF n = 4 THEN {Fixed(3 + i) : i \in 1 .. 4} ELSE {}) : n \in {3, 4}}

Others == FoldSet(LAMBDA p, f : Append(f, p), << >>,
                  Paging \union Tables \union Vectors \union Islands)

MCPrograms == Branches \o Calls \o Others

\* Return addresses that are stale when they are pushed.  HL is changed by a call,
\* or by an instruction that insn_writes_rp does not list:
StaleByCall == <<CallBlock(<<LdHl(24), Call(20), PushHl, LdHl(28), JpHl>>)>>
StaleByBump == <<CallBlock(<<LdHl(24), Bump, PushHl, LdHl(28), JpHl>>)>>
\* the last load listed is branched over, or the push is:
StaleLoad == <<CallBlock(<<LdHl(24), JpCc(9), LdHl(28), PushHl, LdHl(28), JpHl>>)>>
StalePush == <<CallBlock(<<LdHl(24), JpCc(7), PushHl, LdHl(28), JpHl>>)>>

\* Other programs outside of what the compiler handles.  The address a computed call
\* comes back to is called from elsewhere too:
EnteredContinuation ==
  <<P(0 :> (Code(0, <<Call(24), LdHl(24), PushHl, LdHl(28), JpHl>>)
              @@ Code(24, <<Nop, Ret>>) @@ Code(28, <<Ret>>)),
      << >>, <<Fixed(0)>>, {}, {Fixed(0), Fixed(24)})>>
\* a branch into the operand of an instruction, which hides another one:
Skip ==
  <<P(0 :> (Code(0, <<JpCc(9), Ret>>) @@ (8 :> Lda(1)) @@ (9 :> Nop) @@ (10 :> Ret)
              @@ Code(12, <<JpCc(8), Jp(9)>>)),
      << >>, <<Fixed(0), Fixed(12)>>, {}, {Fixed(12)})>>
\* a helper that pages is known only by the call that pages:
LatePager ==
  <<P((0 :> (Code(0, <<Jp(8)>>) @@ Code(8, <<Lda(2), Call(24), Call(36), Ret>>)
              @@ Code(24, <<Page(1), Ret>>)))
        @@ (1 :> Code(4, <<Ret>>)) @@ Routines23, << >>, <<Fixed(0)>>, {},
      {Fixed(0), Fixed(24)})>>
=============================================================================
