---------------------------- MODULE SessionProofs ----------------------------
(***************************************************************************)
(* For every command line, guest, route, clock and player: the limit, the   *)
(* report, the sound and the window's pace are exact, a route executes on   *)
(* time and to its end, and the controller is the script's.                 *)
(***************************************************************************)
EXTENDS Session, DataLemmas

\* A route that loads is in the order of its frames, not only from one command
\* to the next.
LEMMA Sorted ==
  ASSUME NEW r \in Seq(Event), Loads(r),
         NEW i \in 1 .. Len(r), NEW j \in 1 .. Len(r), i <= j
  PROVE  r[i].frame <= r[j].frame
<1>1. \A k \in 1 .. Len(r) : r[k].frame \in Nat
  <2>1. \A k \in 1 .. Len(r) : r[k] \in Event
    OBVIOUS
  <2>2. QED BY <2>1 DEF Event
<1>2. \A k \in 1 .. Len(r) - 1 : r[k].frame <= r[k + 1].frame
  BY DEF Loads
<1> DEFINE T == {k \in i .. Len(r) : r[k].frame < r[i].frame}
<1>3. T = {}
  <2>1. SUFFICES ASSUME T # {} PROVE FALSE
    OBVIOUS
  <2>2. PICK k \in T : \A l \in T : k <= l
    <3>1. T \subseteq Nat
      OBVIOUS
    <3>2. QED BY <2>1, <3>1, Least
  <2>3. k # i /\ k \in i .. Len(r) /\ r[k].frame < r[i].frame
    BY <2>2, <1>1
  <2>4. k - 1 \in i .. Len(r) /\ k - 1 \notin T
    BY <2>2, <2>3
  <2>5. r[k - 1].frame >= r[i].frame
    BY <2>4, <1>1
  <2>6. r[k - 1].frame <= r[k].frame
    <3>1. k - 1 \in 1 .. Len(r) - 1 /\ k - 1 + 1 = k
      BY <2>3, <2>4
    <3>2. QED BY <3>1, <1>2
  <2>7. QED BY <2>3, <2>4, <2>5, <2>6, <1>1
<1>4. j \in i .. Len(r) /\ j \notin T
  BY <1>3
<1>5. QED BY <1>1, <1>4

\* A count of cycles is its whole sample frames and a remainder.
LEMMA Division ==
  ASSUME NEW t \in Nat
  PROVE  /\ t \div Div \in Nat /\ t % Div \in 0 .. Div - 1
         /\ t = (Div * (t \div Div)) + (t % Div)
<1>1. \A n \in Nat : n \div 16 \in Nat /\ n % 16 \in 0 .. 15
  OBVIOUS
<1>2. \A n \in Nat : n = (16 * (n \div 16)) + (n % 16)
  OBVIOUS
<1>3. Div = 16 /\ 0 .. Div - 1 = 0 .. 15
  BY DEF Div
<1>4. QED BY <1>1, <1>2, <1>3

-----------------------------------------------------------------------------
(* Types.                                                                   *)

LEMMA OptionFacts ==
  ASSUME TypeOK
  PROVE  /\ opt.route \in Seq(Event) /\ opt.press \in Seq(Press)
         /\ opt.frames \in Nat \union {Unset} /\ opt.dump \in Nat
         /\ opt.routed \in BOOLEAN /\ opt.window \in BOOLEAN
         /\ opt.sound \in BOOLEAN /\ opt.report \in BOOLEAN
<1>1. opt \in Option
  BY SessionAssumption DEF TypeOK
<1>2. QED BY <1>1 DEF Option

LEMMA FinishFacts ==
  ASSUME NEW how, Finish(how)
  PROVE  /\ pc' = "exit" /\ ending' = how /\ status' \in {0, 1}
         /\ status' = 0 => ~route.failed
BY DEF Finish, Exit

LEMMA LimitFacts ==
  ASSUME TypeOK, Refused = 0
  PROVE  /\ Limit \in Nat
         /\ Routed => /\ Loads(opt.route) /\ LastFrame \in Nat
                      /\ Limit # 0 => LastFrame <= Limit
<1>1. ASSUME Routed
      PROVE  /\ Loads(opt.route) /\ opt.route # << >>
             /\ opt.frames # Unset => LastFrame <= opt.frames
  <2>1. Loads(opt.route)
    BY <1>1 DEF Refused
  <2>2. opt.frames # Unset => ~(LastFrame > opt.frames)
    BY <1>1 DEF Refused
  <2>3. opt.route # << >>
    BY <2>1 DEF Loads
  <2>4. LastFrame \in Nat
    <3>1. opt.route[Len(opt.route)] \in Event
      BY <2>3, OptionFacts
    <3>2. QED BY <3>1 DEF LastFrame, Event
  <2>5. QED BY <2>1, <2>2, <2>3, <2>4, OptionFacts DEF Unset
<1>2. Routed => LastFrame \in Nat
  <2>1. ASSUME Routed PROVE opt.route[Len(opt.route)] \in Event
    BY <2>1, <1>1, OptionFacts
  <2>2. QED BY <2>1 DEF LastFrame, Event
<1>3. Limit \in Nat
  BY <1>2, OptionFacts DEF Limit, Unset
<1>4. ASSUME Routed, Limit # 0 PROVE LastFrame <= Limit
  BY <1>1, <1>2, <1>4, OptionFacts DEF Limit
<1>5. QED BY <1>1, <1>2, <1>3, <1>4

\* The command that is due is one of the route.
LEMMA CommandFacts ==
  ASSUME TypeOK, Due
  PROVE  /\ route.next \in 1 .. Len(opt.route)
         /\ Command.frame \in Nat /\ Command.val \in Nat /\ Command.frame <= frame
<1>1. route.next \in 1 .. Len(opt.route)
  <2>1. route.next \in Nat \ {0}
    BY DEF TypeOK
  <2>2. route.next <= Len(opt.route)
    BY DEF Due
  <2>3. Len(opt.route) \in Nat
    BY OptionFacts
  <2>4. QED BY <2>1, <2>2, <2>3
<1>2. Command \in Event
  BY <1>1, OptionFacts DEF Command
<1>3. QED BY <1>1, <1>2 DEF Event, Due, Command

\* A step of the guest is no longer than a frame.
LEMMA StepFacts ==
  ASSUME NEW n \in Steps
  PROVE  n \in Nat /\ n >= 1 /\ n <= FrameCyc
<1>1. n \in 1 .. FrameCyc
  BY SessionAssumption
<1>2. FrameCyc \in Nat
  BY DEF FrameCyc
<1>3. QED BY <1>1, <1>2

\* A stream by its fields.
LEMMA StreamFacts ==
  ASSUME NEW p \in Stream
  PROVE  /\ p.left \in 0 .. 15
         /\ p.wr \in Nat /\ p.wr <= 8192 /\ p.rd \in Nat /\ p.rd <= 8192
         /\ p = [left |-> p.left, wr |-> p.wr, rd |-> p.rd]
<1>1. /\ p.left \in 0 .. Div - 1 /\ p.wr \in 0 .. Scratch /\ p.rd \in 0 .. Scratch
      /\ p = [left |-> p.left, wr |-> p.wr, rd |-> p.rd]
  BY DEF Stream
<1>2. Div - 1 = 15
  BY DEF Div
<1>3. Scratch \in Nat
  BY DEF Scratch
<1>4. p.wr \in Nat /\ p.wr <= Scratch /\ p.rd \in Nat /\ p.rd <= Scratch
  BY <1>1, <1>3
<1>5. p.left \in 0 .. 15
  BY <1>1, <1>2
<1>6. QED BY <1>1, <1>4, <1>5 DEF Scratch

\* Indices inside the scratch buffer make a stream.
LEMMA InScratch ==
  ASSUME NEW l \in 0 .. 15, NEW w \in Nat, NEW r \in Nat, w <= 8192, r <= 8192
  PROVE  [left |-> l, wr |-> w, rd |-> r] \in Stream
<1>1. Scratch \in Nat /\ w <= Scratch /\ r <= Scratch
  BY DEF Scratch
<1>2. w \in 0 .. Scratch /\ r \in 0 .. Scratch
  BY <1>1
<1>3. Div - 1 = 15
  BY DEF Div
<1>4. l \in 0 .. Div - 1
  BY <1>3
<1>5. QED BY <1>2, <1>4 DEF Stream

LEMMA Advances ==
  ASSUME NEW p \in Stream, NEW n \in Nat
  PROVE  /\ PsgAdvance(p, n) \in Stream
         /\ p.rd <= p.wr => PsgAdvance(p, n).rd <= PsgAdvance(p, n).wr
         /\ PsgAdvance(p, n).rd = p.rd
         /\ (Div * p.wr) + p.left + n <= Div * Scratch =>
              (Div * PsgAdvance(p, n).wr) + PsgAdvance(p, n).left = (Div * p.wr) + p.left + n
<1>a. PICK l : l = p.left
  OBVIOUS
<1>b. PICK w : w = p.wr
  OBVIOUS
<1>c. PICK r : r = p.rd
  OBVIOUS
<1>1. /\ l \in 0 .. 15 /\ w \in Nat /\ w <= 8192 /\ r \in Nat /\ r <= 8192
      /\ p = [left |-> l, wr |-> w, rd |-> r]
  BY <1>a, <1>b, <1>c, StreamFacts
<1>d. PICK q : q = (n + l) \div Div
  OBVIOUS
<1>e. PICK m : m = (n + l) % Div
  OBVIOUS
<1>2. q \in Nat /\ m \in 0 .. 15 /\ n + l = (16 * q) + m
  <2>1. PICK t : t = n + l
    OBVIOUS
  <2>2. t \in Nat
    BY <1>1, <2>1
  <2>3. t \div Div \in Nat /\ t % Div \in 0 .. 15 /\ t = (16 * (t \div Div)) + (t % Div)
    BY <2>2, Division DEF Div
  <2>4. QED BY <1>d, <1>e, <2>1, <2>3
<1>3. PICK v : v = IF w + q <= 8192 THEN w + q ELSE 8192
  OBVIOUS
<1>4. PsgAdvance(p, n) = [left |-> m, wr |-> v, rd |-> r]
  BY <1>1, <1>d, <1>e, <1>3 DEF PsgAdvance, Scratch
<1>5. v \in Nat /\ v <= 8192 /\ (r <= w => r <= v)
  BY <1>1, <1>2, <1>3
<1>6. (16 * w) + l + n <= 16 * 8192 => (16 * v) + m = (16 * w) + l + n
  BY <1>1, <1>2, <1>3
<1>7. PsgAdvance(p, n) \in Stream
  BY <1>1, <1>2, <1>4, <1>5, InScratch
<1>8. QED BY <1>1, <1>4, <1>5, <1>6, <1>7 DEF Div, Scratch

LEMMA Renders ==
  ASSUME NEW p \in Stream, p.rd <= p.wr, NEW n \in Nat, n > 0
  PROVE  /\ Copied(p, n) \in Nat
         /\ PsgRender(p, n) \in Stream
         /\ PsgRender(p, n).rd <= PsgRender(p, n).wr
         /\ PsgRender(p, n).left = p.left
         /\ Available(PsgRender(p, n)) + Copied(p, n) = Available(p)
         /\ Copied(p, n) = 0 => PsgRender(p, n).rd = 0 /\ PsgRender(p, n).wr = 0
<1>a. PICK l : l = p.left
  OBVIOUS
<1>b. PICK w : w = p.wr
  OBVIOUS
<1>c. PICK r : r = p.rd
  OBVIOUS
<1>1. /\ l \in 0 .. 15 /\ w \in Nat /\ w <= 8192 /\ r \in Nat /\ r <= 8192
      /\ p = [left |-> l, wr |-> w, rd |-> r]
  BY <1>a, <1>b, <1>c, StreamFacts
<1>2. PICK c : c = IF n < w - r THEN n ELSE w - r
  OBVIOUS
<1>3. Copied(p, n) = c
  BY <1>1, <1>2 DEF Copied, Available
<1>4. r <= w
  BY <1>1
<1>5. c \in Nat /\ r + c <= w /\ (c = 0 => r = w)
  BY <1>1, <1>2, <1>4
<1>6. ASSUME r + c >= w
      PROVE  PsgRender(p, n) = [left |-> l, wr |-> 0, rd |-> 0] /\ r + c = w
  BY <1>1, <1>3, <1>5, <1>6 DEF PsgRender
<1>7. ASSUME ~(r + c >= w)
      PROVE  /\ PsgRender(p, n) = [left |-> l, wr |-> w, rd |-> r + c]
             /\ r + c \in Nat /\ r + c <= 8192
  BY <1>1, <1>3, <1>5, <1>7 DEF PsgRender
<1> DEFINE s == PsgRender(p, n)
<1>d. PICK w2 : w2 = IF r + c >= w THEN 0 ELSE w
  OBVIOUS
<1>e. PICK r2 : r2 = IF r + c >= w THEN 0 ELSE r + c
  OBVIOUS
<1>8. /\ s = [left |-> l, wr |-> w2, rd |-> r2]
      /\ w2 \in Nat /\ w2 <= 8192 /\ r2 \in Nat /\ r2 <= 8192
      /\ r2 <= w2 /\ (w2 - r2) + c = w - r /\ (c = 0 => w2 = 0 /\ r2 = 0)
  <2>1. s = [left |-> l, wr |-> w2, rd |-> r2]
    BY <1>6, <1>7, <1>d, <1>e
  <2>2. QED BY <1>1, <1>4, <1>5, <1>d, <1>e, <2>1
<1>9. s \in Stream
  BY <1>1, <1>8, InScratch
<1>10. Available(s) = w2 - r2 /\ Available(p) = w - r
  BY <1>1, <1>8 DEF Available
<1>11. s.rd = r2 /\ s.wr = w2 /\ s.left = l /\ p.left = l
  BY <1>1, <1>8
<1> HIDE DEF s
<1>12. QED BY <1>3, <1>5, <1>8, <1>9, <1>10, <1>11 DEF s

\* The stream of the PSG is also read no further than written.
Typed == TypeOK /\ psg.rd <= psg.wr

LEMMA TypedInit == ASSUME Init PROVE Typed
<1>1. PsgInit \in Stream /\ PsgInit.rd <= PsgInit.wr
  <2>1. PsgInit = [left |-> 0, wr |-> 0, rd |-> 0]
    BY DEF PsgInit
  <2>2. PsgInit \in Stream
    BY <2>1, InScratch
  <2>3. QED BY <2>1, <2>2
<1>2. psg \in Stream /\ psg.rd <= psg.wr
  BY <1>1 DEF Init
<1>3. /\ used \in [native : Nat, interp : Nat]
      /\ route \in [next : Nat \ {0}, failed : BOOLEAN]
      /\ host \in [pad : Nat, now : Nat, deadline : Nat, shown : Nat, worst : Nat]
  <2>1. used = [native |-> 0, interp |-> 0] /\ route = [next |-> 1, failed |-> FALSE]
    BY DEF Init
  <2>2. host = [pad |-> 0, now |-> 0, deadline |-> 0, shown |-> 0, worst |-> 0]
    BY DEF Init, IdleHost
  <2>3. 1 \in Nat \ {0} /\ 0 \in Nat
    OBVIOUS
  <2>4. used \in [native : Nat, interp : Nat] /\ route \in [next : Nat \ {0}, failed : BOOLEAN]
    BY <2>1, <2>3
  <2>5. QED BY <2>2, <2>3, <2>4
<1>4. /\ opt \in Options /\ pc = "main" /\ ending = "" /\ dumped = {}
      /\ status = 0 /\ limit = 0 /\ frame = 0 /\ elapsed = 0 /\ hyb = 0 /\ cell = 0 /\ sunk = 0
  BY DEF Init
<1>5. /\ status \in 0 .. 2 /\ limit \in Nat /\ frame \in Nat /\ elapsed \in Nat /\ hyb \in Nat
      /\ cell \in Nat /\ sunk \in Nat
  <2>1. /\ status = 0 /\ limit = 0 /\ frame = 0 /\ elapsed = 0 /\ hyb = 0 /\ cell = 0 /\ sunk = 0
    BY <1>4
  <2>2. 0 \in Nat /\ 0 \in 0 .. 2
    OBVIOUS
  <2>3. QED BY <2>1, <2>2, Zenon
<1>6. QED BY <1>2, <1>3, <1>4, <1>5 DEF Typed, TypeOK

LEMMA TypedStep ==
  ASSUME Typed, [Next]_vars
  PROVE  Typed'
<1>t. TypeOK /\ psg.rd <= psg.wr
  BY DEF Typed
<1>1. Start => Typed'
  <2>1. SUFFICES ASSUME Start PROVE Typed'
    OBVIOUS
  <2>2. Refused \in 0 .. 2
    BY DEF Refused
  <2>3. limit' \in Nat /\ status' \in 0 .. 2
    BY <1>t, <2>1, <2>2, LimitFacts DEF Start, Exit, TypeOK
  <2>4. /\ pc' \in {"route", "guest", "exit"} /\ ending' \in {ending, "refused"}
    BY <2>1 DEF Start, Exit
  <2>5. QED BY <1>t, <2>1, <2>3, <2>4 DEF Start, Typed, TypeOK, Stages
<1>2. ASSUME NEW by \in {"native", "interp"}, NEW n \in Steps PROVE GuestStep(by, n) => Typed'
  <2>1. SUFFICES ASSUME GuestStep(by, n) PROVE Typed'
    OBVIOUS
  <2>2. n \in Nat
    BY SessionAssumption
  <2>a. /\ elapsed \in Nat /\ hyb \in Nat /\ psg \in Stream
        /\ used \in [native : Nat, interp : Nat]
    BY <1>t DEF TypeOK
  <2>3. elapsed' \in Nat /\ hyb' \in Nat
    BY <2>1, <2>2, <2>a DEF GuestStep, Accounts
  <2>4. used' \in [native : Nat, interp : Nat]
    <3>1. used' = [used EXCEPT ![by] = used[by] + n]
      BY <2>1 DEF GuestStep
    <3>2. used[by] + n \in Nat
      BY <2>2, <2>a
    <3>3. QED BY <3>1, <3>2, <2>a
  <2>5. psg' \in Stream /\ psg'.rd <= psg'.wr
    <3>1. PsgAdvance(psg, n) \in Stream /\ PsgAdvance(psg, n).rd <= PsgAdvance(psg, n).wr
      BY <1>t, <2>2, <2>a, Advances
    <3>2. psg' = PsgAdvance(psg, n) \/ psg' = psg
      BY <2>1 DEF GuestStep
    <3>3. QED BY <1>t, <2>a, <3>1, <3>2
  <2>6. pc' \in {"input", "guest"}
    BY <2>1 DEF GuestStep
  <2>7. QED BY <1>t, <2>1, <2>3, <2>4, <2>5, <2>6 DEF GuestStep, Typed, TypeOK, Stages
<1>3. GuestStores => Typed'
  <2>1. SUFFICES ASSUME GuestStores PROVE Typed'
    OBVIOUS
  <2>2. cell' \in Nat
    BY <2>1 DEF GuestStores
  <2>3. QED BY <1>t, <2>1, <2>2 DEF GuestStores, Typed, TypeOK
<1>4. GuestReturns => Typed'
  <2>1. SUFFICES ASSUME GuestReturns PROVE Typed'
    OBVIOUS
  <2>2. pc' = "exit" /\ ending' = "returned" /\ status' \in 0 .. 2
    BY <2>1, FinishFacts DEF GuestReturns
  <2>3. QED BY <1>t, <2>1, <2>2 DEF GuestReturns, Typed, TypeOK
<1>5. ScriptInput => Typed'
  <2>1. SUFFICES ASSUME ScriptInput PROVE Typed'
    OBVIOUS
  <2>2. frame' \in Nat
    <3>1. frame \in Nat
      BY <1>t DEF TypeOK
    <3>2. QED BY <2>1, <3>1 DEF ScriptInput
  <2>3. QED BY <1>t, <2>1, <2>2 DEF ScriptInput, Typed, TypeOK, Stages
<1>6. ASSUME NEW good \in BOOLEAN PROVE RouteCommand(good) => Typed'
  <2>1. SUFFICES ASSUME RouteCommand(good) PROVE Typed'
    OBVIOUS
  <2>2. cell' \in Nat
    <3>1. Command.val \in Nat /\ cell \in Nat
      BY <1>t, <2>1, CommandFacts DEF RouteCommand, TypeOK
    <3>2. \/ cell' = Command.val \/ cell' = Or(cell, Command.val) \/ cell' = cell
      BY <2>1 DEF RouteCommand
    <3>3. Or(cell, Command.val) \in Nat
      BY DEF Or
    <3>4. QED BY <3>1, <3>2, <3>3
  <2>3. route' \in [next : Nat \ {0}, failed : BOOLEAN]
    <3>1. route.next \in Nat \ {0}
      BY <1>t DEF TypeOK
    <3>2. route.next + 1 \in Nat \ {0}
      BY <3>1
    <3>3. PICK f \in BOOLEAN : route' = [next |-> route.next + 1, failed |-> f]
      BY <2>1, Zenon DEF RouteCommand
    <3>4. QED BY <3>2, <3>3
  <2>4. QED BY <1>t, <2>1, <2>2, <2>3 DEF RouteCommand, Typed, TypeOK
<1>7. RouteFails => Typed'
  <2>1. SUFFICES ASSUME RouteFails PROVE Typed'
    OBVIOUS
  <2>2. pc' = "exit" /\ ending' = "route" /\ status' \in 0 .. 2
    BY <2>1, FinishFacts DEF RouteFails, Exit
  <2>3. QED BY <1>t, <2>1, <2>2 DEF RouteFails, Typed, TypeOK
<1>8. RouteDone => Typed'
  BY <1>t DEF RouteDone, Typed, TypeOK, Stages
<1>9. DrainSound => Typed'
  <2>1. SUFFICES ASSUME DrainSound PROVE Typed'
    OBVIOUS
  <2>2. psg' \in Stream /\ psg'.rd <= psg'.wr /\ sunk' \in Nat
    <3>0. psg \in Stream /\ sunk \in Nat
      BY <1>t DEF TypeOK
    <3>1. psg \in Stream /\ sunk \in Nat /\ Chunk \in Nat /\ Chunk > 0
      BY <3>0 DEF Chunk
    <3>2. /\ PsgRender(psg, Chunk) \in Stream /\ Copied(psg, Chunk) \in Nat
          /\ PsgRender(psg, Chunk).rd <= PsgRender(psg, Chunk).wr
      BY <1>t, <3>1, Renders
    <3>3. psg' = PsgRender(psg, Chunk) \/ psg' = psg
      BY <2>1 DEF DrainSound
    <3>4. sunk' = sunk + Copied(psg, Chunk) \/ sunk' = sunk + 0
      BY <2>1 DEF DrainSound
    <3>5. QED BY <1>t, <3>1, <3>2, <3>3, <3>4
  <2>3. QED BY <1>t, <2>1, <2>2 DEF DrainSound, Typed, TypeOK, Stages
<1>10. Dump => Typed'
  BY <1>t DEF Dump, Typed, TypeOK, Stages
<1>11. Headless => Typed'
  BY <1>t DEF Headless, Typed, TypeOK, Stages
<1>12. ASSUME NEW late \in Hitches, NEW held \in Pads PROVE Present(late, held) => Typed'
  <2>1. SUFFICES ASSUME Present(late, held) PROVE Typed'
    OBVIOUS
  <2>2. late \in Nat /\ held \in Nat /\ Period \in Nat
    BY SessionAssumption
  <2>3. /\ host.now \in Nat /\ host.deadline \in Nat /\ host.shown \in Nat /\ host.worst \in Nat
    BY <1>t DEF TypeOK
  <2>4. PaceDeadline(host, late) \in Nat
    BY <2>2, <2>3 DEF PaceDeadline
  <2>5. host' \in [pad : Nat, now : Nat, deadline : Nat, shown : Nat, worst : Nat]
    BY <2>1, <2>2, <2>3, <2>4 DEF Present
  <2>6. \/ pc' = "limit" /\ ending' = ending /\ status' = status
        \/ pc' = "exit" /\ ending' = "closed" /\ status' \in {0, 1}
    BY <2>1, FinishFacts DEF Present
  <2>7. /\ opt' = opt /\ limit' = limit /\ frame' = frame /\ elapsed' = elapsed /\ hyb' = hyb
        /\ used' = used /\ route' = route /\ cell' = cell /\ psg' = psg /\ sunk' = sunk
        /\ dumped' = dumped
    BY <2>1 DEF Present
  <2>8. status' \in 0 .. 2 /\ ending' \in {"", "refused", "route", "returned", "closed", "limit"}
    <3>1. status \in 0 .. 2 /\ ending \in {"", "refused", "route", "returned", "closed", "limit"}
      BY <1>t DEF TypeOK
    <3>2. status' \in 0 .. 2
      <4>1. status' = status \/ status' \in {0, 1}
        BY <2>6
      <4>2. status \in 0 .. 2
        BY <3>1
      <4>3. QED BY <4>1, <4>2
    <3>3. ending' \in {"", "refused", "route", "returned", "closed", "limit"}
      BY <3>1, <2>6
    <3>4. QED BY <3>2, <3>3
  <2>9. pc' \in {"main", "guest", "exit"} \union Stages
    BY <2>6 DEF Stages
  <2>10. QED BY <1>t, <2>5, <2>7, <2>8, <2>9 DEF Typed, TypeOK
<1>13. LimitReached => Typed'
  <2>1. SUFFICES ASSUME LimitReached PROVE Typed'
    OBVIOUS
  <2>2. \/ pc' = "guest" /\ ending' = ending /\ status' = status
        \/ pc' = "exit" /\ ending' = "limit" /\ status' \in {0, 1}
    BY <2>1, FinishFacts DEF LimitReached
  <2>3. status' \in 0 .. 2 /\ ending' \in {"", "refused", "route", "returned", "closed", "limit"}
    <3>1. status \in 0 .. 2 /\ ending \in {"", "refused", "route", "returned", "closed", "limit"}
      BY <1>t DEF TypeOK
    <3>2. status' \in 0 .. 2
      <4>1. status' = status \/ status' \in {0, 1}
        BY <2>2
      <4>2. status \in 0 .. 2
        BY <3>1
      <4>3. QED BY <4>1, <4>2
    <3>3. ending' \in {"", "refused", "route", "returned", "closed", "limit"}
      BY <3>1, <2>2
    <3>4. QED BY <3>2, <3>3
  <2>4. /\ opt' = opt /\ limit' = limit /\ frame' = frame /\ elapsed' = elapsed /\ hyb' = hyb
        /\ used' = used /\ route' = route /\ cell' = cell /\ psg' = psg /\ sunk' = sunk
        /\ dumped' = dumped /\ host' = host
    BY <2>1 DEF LimitReached
  <2>5. pc' \in {"main", "guest", "exit"} \union Stages
    BY <2>2
  <2>6. QED BY <1>t, <2>3, <2>4, <2>5 DEF Typed, TypeOK
<1>14. UNCHANGED vars => Typed'
  BY <1>t DEF vars, Typed, TypeOK
<1>15. QED
  BY <1>1, <1>2, <1>3, <1>4, <1>5, <1>6, <1>7, <1>8, <1>9, <1>10, <1>11, <1>12, <1>13, <1>14
     DEF Next, Done

\* Every state of a run has the types of the variables.
THEOREM Types == Spec => []Typed
<1>1. Init => Typed
  BY TypedInit
<1>2. Typed /\ [Next]_vars => Typed'
  BY TypedStep
<1>3. QED BY <1>1, <1>2, PTL DEF Spec

-----------------------------------------------------------------------------
(* The report.                                                              *)

LEMMA ReportInit == ASSUME Init PROVE ReportExact
<1>1. hyb = 0 /\ elapsed = 0 /\ used = [native |-> 0, interp |-> 0]
  BY DEF Init
<1>2. QED BY <1>1 DEF ReportExact

LEMMA ReportStep ==
  ASSUME Typed, ReportExact, [Next]_vars
  PROVE  ReportExact'
<1>1. ASSUME NEW by \in {"native", "interp"}, NEW n \in Steps PROVE GuestStep(by, n) => ReportExact'
  <2>1. SUFFICES ASSUME GuestStep(by, n) PROVE ReportExact'
    OBVIOUS
  <2>a. PICK a : a = used.native
    OBVIOUS
  <2>b. PICK b : b = used.interp
    OBVIOUS
  <2>2. a \in Nat /\ b \in Nat /\ n \in Nat /\ elapsed \in Nat /\ hyb \in Nat
    <3>1. used \in [native : Nat, interp : Nat] /\ elapsed \in Nat /\ hyb \in Nat
      BY DEF Typed, TypeOK
    <3>2. n \in Nat
      BY SessionAssumption
    <3>3. QED BY <2>a, <2>b, <3>1, <3>2
  <2>3. hyb = b /\ elapsed - hyb = a
    BY <2>a, <2>b DEF ReportExact
  <2>4. used = [native |-> a, interp |-> b]
    BY <2>a, <2>b DEF Typed, TypeOK
  <2>5. used' = [used EXCEPT ![by] = used[by] + n] /\ elapsed' = elapsed + n
    BY <2>1 DEF GuestStep
  <2>6. ASSUME by = "native" PROVE ReportExact'
    <3>1. used' = [native |-> a + n, interp |-> b]
      BY <2>4, <2>5, <2>6
    <3>2. hyb' = hyb
      BY <2>1, <2>6 DEF GuestStep, Accounts
    <3>3. hyb' = used'.interp /\ used'.native = a + n
      BY <2>3, <3>1, <3>2
    <3>4. elapsed' - hyb' = a + n
      BY <2>2, <2>3, <2>5, <3>2
    <3>5. QED BY <3>3, <3>4 DEF ReportExact
  <2>7. ASSUME by = "interp" PROVE ReportExact'
    <3>1. used' = [native |-> a, interp |-> b + n]
      BY <2>4, <2>5, <2>7
    <3>2. hyb' = hyb + n
      BY <2>1, <2>7 DEF GuestStep, Accounts
    <3>3. hyb' = used'.interp /\ used'.native = a
      BY <2>3, <3>1, <3>2
    <3>4. elapsed' - hyb' = a
      BY <2>2, <2>3, <2>5, <3>2
    <3>5. QED BY <3>3, <3>4 DEF ReportExact
  <2>8. QED BY <2>6, <2>7
<1>2. UNCHANGED <<hyb, used, elapsed>> => ReportExact'
  BY DEF ReportExact
<1>3. (\E late \in Hitches, held \in Pads : Present(late, held)) => UNCHANGED <<hyb, used, elapsed>>
  BY DEF Present
<1>4. (\E good \in BOOLEAN : RouteCommand(good)) => UNCHANGED <<hyb, used, elapsed>>
  BY DEF RouteCommand
<1>5. QED
  BY <1>1, <1>2, <1>3, <1>4
     DEF Next, Start, GuestStores, GuestReturns, ScriptInput, RouteFails, RouteDone, DrainSound,
         Dump, Headless, LimitReached, Done, vars

\* For every run and however it is left, the report's cycles are the ones the
\* compiled code and the interpreter took (glue_report, hybrid_interpret).
THEOREM Reports == Spec => []ReportExact
<1>1. Init => Typed /\ ReportExact
  BY TypedInit, ReportInit
<1>2. Typed /\ ReportExact /\ [Next]_vars => (Typed /\ ReportExact)'
  BY TypedStep, ReportStep
<1>3. QED BY <1>1, <1>2, PTL DEF Spec

-----------------------------------------------------------------------------
(* The frame limit and the dump.                                            *)

After == {"sound", "dump", "present", "limit"}

\* The guest's time is within the frame; a frame that has just been crossed is
\* counted by the next step.
InFrame == /\ frame * FrameCyc <= elapsed
           /\ elapsed < (frame + 1) * FrameCyc

Clock ==
  /\ pc = "main" => frame = 0
  /\ pc \in {"main", "guest", "route"} \union After => InFrame
  /\ pc = "input" => /\ (frame + 1) * FrameCyc <= elapsed
                     /\ elapsed < (frame + 2) * FrameCyc
  /\ pc \in After => frame > 0
  /\ pc # "exit" => ending = ""
  /\ pc \in {"guest", "input"} /\ limit # 0 => frame < limit
  /\ pc \in {"route"} \union After /\ limit # 0 => frame <= limit
  /\ ending = "limit" => limit # 0 /\ frame = limit

LEMMA ClockInit == ASSUME Init PROVE Clock
<1>1. pc = "main" /\ ending = ""
  BY DEF Init
<1>2. frame = 0 /\ elapsed = 0
  BY DEF Init
<1>3. InFrame
  BY <1>2 DEF InFrame, FrameCyc
<1>4. QED BY <1>1, <1>2, <1>3 DEF Clock, After

LEMMA ClockStep ==
  ASSUME Typed, Clock, [Next]_vars
  PROVE  Clock'
<1>t. frame \in Nat /\ elapsed \in Nat /\ limit \in Nat
  BY DEF Typed, TypeOK
<1>1. Start => Clock'
  <2>1. SUFFICES ASSUME Start PROVE Clock'
    OBVIOUS
  <2>2. frame' = 0 /\ frame' = frame /\ elapsed' = elapsed /\ InFrame /\ ending = ""
    BY <2>1 DEF Start, Clock
  <2>3. InFrame'
    BY <2>2 DEF InFrame
  <2>4. CASE Refused # 0
    <3>1. pc' = "exit" /\ ending' = "refused"
      BY <2>1, <2>4 DEF Start, Exit
    <3>2. QED BY <3>1 DEF Clock, After
  <2>5. CASE Refused = 0
    <3>1. pc' \in {"guest", "route"} /\ ending' = "" /\ limit' = Limit
      BY <2>1, <2>2, <2>5 DEF Start, Clock
    <3>2. limit' \in Nat
      BY <2>5, <3>1, LimitFacts DEF Typed
    <3>3. limit' # 0 => frame' < limit' /\ frame' <= limit'
      <4>1. frame' = 0
        BY <2>2
      <4>2. QED BY <3>2, <4>1
    <3>4. QED BY <2>3, <3>1, <3>3 DEF Clock, After
  <2>6. QED BY <2>4, <2>5
<1>2. ASSUME NEW by \in {"native", "interp"}, NEW n \in Steps PROVE GuestStep(by, n) => Clock'
  <2>1. SUFFICES ASSUME GuestStep(by, n) PROVE Clock'
    OBVIOUS
  <2>2. /\ pc = "guest" /\ InFrame /\ ending = "" /\ (limit # 0 => frame < limit)
        /\ elapsed' = elapsed + n /\ frame' = frame /\ limit' = limit /\ ending' = ending
        /\ pc' = IF elapsed' >= (frame + 1) * FrameCyc THEN "input" ELSE "guest"
    BY <2>1 DEF GuestStep, Clock
  <2>3. n \in Nat /\ n >= 1 /\ n <= 59736
    <3>1. n \in Nat /\ n >= 1 /\ n <= FrameCyc
      BY StepFacts
    <3>2. QED BY <3>1 DEF FrameCyc
  <2>b. InFrame
    BY <2>2
  <2>a. frame * 59736 <= elapsed /\ elapsed < (frame + 1) * 59736
    BY <2>b DEF InFrame, FrameCyc
  <2>4. CASE elapsed' >= (frame + 1) * FrameCyc
    <3>1. pc' = "input"
      BY <2>2, <2>4
    <3>2. (frame' + 1) * FrameCyc <= elapsed' /\ elapsed' < (frame' + 2) * FrameCyc
      <4>1. elapsed + n < (frame + 2) * 59736
        BY <1>t, <2>3, <2>a
      <4>2. elapsed' = elapsed + n /\ frame' = frame
        BY <2>2
      <4>3. elapsed' < (frame' + 2) * FrameCyc
        BY <4>1, <4>2 DEF FrameCyc
      <4>4. (frame' + 1) * FrameCyc <= elapsed'
        <5>1. (frame + 1) * FrameCyc \in Nat /\ elapsed' \in Nat
          BY <1>t, <2>3, <4>2 DEF FrameCyc
        <5>2. QED BY <5>1, <4>2, <2>4
      <4>5. QED BY <4>3, <4>4
    <3>3. QED BY <2>2, <3>1, <3>2 DEF Clock, After
  <2>5. CASE ~(elapsed' >= (frame + 1) * FrameCyc)
    <3>1. pc' = "guest"
      BY <2>2, <2>5
    <3>2. InFrame'
      <4>1. elapsed' = elapsed + n /\ frame' = frame
        BY <2>2
      <4>2. ~(elapsed + n >= (frame + 1) * 59736)
        BY <2>5, <4>1 DEF FrameCyc
      <4>3. frame * 59736 <= elapsed + n /\ elapsed + n < (frame + 1) * 59736
        BY <1>t, <2>3, <2>a, <4>2
      <4>4. QED BY <4>1, <4>3 DEF InFrame, FrameCyc
    <3>3. QED BY <2>2, <3>1, <3>2 DEF Clock, After
  <2>6. QED BY <2>4, <2>5
<1>3. ScriptInput => Clock'
  <2>1. SUFFICES ASSUME ScriptInput PROVE Clock'
    OBVIOUS
  <2>2. /\ pc = "input" /\ pc' = "route" /\ ending = "" /\ (limit # 0 => frame < limit)
        /\ elapsed' = elapsed /\ frame' = frame + 1 /\ limit' = limit /\ ending' = ending
        /\ (frame + 1) * FrameCyc <= elapsed /\ elapsed < (frame + 2) * FrameCyc
    BY <2>1 DEF ScriptInput, Clock
  <2>3. InFrame'
    <3>1. frame + 1 + 1 = frame + 2
      BY <1>t
    <3>2. QED BY <2>2, <3>1 DEF InFrame
  <2>4. limit' # 0 => frame' <= limit'
    <3>1. limit' = limit /\ frame' = frame + 1 /\ (limit # 0 => frame < limit)
      BY <2>2
    <3>2. limit # 0 => frame + 1 <= limit
      BY <1>t, <3>1
    <3>3. QED BY <3>1, <3>2
  <2>5. QED BY <2>2, <2>3, <2>4 DEF Clock, After
<1>4. RouteDone => Clock'
  <2>1. SUFFICES ASSUME RouteDone PROVE Clock'
    OBVIOUS
  <2>2. /\ pc = "route" /\ InFrame /\ ending = "" /\ (limit # 0 => frame <= limit)
        /\ elapsed' = elapsed /\ frame' = frame /\ limit' = limit /\ ending' = ending
        /\ pc' = IF frame = 0 THEN "guest" ELSE "sound"
    BY <2>1 DEF RouteDone, Clock
  <2>3. InFrame'
    BY <2>2 DEF InFrame
  <2>4. (frame = 0 /\ limit # 0 => frame < limit) /\ (frame # 0 => frame > 0)
    BY <1>t
  <2>5. /\ frame = 0 => pc' = "guest" /\ (limit' # 0 => frame' < limit')
        /\ frame # 0 => pc' = "sound" /\ frame' > 0
    BY <2>2, <2>4
  <2>6. QED BY <2>2, <2>3, <2>5 DEF Clock, After
<1>5. LimitReached => Clock'
  <2>1. SUFFICES ASSUME LimitReached PROVE Clock'
    OBVIOUS
  <2>2. /\ pc = "limit" /\ InFrame /\ ending = "" /\ (limit # 0 => frame <= limit)
        /\ elapsed' = elapsed /\ frame' = frame /\ limit' = limit
    BY <2>1 DEF LimitReached, Clock, After
  <2>3. CASE AtLimit
    <3>1. pc' = "exit" /\ ending' = "limit"
      BY <2>1, <2>3, FinishFacts DEF LimitReached
    <3>2. limit' # 0 /\ frame' = limit'
      <4>1. limit # 0 /\ frame >= limit /\ frame <= limit /\ frame' = frame /\ limit' = limit
        BY <2>2, <2>3 DEF AtLimit
      <4>2. frame = limit
        BY <1>t, <4>1
      <4>3. QED BY <4>1, <4>2
    <3>3. QED BY <3>1, <3>2 DEF Clock, After
  <2>4. CASE ~AtLimit
    <3>1. pc' = "guest" /\ ending' = ""
      BY <2>1, <2>2, <2>4 DEF LimitReached
    <3>2. limit' # 0 => frame' < limit'
      <4>1. limit # 0 => ~(frame >= limit)
        BY <2>4 DEF AtLimit
      <4>2. limit # 0 => frame < limit
        BY <1>t, <4>1
      <4>3. QED BY <2>2, <4>2
    <3>3. InFrame'
      BY <2>2 DEF InFrame
    <3>4. QED BY <3>1, <3>2, <3>3 DEF Clock, After
  <2>5. QED BY <2>3, <2>4
<1>6. ASSUME pc' = "exit", ending' # "limit"
      PROVE  Clock'
  BY <1>6 DEF Clock, After
<1>7. GuestReturns \/ RouteFails => Clock'
  <2>1. GuestReturns => pc' = "exit" /\ ending' = "returned"
    BY FinishFacts DEF GuestReturns
  <2>2. RouteFails => pc' = "exit" /\ ending' = "route"
    BY FinishFacts DEF RouteFails, Exit
  <2>3. QED BY <1>6, <2>1, <2>2
<1>8. ASSUME UNCHANGED <<frame, elapsed, limit, ending>>, pc \in {"route"} \union After,
             pc' \in {"route"} \union After, pc = "route" => pc' = "route"
      PROVE  Clock'
  <2>1. InFrame /\ InFrame' = InFrame /\ ending = ""
    BY <1>8 DEF InFrame, Clock, After
  <2>2. QED BY <1>8, <2>1 DEF Clock, After
<1>9. ASSUME NEW late \in Hitches, NEW held \in Pads PROVE Present(late, held) => Clock'
  <2>1. SUFFICES ASSUME Present(late, held) PROVE Clock'
    OBVIOUS
  <2>2. \/ pc' = "limit" /\ ending' = ending
        \/ pc' = "exit" /\ ending' = "closed"
    BY <2>1, FinishFacts DEF Present
  <2>3. pc = "present" /\ UNCHANGED <<frame, elapsed, limit>>
    BY <2>1 DEF Present
  <2>4. QED BY <1>6, <1>8, <2>2, <2>3 DEF After
<1>10. ASSUME NEW good \in BOOLEAN PROVE RouteCommand(good) => Clock'
  BY <1>8 DEF RouteCommand
<1>11. DrainSound \/ Dump \/ Headless => Clock'
  <2>1. DrainSound => /\ UNCHANGED <<frame, elapsed, limit, ending>>
                      /\ pc = "sound" /\ pc' \in {"sound", "dump"}
    BY DEF DrainSound
  <2>2. Dump \/ Headless => /\ UNCHANGED <<frame, elapsed, limit, ending>>
                            /\ pc \in {"dump", "present"} /\ pc' \in {"present", "limit"}
    BY DEF Dump, Headless
  <2>3. QED BY <1>8, <2>1, <2>2 DEF After
<1>12. ASSUME UNCHANGED <<pc, frame, elapsed, limit, ending>> PROVE Clock'
  BY <1>12 DEF Clock, InFrame
<1>13. GuestStores \/ UNCHANGED vars => Clock'
  BY <1>12 DEF GuestStores, vars
<1>14. QED
  BY <1>1, <1>2, <1>3, <1>4, <1>5, <1>7, <1>9, <1>10, <1>11, <1>13 DEF Next, Done

\* The frame to dump is dumped once it is complete, and no other is.
DumpUpTo(n) == {DumpFrame} \intersect 1 .. n

Dumps ==
  /\ pc = "main" => dumped = {}
  /\ pc \in {"route", "sound", "dump"} => dumped = DumpUpTo(frame - 1)
  /\ pc \in {"guest", "input", "present", "limit"} => dumped = DumpUpTo(frame)
  /\ ending = "limit" => dumped = DumpUpTo(frame)

LEMMA DumpsInit == ASSUME Init PROVE Dumps
BY DEF Init, Dumps

LEMMA DumpsStep ==
  ASSUME Typed, Clock, Dumps, [Next]_vars
  PROVE  Dumps'
<1>t. frame \in Nat /\ limit \in Nat /\ opt.dump \in Nat
  BY OptionFacts DEF Typed, TypeOK
<1>d. DumpFrame \in Nat
  BY <1>t DEF DumpFrame
<1>u. ASSUME UNCHANGED <<opt, limit>> PROVE \A n \in Int : DumpUpTo(n)' = DumpUpTo(n)
  BY <1>u DEF DumpUpTo, DumpFrame
<1>z. DumpUpTo(-1)' = {} /\ DumpUpTo(0)' = {}
  <2>1. 1 .. -1 = {} /\ 1 .. 0 = {}
    OBVIOUS
  <2>2. QED BY <2>1 DEF DumpUpTo
<1>1. Start => Dumps'
  <2>1. SUFFICES ASSUME Start PROVE Dumps'
    OBVIOUS
  <2>2. dumped' = {} /\ frame' = 0
    BY <2>1 DEF Start, Dumps, Clock
  <2>3. frame' - 1 = -1
    BY <2>2
  <2>4. DumpUpTo(frame - 1)' = {} /\ DumpUpTo(frame)' = {}
    BY <1>z, <2>2, <2>3 DEF DumpUpTo
  <2>5. pc' \in {"guest", "route", "exit"} /\ ending' \in {"", "refused"}
    BY <2>1 DEF Start, Exit, Clock
  <2>6. QED BY <2>2, <2>4, <2>5 DEF Dumps
<1>2. ASSUME UNCHANGED <<opt, limit, frame, dumped, ending>>,
             \/ pc' = pc
             \/ pc = "guest" /\ pc' = "input"
             \/ pc = "sound" /\ pc' = "dump"
             \/ pc = "present" /\ pc' = "limit"
             \/ pc = "limit" /\ pc' = "guest"
             \/ pc = "route" /\ pc' = "sound"
      PROVE  Dumps'
  <2>1. DumpUpTo(frame)' = DumpUpTo(frame) /\ DumpUpTo(frame - 1)' = DumpUpTo(frame - 1)
    BY <1>2 DEF DumpUpTo, DumpFrame
  <2>2. QED BY <1>2, <2>1 DEF Dumps
<1>3. ASSUME pc' = "exit", ending' # "limit" PROVE Dumps'
  BY <1>3 DEF Dumps
<1>4. ASSUME NEW by \in {"native", "interp"}, NEW n \in Steps PROVE GuestStep(by, n) => Dumps'
  <2>1. GuestStep(by, n) => /\ UNCHANGED <<opt, limit, frame, dumped, ending>>
                            /\ pc = "guest" /\ pc' \in {"guest", "input"}
    BY DEF GuestStep
  <2>2. QED BY <1>2, <2>1
<1>5. GuestStores \/ UNCHANGED vars => Dumps'
  BY <1>2 DEF GuestStores, vars
<1>6. GuestReturns \/ RouteFails => Dumps'
  <2>1. GuestReturns => pc' = "exit" /\ ending' = "returned"
    BY FinishFacts DEF GuestReturns
  <2>2. RouteFails => pc' = "exit" /\ ending' = "route"
    BY FinishFacts DEF RouteFails, Exit
  <2>3. QED BY <1>3, <2>1, <2>2
<1>7. ScriptInput => Dumps'
  <2>1. SUFFICES ASSUME ScriptInput PROVE Dumps'
    OBVIOUS
  <2>2. /\ dumped = DumpUpTo(frame) /\ dumped' = dumped /\ pc' = "route" /\ frame' = frame + 1
        /\ ending' = "" /\ UNCHANGED <<opt, limit>>
    BY <2>1 DEF ScriptInput, Dumps, Clock
  <2>3. frame' - 1 = frame
    <3>1. frame' = frame + 1
      BY <2>2
    <3>2. QED BY <1>t, <3>1
  <2>4. DumpUpTo(frame - 1)' = DumpUpTo(frame)
    BY <2>2, <2>3 DEF DumpUpTo, DumpFrame
  <2>5. QED BY <2>2, <2>4 DEF Dumps
<1>8. ASSUME NEW good \in BOOLEAN PROVE RouteCommand(good) => Dumps'
  <2>1. RouteCommand(good) => UNCHANGED <<opt, limit, frame, dumped, ending, pc>>
    BY DEF RouteCommand
  <2>2. QED BY <1>2, <2>1
<1>9. RouteDone => Dumps'
  <2>1. SUFFICES ASSUME RouteDone PROVE Dumps'
    OBVIOUS
  <2>2. /\ pc = "route" /\ UNCHANGED <<opt, limit, frame, dumped, ending>>
        /\ pc' = IF frame = 0 THEN "guest" ELSE "sound"
    BY <2>1 DEF RouteDone
  <2>3. CASE frame # 0
    BY <1>2, <2>2, <2>3
  <2>4. CASE frame = 0
    <3>1. dumped' = DumpUpTo(frame - 1) /\ ending' = "" /\ pc' = "guest"
      BY <2>2, <2>4 DEF Dumps, Clock
    <3>2. frame - 1 = -1
      BY <2>4
    <3>3. DumpUpTo(frame - 1) = {} /\ DumpUpTo(frame)' = {}
      <4>1. 1 .. -1 = {}
        OBVIOUS
      <4>2. QED BY <1>z, <2>2, <2>4, <3>2, <4>1 DEF DumpUpTo
    <3>4. QED BY <3>1, <3>3 DEF Dumps
  <2>5. QED BY <2>3, <2>4
<1>10. DrainSound => Dumps'
  <2>1. DrainSound => /\ UNCHANGED <<opt, limit, frame, dumped, ending>>
                      /\ pc = "sound" /\ pc' \in {"sound", "dump"}
    BY DEF DrainSound
  <2>2. QED BY <1>2, <2>1
<1>11. Dump => Dumps'
  <2>1. SUFFICES ASSUME Dump PROVE Dumps'
    OBVIOUS
  <2>2. /\ dumped = DumpUpTo(frame - 1) /\ frame > 0 /\ pc' = "present" /\ ending' = ""
        /\ dumped' = IF frame = DumpFrame THEN dumped \union {frame} ELSE dumped
        /\ UNCHANGED <<opt, limit, frame>>
    BY <2>1 DEF Dump, Dumps, Clock, After
  <2>3. dumped' = DumpUpTo(frame)
    <3>1. PICK d : d = DumpFrame
      OBVIOUS
    <3>2. d \in Nat /\ frame > 0
      BY <1>d, <2>2, <3>1
    <3>3. frame # d => ({d} \intersect 1 .. frame - 1) = ({d} \intersect 1 .. frame)
      BY <1>t, <3>2
    <3>4. frame = d => ({d} \intersect 1 .. frame - 1) \union {frame} = ({d} \intersect 1 .. frame)
      BY <1>t, <3>2
    <3>5. DumpUpTo(frame - 1) = ({d} \intersect 1 .. frame - 1) /\ DumpUpTo(frame) = ({d} \intersect 1 .. frame)
      BY <3>1 DEF DumpUpTo
    <3>6. QED BY <2>2, <3>1, <3>3, <3>4, <3>5
  <2>4. DumpUpTo(frame)' = DumpUpTo(frame)
    BY <2>2 DEF DumpUpTo, DumpFrame
  <2>5. QED BY <2>2, <2>3, <2>4 DEF Dumps
<1>12. Headless => Dumps'
  <2>1. Headless => /\ UNCHANGED <<opt, limit, frame, dumped, ending>>
                    /\ pc = "present" /\ pc' = "limit"
    BY DEF Headless
  <2>2. QED BY <1>2, <2>1
<1>13. ASSUME NEW late \in Hitches, NEW held \in Pads PROVE Present(late, held) => Dumps'
  <2>1. SUFFICES ASSUME Present(late, held) PROVE Dumps'
    OBVIOUS
  <2>2. \/ pc' = "limit" /\ ending' = ending
        \/ pc' = "exit" /\ ending' = "closed"
    BY <2>1, FinishFacts DEF Present
  <2>3. pc = "present" /\ UNCHANGED <<opt, frame, limit, dumped>>
    BY <2>1 DEF Present
  <2>4. QED BY <1>2, <1>3, <2>2, <2>3
<1>14. LimitReached => Dumps'
  <2>1. SUFFICES ASSUME LimitReached PROVE Dumps'
    OBVIOUS
  <2>2. /\ pc = "limit" /\ UNCHANGED <<opt, frame, limit, dumped>>
        /\ dumped = DumpUpTo(frame)
    BY <2>1 DEF LimitReached, Dumps
  <2>3. \/ pc' = "guest" /\ ending' = ending
        \/ pc' = "exit"
    BY <2>1, FinishFacts DEF LimitReached
  <2>4. DumpUpTo(frame)' = DumpUpTo(frame)
    BY <2>2 DEF DumpUpTo, DumpFrame
  <2>5. CASE pc' = "exit"
    BY <2>2, <2>4, <2>5 DEF Dumps
  <2>6. QED BY <1>2, <2>2, <2>3, <2>5
<1>15. QED
  BY <1>1, <1>4, <1>5, <1>6, <1>7, <1>8, <1>9, <1>10, <1>11, <1>12, <1>13, <1>14 DEF Next, Done

\* For every limit and every guest, a run of n frames ends after n frames, with
\* no guest instruction of the next, and the frame to dump has been dumped.
THEOREM Limits == Spec => []LimitExact
<1> DEFINE Inv == Typed /\ Clock /\ Dumps
<1>1. Init => Inv
  BY TypedInit, ClockInit, DumpsInit
<1>2. Inv /\ [Next]_vars => Inv'
  BY TypedStep, ClockStep, DumpsStep
<1>3. Inv => LimitExact
  <2>1. SUFFICES ASSUME Inv PROVE LimitExact
    OBVIOUS
  <2>2. pc = "guest" => InFrame /\ (limit # 0 => frame < limit)
    BY <2>1 DEF Clock
  <2>3. ending = "limit" => frame = limit /\ dumped = DumpUpTo(limit)
    BY <2>1 DEF Clock, Dumps
  <2>4. DumpFrame \in 1 .. limit => DumpUpTo(limit) = {DumpFrame}
    BY DEF DumpUpTo
  <2>5. QED BY <2>2, <2>3, <2>4 DEF InFrame, LimitExact
<1> HIDE DEF Inv
<1>4. QED BY <1>1, <1>2, <1>3, PTL DEF Spec

-----------------------------------------------------------------------------
(* The sound.                                                               *)

\* The scratch is empty when the guest runs a frame but for that frame's own
\* samples, so that it never overflows.
Audio ==
  opt.sound =>
    /\ (Div * (sunk + Available(psg))) + psg.left = elapsed
    /\ pc \notin {"sound", "exit"} => psg.rd = 0
    /\ pc \in {"dump", "present", "limit"} => psg.wr = 0
    /\ pc = "guest" => (Div * sunk) + Div > frame * FrameCyc
    /\ pc = "main" => sunk = 0
    /\ pc = "route" /\ frame = 0 => sunk = 0
    /\ ending \in {"limit", "closed"} => Available(psg) = 0

LEMMA AvailableFacts ==
  ASSUME NEW p \in Stream
  PROVE  Available(p) \in Int
<1>1. PICK a : a = p.wr
  OBVIOUS
<1>2. PICK b : b = p.rd
  OBVIOUS
<1>3. a \in Nat /\ a <= 8192 /\ b \in Nat /\ b <= 8192
  BY <1>1, <1>2, StreamFacts
<1>4. Available(p) = a - b
  BY <1>1, <1>2 DEF Available
<1>5. QED BY <1>3, <1>4

LEMMA AudioInit == ASSUME Init PROVE Audio
<1>1. psg = [left |-> 0, wr |-> 0, rd |-> 0] /\ pc = "main" /\ ending = ""
  BY DEF Init, PsgInit
<1>2. sunk = 0 /\ elapsed = 0
  BY DEF Init
<1>3. psg.left = 0 /\ psg.rd = 0 /\ Available(psg) = 0
  <2>1. psg.left = 0 /\ psg.rd = 0 /\ psg.wr = 0
    BY <1>1
  <2>2. Available(psg) = 0 - 0
    BY <2>1 DEF Available
  <2>3. QED BY <2>1, <2>2
<1>4. (Div * (sunk + Available(psg))) + psg.left = elapsed
  BY <1>2, <1>3 DEF Div
<1>5. QED BY <1>1, <1>2, <1>3, <1>4 DEF Audio

LEMMA AudioStep ==
  ASSUME Typed, Clock, Audio, [Next]_vars
  PROVE  Audio'
<1>t. frame \in Nat /\ elapsed \in Nat /\ sunk \in Nat /\ psg \in Stream /\ psg.rd <= psg.wr
  BY DEF Typed, TypeOK
<1>0. opt' = opt
  BY DEF Next, Start, GuestStep, GuestStores, GuestReturns, ScriptInput, RouteCommand, RouteFails,
         RouteDone, DrainSound, Dump, Headless, Present, LimitReached, Done, vars
<1>s. SUFFICES ASSUME opt.sound PROVE Audio'
  BY <1>0 DEF Audio
<1>a. ASSUME UNCHANGED <<sunk, psg, elapsed>>
      PROVE  (Div * (sunk' + Available(psg'))) + psg'.left = elapsed'
  BY <1>s, <1>a DEF Audio
<1>1. ASSUME UNCHANGED <<sunk, psg, elapsed>>, UNCHANGED <<pc, frame, ending>> PROVE Audio'
  BY <1>0, <1>1 DEF Audio, Available
<1>2. ASSUME UNCHANGED <<sunk, psg, elapsed>>, pc' = "exit", ending' \notin {"limit", "closed"}
      PROVE  Audio'
  BY <1>a, <1>2 DEF Audio
<1>3. ASSUME UNCHANGED <<sunk, psg, elapsed>>, pc' = "exit", pc \in {"present", "limit"}
      PROVE  Audio'
  <2>1. psg.rd = 0 /\ psg.wr = 0
    BY <1>s, <1>3 DEF Audio
  <2>2. Available(psg') = 0
    BY <1>3, <2>1 DEF Available
  <2>3. QED BY <1>a, <1>3, <2>2 DEF Audio
<1>4. Start => Audio'
  <2>1. SUFFICES ASSUME Start PROVE Audio'
    OBVIOUS
  <2>2. /\ UNCHANGED <<sunk, psg, elapsed, frame>> /\ pc = "main" /\ sunk = 0 /\ psg.rd = 0
        /\ frame = 0
    BY <1>s, <2>1 DEF Start, Audio, Clock
  <2>3. pc' \in {"exit", "route", "guest"} /\ ending' \in {"", "refused"}
    BY <2>1 DEF Start, Exit, Clock
  <2>4. (Div * sunk') + Div > frame' * FrameCyc
    <3>1. sunk' = 0 /\ frame' = 0
      BY <2>2
    <3>2. QED BY <3>1 DEF Div, FrameCyc
  <2>5. QED BY <1>a, <2>2, <2>3, <2>4 DEF Audio
<1>5. ASSUME NEW by \in {"native", "interp"}, NEW n \in Steps PROVE GuestStep(by, n) => Audio'
  <2>1. SUFFICES ASSUME GuestStep(by, n) PROVE Audio'
    OBVIOUS
  <2>2. /\ pc = "guest" /\ InFrame /\ ending = "" /\ psg.rd = 0
        /\ (Div * sunk) + Div > frame * FrameCyc
        /\ (Div * (sunk + Available(psg))) + psg.left = elapsed
    BY <1>s, <2>1 DEF GuestStep, Clock, Audio
  <2>3. /\ elapsed' = elapsed + n /\ sunk' = sunk /\ frame' = frame /\ ending' = ending
        /\ psg' = PsgAdvance(psg, n) /\ pc' \in {"input", "guest"}
    BY <1>s, <2>1 DEF GuestStep
  <2>4. n \in Nat /\ n <= 59736
    <3>1. n \in Nat /\ n <= FrameCyc
      BY StepFacts, Zenon
    <3>2. QED BY <3>1 DEF FrameCyc
  <2>a. PICK w : w = psg.wr
    OBVIOUS
  <2>b. PICK l : l = psg.left
    OBVIOUS
  <2>5. w \in Nat /\ w <= 8192 /\ l \in 0 .. 15
    BY <1>t, <2>a, <2>b, StreamFacts
  <2>6. Available(psg) = w
    <3>1. psg.rd = 0
      BY <2>2
    <3>2. Available(psg) = w - 0
      BY <2>a, <3>1 DEF Available
    <3>3. QED BY <2>5, <3>2
  <2>7. (16 * (sunk + w)) + l = elapsed
    <3>1. (Div * (sunk + Available(psg))) + psg.left = elapsed
      BY <2>2
    <3>2. QED BY <2>b, <2>6, <3>1 DEF Div
  <2>8. (16 * sunk) + 16 > frame * 59736 /\ elapsed < (frame + 1) * 59736
    <3>1. (Div * sunk) + Div > frame * FrameCyc /\ InFrame
      BY <2>2
    <3>2. QED BY <3>1 DEF InFrame, Div, FrameCyc
  <2>9. (16 * w) + l + n <= 16 * 8192
    BY <1>t, <2>4, <2>5, <2>7, <2>8
  <2>c. PICK w2 : w2 = psg'.wr
    OBVIOUS
  <2>d. PICK l2 : l2 = psg'.left
    OBVIOUS
  <2>10. (16 * w2) + l2 = (16 * w) + l + n /\ psg'.rd = 0 /\ psg' \in Stream
    <3>a. PICK q : q = PsgAdvance(psg, n)
      OBVIOUS
    <3>b. psg \in Stream /\ n \in Nat /\ psg' = q
      BY <1>t, <2>3, <2>4, <3>a
    <3>c. /\ q \in Stream /\ q.rd = psg.rd
          /\ (Div * psg.wr) + psg.left + n <= Div * Scratch =>
               (Div * q.wr) + q.left = (Div * psg.wr) + psg.left + n
      BY <3>a, <3>b, Advances
    <3>1. psg' \in Stream /\ psg'.rd = psg.rd
      BY <3>b, <3>c
    <3>2. (Div * w) + l + n <= Div * Scratch => (Div * w2) + l2 = (Div * w) + l + n
      BY <3>b, <3>c, <2>a, <2>b, <2>c, <2>d
    <3>3. (16 * w2) + l2 = (16 * w) + l + n
      BY <2>9, <3>2 DEF Div, Scratch
    <3>4. QED BY <2>2, <3>1, <3>3
  <2>11. w2 \in Nat /\ w2 <= 8192 /\ l2 \in 0 .. 15
    BY <2>10, <2>c, <2>d, StreamFacts
  <2>12. Available(psg') = w2
    <3>1. psg'.rd = 0
      BY <2>10
    <3>2. Available(psg') = w2 - 0
      BY <2>c, <3>1 DEF Available
    <3>3. QED BY <2>11, <3>2
  <2>13. (Div * (sunk' + Available(psg'))) + psg'.left = elapsed'
    <3>1. (16 * w2) + l2 = (16 * w) + l + n
      BY <2>10
    <3>2. (16 * (sunk + w2)) + l2 = elapsed + n
      BY <1>t, <2>4, <2>5, <2>7, <2>11, <3>1
    <3>3. elapsed' = elapsed + n /\ sunk' = sunk
      BY <2>3
    <3>4. QED BY <2>12, <2>d, <3>2, <3>3 DEF Div
  <2>14. (Div * sunk') + Div > frame' * FrameCyc
    BY <2>2, <2>3
  <2>15. psg'.rd = 0
    BY <2>10
  <2>16. pc' \in {"input", "guest"} /\ ending' = ""
    BY <2>2, <2>3
  <2>17. QED BY <2>13, <2>14, <2>15, <2>16 DEF Audio
<1>6. GuestStores \/ UNCHANGED vars => Audio'
  BY <1>1 DEF GuestStores, vars
<1>7. GuestReturns \/ RouteFails => Audio'
  <2>1. GuestReturns => pc' = "exit" /\ ending' = "returned" /\ UNCHANGED <<sunk, psg, elapsed>>
    BY FinishFacts DEF GuestReturns
  <2>2. RouteFails => pc' = "exit" /\ ending' = "route" /\ UNCHANGED <<sunk, psg, elapsed>>
    BY FinishFacts DEF RouteFails, Exit
  <2>3. QED BY <1>2, <2>1, <2>2
<1>8. ScriptInput => Audio'
  <2>1. SUFFICES ASSUME ScriptInput PROVE Audio'
    OBVIOUS
  <2>2. /\ UNCHANGED <<sunk, psg, elapsed>> /\ pc' = "route" /\ psg.rd = 0 /\ ending' = ""
        /\ frame' = frame + 1
    BY <1>s, <2>1 DEF ScriptInput, Clock, Audio
  <2>3. frame' # 0
    <3>1. frame' = frame + 1
      BY <2>2
    <3>2. QED BY <1>t, <3>1
  <2>4. QED BY <1>a, <2>2, <2>3 DEF Audio
<1>9. ASSUME NEW good \in BOOLEAN PROVE RouteCommand(good) => Audio'
  BY <1>1 DEF RouteCommand
<1>10. RouteDone => Audio'
  <2>1. SUFFICES ASSUME RouteDone PROVE Audio'
    OBVIOUS
  <2>2. /\ UNCHANGED <<sunk, psg, elapsed, frame>> /\ psg.rd = 0 /\ ending' = ""
        /\ pc' = IF frame = 0 THEN "guest" ELSE "sound"
        /\ (frame = 0 => sunk = 0)
    BY <1>s, <2>1 DEF RouteDone, Clock, Audio
  <2>3. frame = 0 => (Div * sunk') + Div > frame' * FrameCyc
    <3>1. ASSUME frame = 0 PROVE sunk' = 0 /\ frame' = 0
      BY <2>2, <3>1
    <3>2. QED BY <3>1 DEF Div, FrameCyc
  <2>4. QED BY <1>a, <2>2, <2>3 DEF Audio
<1>11. DrainSound => Audio'
  <2>1. SUFFICES ASSUME DrainSound PROVE Audio'
    OBVIOUS
  <2>2. /\ elapsed' = elapsed /\ sunk' = sunk + Copied(psg, Chunk)
        /\ psg' = PsgRender(psg, Chunk) /\ ending' = ""
        /\ pc' = IF Copied(psg, Chunk) = 0 THEN "dump" ELSE "sound"
    BY <1>s, <2>1 DEF DrainSound, Clock
  <2>3. /\ Copied(psg, Chunk) \in Nat
        /\ psg'.left = psg.left
        /\ Available(psg') + Copied(psg, Chunk) = Available(psg)
        /\ Copied(psg, Chunk) = 0 => psg'.rd = 0 /\ psg'.wr = 0
    <3>1. Chunk \in Nat /\ Chunk > 0
      BY DEF Chunk
    <3>2. psg' = PsgRender(psg, Chunk)
      BY <2>2
    <3>3. QED BY <1>t, <3>1, <3>2, Renders
  <2>a. PICK c : c = Copied(psg, Chunk)
    OBVIOUS
  <2>b. PICK v : v = Available(psg')
    OBVIOUS
  <2>c. PICK u : u = Available(psg)
    OBVIOUS
  <2>4. u \in Int /\ v \in Int
    <3>1. PsgRender(psg, Chunk) \in Stream
      <4>1. Chunk \in Nat /\ Chunk > 0
        BY DEF Chunk
      <4>2. QED BY <1>t, <4>1, Renders
    <3>2. psg' \in Stream
      BY <2>2, <3>1
    <3>3. QED BY <1>t, <2>b, <2>c, <3>2, AvailableFacts
  <2>5. sunk' + v = sunk + u
    <3>1. sunk' = sunk + c /\ v + c = u /\ c \in Nat
      BY <2>2, <2>3, <2>a, <2>b, <2>c
    <3>2. QED BY <1>t, <2>4, <3>1
  <2>6. (Div * (sunk' + Available(psg'))) + psg'.left = elapsed'
    <3>1. (Div * (sunk + u)) + psg.left = elapsed
      BY <1>s, <2>c DEF Audio
    <3>2. elapsed' = elapsed /\ psg'.left = psg.left
      BY <2>2, <2>3
    <3>3. QED BY <3>1, <3>2, <2>5, <2>b
  <2>7. pc' \in {"sound", "dump"} /\ (pc' = "dump" => psg'.rd = 0 /\ psg'.wr = 0)
    BY <2>2, <2>3
  <2>8. QED BY <2>2, <2>6, <2>7 DEF Audio
<1>12. ASSUME UNCHANGED <<sunk, psg, elapsed>>, ending' = "",
              (pc = "dump" /\ pc' = "present") \/ (pc = "present" /\ pc' = "limit")
       PROVE  Audio'
  BY <1>a, <1>s, <1>12 DEF Audio
<1>13. ASSUME Dump \/ Headless PROVE Audio'
  <2>1. UNCHANGED <<sunk, psg, elapsed>> /\ ending' = ""
    BY <1>13 DEF Dump, Headless, Clock
  <2>2. (pc = "dump" /\ pc' = "present") \/ (pc = "present" /\ pc' = "limit")
    BY <1>13 DEF Dump, Headless
  <2>3. QED BY <1>12, <2>1, <2>2
<1>14. ASSUME NEW late \in Hitches, NEW held \in Pads PROVE Present(late, held) => Audio'
  <2>1. SUFFICES ASSUME Present(late, held) PROVE Audio'
    OBVIOUS
  <2>2. pc = "present" /\ UNCHANGED <<sunk, psg, elapsed>> /\ ending = ""
    BY <2>1 DEF Present, Clock
  <2>3. (pc' = "limit" /\ ending' = ending) \/ pc' = "exit"
    BY <2>1, FinishFacts DEF Present
  <2>4. QED BY <1>3, <1>12, <2>2, <2>3
<1>15. LimitReached => Audio'
  <2>1. SUFFICES ASSUME LimitReached PROVE Audio'
    OBVIOUS
  <2>2. pc = "limit" /\ UNCHANGED <<sunk, psg, elapsed, frame>> /\ ending = ""
    BY <2>1 DEF LimitReached, Clock
  <2>3. (pc' = "guest" /\ ending' = ending) \/ pc' = "exit"
    BY <2>1, FinishFacts DEF LimitReached
  <2>4. ASSUME pc' = "guest", ending' = ending PROVE Audio'
    <3>1. psg.rd = 0 /\ psg.wr = 0 /\ (Div * (sunk + Available(psg))) + psg.left = elapsed /\ InFrame
      BY <1>s, <2>2 DEF Audio, Clock, After
    <3>2. Available(psg) = 0
      <4>1. psg.rd = 0 /\ psg.wr = 0
        BY <3>1
      <4>2. QED BY <4>1 DEF Available
    <3>a. PICK l : l = psg.left
      OBVIOUS
    <3>3. l \in 0 .. 15
      BY <1>t, <3>a, StreamFacts
    <3>4. (Div * sunk) + Div > frame * FrameCyc
      <4>1. (16 * (sunk + 0)) + l = elapsed /\ frame * 59736 <= elapsed
        <5>1. (Div * (sunk + 0)) + l = elapsed /\ InFrame
          BY <3>1, <3>2, <3>a
        <5>2. QED BY <5>1 DEF Div, InFrame, FrameCyc
      <4>2. (16 * sunk) + 16 > frame * 59736
        BY <1>t, <3>3, <4>1
      <4>3. QED BY <4>2 DEF Div, FrameCyc
    <3>5. psg'.rd = 0 /\ (Div * sunk') + Div > frame' * FrameCyc
      BY <2>2, <3>1, <3>4
    <3>6. QED BY <1>a, <2>2, <2>4, <3>5 DEF Audio
  <2>5. QED BY <1>3, <2>2, <2>3, <2>4
<1>16. QED
  BY <1>4, <1>5, <1>6, <1>7, <1>8, <1>9, <1>10, <1>11, <1>13, <1>14, <1>15 DEF Next, Done

\* For every guest the samples delivered, waiting and begun are exactly its
\* cycles: the scratch of psg_advance never overflows, since frame_completed
\* empties it at every frame, and a run that ends at one leaves nothing in it.
THEOREM Sounds == Spec => []SoundExact
<1> DEFINE Inv == Typed /\ Clock /\ Audio
<1>1. Init => Inv
  BY TypedInit, ClockInit, AudioInit
<1>2. Inv /\ [Next]_vars => Inv'
  BY TypedStep, ClockStep, AudioStep
<1>3. Inv => SoundExact
  BY DEF Audio, SoundExact
<1> HIDE DEF Inv
<1>4. QED BY <1>1, <1>2, <1>3, PTL DEF Spec

-----------------------------------------------------------------------------
(* The window's pace.                                                       *)

\* The deadlines are a period apart at least, and exactly so while the host
\* keeps up.
Pace ==
  /\ host.shown * Period <= host.deadline
  /\ host.deadline <= host.now
  /\ host.shown = 0 => host.now = 0
  /\ host.deadline = 0 => host.shown = 0
  /\ host.worst <= Period /\ host.shown # 0 =>
       host.now = host.deadline /\ host.deadline <= (host.shown + 1) * Period

LEMMA PaceInit == ASSUME Init PROVE Pace
<1>1. host = [pad |-> 0, now |-> 0, deadline |-> 0, shown |-> 0, worst |-> 0]
  BY DEF Init, IdleHost
<1>2. host.now = 0 /\ host.deadline = 0 /\ host.shown = 0
  BY <1>1
<1>3. Period \in Nat
  BY SessionAssumption
<1>4. 0 * Period <= 0 /\ 0 <= 0
  BY <1>3
<1>5. QED BY <1>2, <1>4 DEF Pace

\* One frame of host_pace, in numbers: the clock is at now and late counts are
\* lost before the call, the last deadline was d, and k frames had been shown.
LEMMA PaceOnce ==
  ASSUME NEW now \in Nat, NEW d \in Nat, NEW k \in Nat, NEW late \in Nat,
         NEW T \in Nat, T # 0, NEW due \in Nat, NEW w \in Nat,
         k * T <= d, d <= now, k = 0 => now = 0, d = 0 => k = 0,
         w <= T /\ k # 0 => now = d /\ d <= (k + 1) * T,
         LET anchor == IF d = 0 THEN now + late ELSE d
         IN  due = IF now + late > anchor + T + (4 * T) THEN now + late + T ELSE anchor + T
  PROVE  /\ (k + 1) * T <= due /\ due # 0
         /\ w <= T /\ late <= T => now + late <= due /\ due <= (k + 2) * T
<1>a. PICK s : s = k * T
  OBVIOUS
<1>1. s \in Nat /\ (k + 1) * T = s + T /\ (k + 2) * T = s + T + T /\ (k = 0 => s = 0)
  BY <1>a
<1>2. s <= d /\ (w <= T /\ k # 0 => now = d /\ d <= s + T)
  BY <1>a, <1>1
<1>3. s + T <= due /\ due # 0
  <2>1. CASE d = 0
    <3>1. due = now + late + T
      BY <2>1
    <3>2. QED BY <1>1, <1>2, <2>1, <3>1
  <2>2. CASE d # 0
    <3>1. due = now + late + T \/ due = d + T
      BY <2>2
    <3>2. QED BY <1>1, <1>2, <3>1
  <2>3. QED BY <2>1, <2>2
<1>4. ASSUME w <= T, late <= T PROVE now + late <= due /\ due <= s + T + T
  <2>1. CASE k = 0
    <3>1. d = 0 /\ now = 0
      BY <2>1
    <3>2. due = late + T
      BY <3>1
    <3>3. QED BY <1>1, <1>4, <2>1, <3>1, <3>2
  <2>2. CASE k # 0
    <3>1. now = d /\ d <= s + T /\ d # 0
      BY <1>2, <1>4, <2>2
    <3>2. due = d + T
      BY <1>4, <3>1
    <3>3. QED BY <1>1, <1>4, <3>1, <3>2
  <2>3. QED BY <2>1, <2>2
<1>5. QED BY <1>1, <1>3, <1>4

LEMMA PaceStep ==
  ASSUME Typed, Pace, [Next]_vars
  PROVE  Pace'
<1>1. ASSUME UNCHANGED host PROVE Pace'
  BY <1>1 DEF Pace
<1>2. ASSUME NEW late \in Hitches, NEW held \in Pads PROVE Present(late, held) => Pace'
  <2>1. SUFFICES ASSUME Present(late, held) PROVE Pace'
    OBVIOUS
  <2>a. PICK now : now = host.now
    OBVIOUS
  <2>b. PICK d : d = host.deadline
    OBVIOUS
  <2>c. PICK k : k = host.shown
    OBVIOUS
  <2>d. PICK w : w = host.worst
    OBVIOUS
  <2>e. PICK due : due = PaceDeadline(host, late)
    OBVIOUS
  <2>2. /\ now \in Nat /\ d \in Nat /\ k \in Nat /\ w \in Nat
        /\ late \in Nat /\ Period \in Nat /\ Period # 0
    <3>1. host \in [pad : Nat, now : Nat, deadline : Nat, shown : Nat, worst : Nat]
      BY DEF Typed, TypeOK
    <3>2. late \in Nat /\ Period \in Nat /\ Period # 0
      BY SessionAssumption
    <3>3. QED BY <2>a, <2>b, <2>c, <2>d, <3>1, <3>2
  <2>3. /\ k * Period <= d /\ d <= now /\ (k = 0 => now = 0) /\ (d = 0 => k = 0)
        /\ (w <= Period /\ k # 0 => now = d /\ d <= (k + 1) * Period)
    BY <2>a, <2>b, <2>c, <2>d DEF Pace
  <2>4. LET anchor == IF d = 0 THEN now + late ELSE d
        IN  due = IF now + late > anchor + Period + (4 * Period)
                    THEN now + late + Period ELSE anchor + Period
    BY <2>a, <2>b, <2>e DEF PaceDeadline
  <2>5. due \in Nat
    BY <2>2, <2>4
  <2>6. /\ (k + 1) * Period <= due /\ due # 0
        /\ w <= Period /\ late <= Period => now + late <= due /\ due <= (k + 2) * Period
    BY <2>2, <2>3, <2>4, <2>5, PaceOnce
  <2>f. PICK n2 : n2 = IF now + late >= due THEN now + late ELSE due
    OBVIOUS
  <2>g. PICK w2 : w2 = IF late > w THEN late ELSE w
    OBVIOUS
  <2>7. host' = [pad |-> held, deadline |-> due, shown |-> k + 1, now |-> n2, worst |-> w2]
    BY <2>1, <2>a, <2>c, <2>d, <2>e, <2>f, <2>g DEF Present
  <2>8. host'.deadline = due /\ host'.shown = k + 1 /\ host'.now = n2 /\ host'.worst = w2
    BY <2>7
  <2>9. due <= n2 /\ k + 1 # 0
    BY <2>2, <2>5, <2>f
  <2>10. ASSUME w2 <= Period PROVE n2 = due /\ due <= ((k + 1) + 1) * Period
    <3>1. w <= Period /\ late <= Period
      BY <2>2, <2>g, <2>10
    <3>2. now + late <= due /\ due <= (k + 2) * Period
      BY <2>6, <3>1
    <3>3. n2 = due
      BY <2>2, <2>5, <2>f, <3>2
    <3>4. (k + 1) + 1 = k + 2
      BY <2>2
    <3>5. QED BY <3>2, <3>3, <3>4
  <2>11. QED BY <2>6, <2>8, <2>9, <2>10 DEF Pace
<1>3. (\E good \in BOOLEAN : RouteCommand(good)) => UNCHANGED host
  BY DEF RouteCommand
<1>4. (\E by \in {"native", "interp"}, n \in Steps : GuestStep(by, n)) => UNCHANGED host
  BY DEF GuestStep
<1>5. QED
  BY <1>1, <1>2, <1>3, <1>4
     DEF Next, Start, GuestStores, GuestReturns, ScriptInput, RouteFails, RouteDone, DrainSound,
         Dump, Headless, LimitReached, Done, vars

\* For every clock and every player the window never runs faster than the
\* console, and host_pace does not drift from it while each frame loses at most
\* its period.
THEOREM Paces == Spec => []Realtime
<1> DEFINE Inv == Typed /\ Pace
<1>1. Init => Inv
  BY TypedInit, PaceInit
<1>2. Inv /\ [Next]_vars => Inv'
  BY TypedStep, PaceStep
<1>3. Inv => Realtime
  <2>1. SUFFICES ASSUME Inv PROVE Realtime
    OBVIOUS
  <2>a. PICK now : now = host.now
    OBVIOUS
  <2>b. PICK d : d = host.deadline
    OBVIOUS
  <2>c. PICK k : k = host.shown
    OBVIOUS
  <2>2. now \in Nat /\ d \in Nat /\ k \in Nat /\ Period \in Nat
    <3>1. host \in [pad : Nat, now : Nat, deadline : Nat, shown : Nat, worst : Nat]
      BY <2>1 DEF Typed, TypeOK
    <3>2. QED BY <2>a, <2>b, <2>c, <3>1, SessionAssumption
  <2>3. /\ k * Period <= d /\ d <= now /\ (k = 0 => now = 0)
        /\ host.worst <= Period /\ k # 0 => now = d /\ d <= (k + 1) * Period
    BY <2>1, <2>a, <2>b, <2>c DEF Pace
  <2>4. k * Period \in Nat /\ (k + 1) * Period \in Nat
    BY <2>2
  <2>5. k * Period <= now
    BY <2>2, <2>3, <2>4
  <2>6. ASSUME host.worst <= Period PROVE now <= (k + 1) * Period
    <3>1. CASE k = 0
      BY <2>2, <2>3, <2>4, <3>1
    <3>2. CASE k # 0
      BY <2>3, <2>6, <3>2
    <3>3. QED BY <3>1, <3>2
  <2>7. QED BY <2>a, <2>c, <2>5, <2>6 DEF Realtime
<1> HIDE DEF Inv
<1>4. QED BY <1>1, <1>2, <1>3, PTL DEF Spec

-----------------------------------------------------------------------------
(* The route.                                                               *)

Ran  == \A i \in 1 .. Len(opt.route) : i < route.next => opt.route[i].frame <= frame
Left == \A i \in 1 .. Len(opt.route) : i >= route.next => opt.route[i].frame > frame

\* While the program runs: the commands executed are of frames that have come,
\* and but for the stage that executes them all such have been, with none failed.
Script ==
  /\ pc = "main" => route.next = 1
  /\ pc \notin {"main", "exit"} /\ Routed =>
       /\ Loads(opt.route)
       /\ limit # 0 => LastFrame <= limit
       /\ Ran
       /\ pc # "route" => ~route.failed
       /\ pc # "route" => Left

\* No command of the route is due only if the frames of all that are left are
\* still to come, since the route is in their order.
LEMMA NoneDue ==
  ASSUME Typed, Routed, Loads(opt.route), ~Due
  PROVE  Left
<1>1. opt.route \in Seq(Event) /\ route.next \in Nat \ {0} /\ frame \in Nat
  BY OptionFacts DEF Typed, TypeOK
<1>2. ASSUME NEW i \in 1 .. Len(opt.route), i >= route.next
      PROVE  opt.route[i].frame > frame
  <2>a. PICK k : k = route.next
    OBVIOUS
  <2>1. k \in 1 .. Len(opt.route) /\ k <= i
    <3>1. k \in Nat \ {0} /\ i >= k
      BY <1>1, <1>2, <2>a
    <3>2. Len(opt.route) \in Nat
      BY <1>1
    <3>3. QED BY <3>1, <3>2
  <2>2. opt.route[k].frame <= opt.route[i].frame
    BY <1>1, <2>1, Sorted
  <2>3. ~(opt.route[k].frame <= frame)
    <3>1. k <= Len(opt.route)
      BY <2>1
    <3>2. QED BY <2>a, <3>1 DEF Due
  <2>b. PICK x : x = opt.route[k].frame
    OBVIOUS
  <2>c. PICK y : y = opt.route[i].frame
    OBVIOUS
  <2>4. x \in Nat /\ y \in Nat
    <3>1. opt.route[k] \in Event /\ opt.route[i] \in Event
      BY <1>1, <2>1
    <3>2. QED BY <2>b, <2>c, <3>1 DEF Event
  <2>5. ~(x <= frame) /\ x <= y
    BY <2>2, <2>3, <2>b, <2>c
  <2>6. y > frame
    BY <1>1, <2>4, <2>5
  <2>7. QED BY <2>6, <2>c
<1>3. QED BY <1>2 DEF Left

LEMMA ScriptInit == ASSUME Init PROVE Script
BY DEF Init, Script

LEMMA ScriptStep ==
  ASSUME Typed, Clock, Script, [Next]_vars
  PROVE  Script'
<1>t. opt.route \in Seq(Event) /\ route.next \in Nat \ {0} /\ frame \in Nat
  BY OptionFacts DEF Typed, TypeOK
<1>1. ASSUME UNCHANGED <<opt, limit, frame, route>>, pc \notin {"main", "exit"},
             \/ pc' = pc
             \/ pc \notin {"route"} /\ pc' \notin {"main", "route", "exit"}
      PROVE  Script'
  <2>1. /\ Routed' = Routed /\ Loads(opt.route)' = Loads(opt.route)
        /\ LastFrame' = LastFrame /\ Ran' = Ran /\ Left' = Left
    BY <1>1 DEF Routed, Loads, LastFrame, Ran, Left
  <2>2. QED BY <1>1, <2>1 DEF Script
<1>2. ASSUME pc' = "exit" PROVE Script'
  BY <1>2 DEF Script
<1>3. Start => Script'
  <2>1. SUFFICES ASSUME Start, pc' # "exit", Routed PROVE Script'
    BY <1>2 DEF Start, Script, Routed
  <2>2. /\ Refused = 0 /\ pc' = "route" /\ limit' = Limit
        /\ UNCHANGED <<opt, route>> /\ frame' = 0
    BY <2>1 DEF Start, Exit, Clock
  <2>3. Loads(opt.route) /\ (Limit # 0 => LastFrame <= Limit)
    BY <2>1, <2>2, LimitFacts DEF Typed
  <2>4. route.next = 1
    BY <2>1 DEF Start, Script
  <2>5. Ran'
    <3>1. \A i \in 1 .. Len(opt.route) : ~(i < 1)
      BY <1>t
    <3>2. QED BY <2>2, <2>4, <3>1 DEF Ran
  <2>6. QED BY <2>2, <2>3, <2>5 DEF Script, Loads, LastFrame
<1>4. ASSUME NEW by \in {"native", "interp"}, NEW n \in Steps PROVE GuestStep(by, n) => Script'
  <2>1. GuestStep(by, n) => /\ UNCHANGED <<opt, limit, frame, route>>
                            /\ pc = "guest" /\ pc' \in {"guest", "input"}
    BY DEF GuestStep
  <2>2. QED BY <1>1, <2>1
<1>5. GuestStores => Script'
  BY <1>1 DEF GuestStores
<1>6. GuestReturns \/ RouteFails => Script'
  <2>1. GuestReturns \/ RouteFails => pc' = "exit"
    BY FinishFacts DEF GuestReturns, RouteFails, Exit
  <2>2. QED BY <1>2, <2>1
<1>7. ScriptInput => Script'
  <2>1. SUFFICES ASSUME ScriptInput, Routed PROVE Script'
    BY DEF ScriptInput, Script, Routed
  <2>2. /\ pc = "input" /\ pc' = "route" /\ UNCHANGED <<opt, limit, route>> /\ frame' = frame + 1
        /\ Loads(opt.route) /\ (limit # 0 => LastFrame <= limit) /\ Ran
    BY <2>1 DEF ScriptInput, Script
  <2>3. Ran'
    <3>1. SUFFICES ASSUME NEW i \in 1 .. Len(opt.route), i < route.next
                   PROVE  opt.route[i].frame <= frame + 1
      BY <2>2 DEF Ran
    <3>a. PICK x : x = opt.route[i].frame
      OBVIOUS
    <3>2. x \in Nat
      <4>1. opt.route[i] \in Event
        BY <1>t
      <4>2. QED BY <3>a, <4>1 DEF Event
    <3>3. x <= frame
      BY <2>2, <3>1, <3>a DEF Ran
    <3>4. x <= frame + 1
      BY <1>t, <3>2, <3>3
    <3>5. QED BY <3>a, <3>4
  <2>4. QED BY <2>2, <2>3 DEF Script, Loads, LastFrame
<1>8. ASSUME NEW good \in BOOLEAN PROVE RouteCommand(good) => Script'
  <2>1. SUFFICES ASSUME RouteCommand(good), Routed PROVE Script'
    BY DEF RouteCommand, Script, Routed
  <2>2. /\ pc = "route" /\ pc' = pc /\ UNCHANGED <<opt, limit, frame>> /\ Due
        /\ Loads(opt.route) /\ (limit # 0 => LastFrame <= limit) /\ Ran
        /\ route' = [next |-> route.next + 1,
                     failed |-> \/ Command.op = "capture" /\ ~good
                                \/ Command.op = "expect" /\ cell # Command.val]
    BY <2>1 DEF RouteCommand, Script
  <2>3. route'.next = route.next + 1
    BY <2>2
  <2>4. Ran'
    <3>1. SUFFICES ASSUME NEW i \in 1 .. Len(opt.route), i < route.next + 1
                   PROVE  opt.route[i].frame <= frame
      BY <2>2, <2>3 DEF Ran
    <3>a. PICK k : k = route.next
      OBVIOUS
    <3>2. k \in Nat /\ i \in Nat /\ i < k + 1
      BY <1>t, <3>1, <3>a
    <3>3. i < k \/ i = k
      BY <3>2
    <3>4. CASE i < k
      BY <2>2, <3>a, <3>4 DEF Ran
    <3>5. CASE i = k
      BY <2>2, <3>a, <3>5 DEF Due
    <3>6. QED BY <3>3, <3>4, <3>5
  <2>5. QED BY <2>2, <2>4 DEF Script, Loads, LastFrame, Routed
<1>9. RouteDone => Script'
  <2>1. SUFFICES ASSUME RouteDone, Routed PROVE Script'
    BY DEF RouteDone, Script, Routed
  <2>2. /\ pc = "route" /\ pc' \in {"guest", "sound"} /\ UNCHANGED <<opt, limit, frame, route>>
        /\ ~Due /\ ~route.failed
        /\ Loads(opt.route) /\ (limit # 0 => LastFrame <= limit) /\ Ran
    BY <2>1 DEF RouteDone, Script
  <2>3. Left
    BY <2>1, <2>2, NoneDue
  <2>4. Ran' /\ Left'
    BY <2>2, <2>3 DEF Ran, Left
  <2>5. QED BY <2>2, <2>4 DEF Script, Loads, LastFrame
<1>10. DrainSound \/ Dump \/ Headless => Script'
  <2>1. DrainSound \/ Dump \/ Headless => /\ UNCHANGED <<opt, limit, frame, route>>
                                         /\ pc \in {"sound", "dump", "present"}
                                         /\ pc' \in {"sound", "dump", "present", "limit"}
    BY DEF DrainSound, Dump, Headless
  <2>2. QED BY <1>1, <2>1
<1>11. ASSUME NEW late \in Hitches, NEW held \in Pads PROVE Present(late, held) => Script'
  <2>1. SUFFICES ASSUME Present(late, held) PROVE Script'
    OBVIOUS
  <2>2. pc = "present" /\ UNCHANGED <<opt, limit, frame, route>>
    BY <2>1 DEF Present
  <2>3. pc' = "limit" \/ pc' = "exit"
    BY <2>1, FinishFacts DEF Present
  <2>4. QED BY <1>1, <1>2, <2>2, <2>3
<1>12. LimitReached => Script'
  <2>1. SUFFICES ASSUME LimitReached PROVE Script'
    OBVIOUS
  <2>2. pc = "limit" /\ UNCHANGED <<opt, limit, frame, route>>
    BY <2>1 DEF LimitReached
  <2>3. pc' = "guest" \/ pc' = "exit"
    BY <2>1, FinishFacts DEF LimitReached
  <2>4. QED BY <1>1, <1>2, <2>2, <2>3
<1>13. UNCHANGED vars => Script'
  BY DEF vars, Script, Routed, Loads, LastFrame, Ran, Left
<1>14. QED
  BY <1>3, <1>4, <1>5, <1>6, <1>7, <1>8, <1>9, <1>10, <1>11, <1>12, <1>13 DEF Next, Done

LEMMA CompleteStep ==
  ASSUME Typed, Clock, Script, PassMeansComplete, [Next]_vars
  PROVE  PassMeansComplete'
<1>1. pc = "exit" => PassMeansComplete'
  BY DEF PassMeansComplete, Routed, Next, Start, GuestStep, GuestStores, GuestReturns, ScriptInput,
         RouteCommand, RouteFails, RouteDone, DrainSound, Dump, Headless, Present, LimitReached,
         Done, vars
<1>2. ASSUME pc # "exit", pc' = "exit", status' = 0, Routed', ending' \notin {"returned", "closed"}
      PROVE  LimitReached /\ AtLimit
  <2>1. ~Start
    <3>1. SUFFICES ASSUME Start PROVE FALSE
      OBVIOUS
    <3>2. Refused # 0 /\ status' = Refused
      BY <1>2, <3>1 DEF Start, Exit
    <3>3. QED BY <1>2, <3>2
  <2>2. ~GuestReturns
    BY <1>2, FinishFacts DEF GuestReturns
  <2>3. ~RouteFails
    <3>1. SUFFICES ASSUME RouteFails PROVE FALSE
      OBVIOUS
    <3>2. route.failed
      BY <3>1 DEF RouteFails
    <3>3. CASE frame = 0
      <4>1. status' = 1
        BY <3>1, <3>3 DEF RouteFails, Exit
      <4>2. QED BY <1>2, <4>1
    <3>4. CASE frame # 0
      BY <1>2, <3>1, <3>2, <3>4, FinishFacts DEF RouteFails
    <3>5. QED BY <3>3, <3>4
  <2>4. ASSUME NEW late \in Hitches, NEW held \in Pads PROVE ~Present(late, held)
    BY <1>2, FinishFacts DEF Present
  <2>5. ASSUME LimitReached PROVE AtLimit
    BY <1>2, <2>5 DEF LimitReached
  <2>6. QED
    BY <1>2, <2>1, <2>2, <2>3, <2>4, <2>5
       DEF Next, GuestStep, GuestStores, ScriptInput, RouteCommand, RouteDone, DrainSound, Dump,
           Headless, Done, vars
<1>3. ASSUME pc # "exit", pc' = "exit", status' = 0, Routed', ending' \notin {"returned", "closed"}
      PROVE  route'.next > Len(opt'.route) /\ ~route'.failed
  <2>1. LimitReached /\ AtLimit
    BY <1>2, <1>3
  <2>2. /\ pc = "limit" /\ UNCHANGED <<opt, limit, frame, route>> /\ Routed
    BY <1>3, <2>1 DEF LimitReached, Routed
  <2>3. Loads(opt.route) /\ (limit # 0 => LastFrame <= limit) /\ ~route.failed /\ Left
    BY <2>2 DEF Script
  <2>4. opt.route \in Seq(Event) /\ route.next \in Nat \ {0} /\ frame \in Nat /\ limit \in Nat
    BY OptionFacts DEF Typed, TypeOK
  <2>a. PICK k : k = route.next
    OBVIOUS
  <2>b. PICK m : m = Len(opt.route)
    OBVIOUS
  <2>c. PICK x : x = opt.route[m].frame
    OBVIOUS
  <2>5. k \in Nat /\ m \in Nat /\ m # 0
    <3>1. opt.route # << >>
      BY <2>3 DEF Loads
    <3>2. QED BY <2>4, <2>a, <2>b, <3>1
  <2>6. x <= limit /\ frame >= limit
    BY <2>1, <2>3, <2>b, <2>c DEF AtLimit, LastFrame
  <2>7. x \in Nat
    <3>1. m \in 1 .. Len(opt.route)
      BY <2>5, <2>b
    <3>2. opt.route[m] \in Event
      BY <2>4, <3>1
    <3>3. QED BY <2>c, <3>2 DEF Event
  <2>8. ~(x > frame)
    BY <2>4, <2>6, <2>7
  <2>9. ~(m >= k)
    <3>1. m \in 1 .. Len(opt.route)
      BY <2>5, <2>b
    <3>2. QED BY <2>3, <2>8, <2>a, <2>c, <3>1 DEF Left
  <2>10. k > m
    BY <2>5, <2>9
  <2>11. QED BY <2>2, <2>3, <2>10, <2>a, <2>b
<1>4. QED BY <1>1, <1>3 DEF PassMeansComplete

\* For every route: when the guest runs, the commands of the frames that have
\* come, those of this one included, are the ones executed, and none failed.
THEOREM RoutesOnTime == Spec => []RouteOnTime
<1> DEFINE Inv == Typed /\ Clock /\ Script
<1>1. Init => Inv
  BY TypedInit, ClockInit, ScriptInit
<1>2. Inv /\ [Next]_vars => Inv'
  BY TypedStep, ClockStep, ScriptStep
<1>3. Inv => RouteOnTime
  <2>1. SUFFICES ASSUME Inv, pc = "guest", Routed PROVE RouteOnTime
    BY DEF RouteOnTime
  <2>2. ~route.failed /\ Ran /\ Left
    BY <2>1 DEF Script
  <2>3. opt.route \in Seq(Event) /\ route.next \in Nat /\ frame \in Nat
    BY <2>1, OptionFacts DEF Typed, TypeOK
  <2>4. ASSUME NEW i \in 1 .. Len(opt.route)
        PROVE  i < route.next <=> opt.route[i].frame <= frame
    <3>a. PICK k : k = route.next
      OBVIOUS
    <3>b. PICK x : x = opt.route[i].frame
      OBVIOUS
    <3>1. k \in Nat /\ i \in Nat /\ x \in Nat
      <4>1. opt.route[i] \in Event
        BY <2>3
      <4>2. x \in Nat
        BY <3>b, <4>1 DEF Event
      <4>3. k \in Nat /\ i \in Nat
        BY <2>3, <3>a
      <4>4. QED BY <4>2, <4>3
    <3>2. (i < k => x <= frame) /\ (i >= k => x > frame)
      BY <2>2, <3>a, <3>b DEF Ran, Left
    <3>3. i < k <=> x <= frame
      BY <2>3, <3>1, <3>2
    <3>4. QED BY <3>3, <3>a, <3>b
  <2>5. QED BY <2>2, <2>4 DEF RouteOnTime
<1> HIDE DEF Inv
<1>4. QED BY <1>1, <1>2, <1>3, PTL DEF Spec

\* For every route a status of 0 means that its last command was executed, or
\* that the game returned or the player left before it.
THEOREM PassesComplete == Spec => []PassMeansComplete
<1> DEFINE Inv == Typed /\ Clock /\ Script /\ PassMeansComplete
<1>1. Init => Inv
  <2>1. Init => PassMeansComplete
    BY DEF Init, PassMeansComplete
  <2>2. QED BY <2>1, TypedInit, ClockInit, ScriptInit
<1>2. Inv /\ [Next]_vars => Inv'
  BY TypedStep, ClockStep, ScriptStep, CompleteStep
<1>3. Inv => PassMeansComplete
  OBVIOUS
<1> HIDE DEF Inv
<1>4. QED BY <1>1, <1>2, <1>3, PTL DEF Spec

-----------------------------------------------------------------------------
(* The controller.                                                          *)

\* Directive i is the last of those of the latest frame at or before f.
Wins(script, f, i) ==
  /\ i \in DOMAIN script /\ script[i].frame <= f
  /\ \A k \in DOMAIN script : script[k].frame <= f =>
       \/ script[k].frame < script[i].frame
       \/ script[k].frame = script[i].frame /\ k <= i

\* A script holds the mask of the directive that wins, and none without one.
LEMMA Scripted ==
  ASSUME NEW script, NEW f \in Nat, DOMAIN script \subseteq Nat,
         \A k \in DOMAIN script : script[k].frame \in Nat
  PROVE  /\ \A i : Wins(script, f, i) => ScriptedBy(script, f) = script[i].mask
         /\ (\A k \in DOMAIN script : ~ (script[k].frame <= f))
              => ScriptedBy(script, f) = 0
<1> DEFINE past == {i \in DOMAIN script : script[i].frame <= f}
           last == {i \in past : \A k \in past :
                      \/ script[k].frame < script[i].frame
                      \/ script[k].frame = script[i].frame /\ k <= i}
<1>1. ScriptedBy(script, f)
        = IF past = {} THEN 0 ELSE script[CHOOSE i \in last : TRUE].mask
  BY DEF ScriptedBy
<1>2. ASSUME NEW i, Wins(script, f, i) PROVE ScriptedBy(script, f) = script[i].mask
  <2>1. i \in last /\ past # {}
    BY <1>2 DEF Wins
  <2>2. ASSUME NEW k \in last PROVE k = i
    <3>1. k \in Nat /\ i \in Nat /\ script[k].frame \in Nat /\ script[i].frame \in Nat
      BY <2>1
    <3>2. /\ \/ script[k].frame < script[i].frame
             \/ script[k].frame = script[i].frame /\ k <= i
          /\ \/ script[i].frame < script[k].frame
             \/ script[i].frame = script[k].frame /\ i <= k
      BY <2>1
    <3>3. QED BY <3>1, <3>2
  <2> HIDE DEF last
  <2>3. (CHOOSE j \in last : TRUE) = i
    BY <2>1, <2>2
  <2>4. QED BY <1>1, <2>1, <2>3
<1>3. ASSUME \A k \in DOMAIN script : ~ (script[k].frame <= f)
      PROVE  ScriptedBy(script, f) = 0
  <2>1. past = {}
    BY <1>3
  <2>2. QED BY <1>1, <2>1
<1>4. QED BY <1>2, <1>3

Found == [found : BOOLEAN, frame : Nat, mask : Nat]

\* The search looks at one directive after the other.
LEMMA SearchFacts ==
  ASSUME opt.press \in Seq(Press), NEW f \in Nat
  PROVE  /\ Search(f)[0] = [found |-> FALSE, frame |-> 0, mask |-> 0]
         /\ \A n \in 1 .. Len(opt.press) :
              Search(f)[n] = Better(Search(f)[n - 1], opt.press[n], f)
<1> DEFINE m    == Len(opt.press)
           none == [found |-> FALSE, frame |-> 0, mask |-> 0]
           H    == [n \in 1 .. m |-> [b \in Found |-> Better(b, opt.press[n], f)]]
           Rec(g) == g = [n \in 0 .. m |->
                            IF n = 0 THEN none ELSE Better(g[n - 1], opt.press[n], f)]
<1>1. m \in Nat /\ none \in Found
  BY DEF Found
<1>2. Extends(m, Found, H)
  <2>1. ASSUME NEW n \in 1 .. m, NEW b \in Found PROVE Better(b, opt.press[n], f) \in Found
    <3>1. opt.press[n] \in Press
      OBVIOUS
    <3>2. opt.press[n].frame \in Nat /\ opt.press[n].mask \in Nat
      BY <3>1 DEF Press
    <3>3. QED BY <3>2 DEF Better, Found
  <2>2. QED BY <2>1 DEF Extends
<1> HIDE DEF m, none
<1>3. PICK g : Chain(g, m, Found, none, H)
  <2> HIDE DEF H
  <2>1. QED BY <1>1, <1>2, Chaining
<1>4. /\ g \in [0 .. m -> Found] /\ g[0] = none
      /\ \A n \in 1 .. m : g[n] = Better(g[n - 1], opt.press[n], f)
  <2>1. /\ g \in [0 .. m -> Found] /\ g[0] = none
        /\ \A n \in 1 .. m : g[n] = H[n][g[n - 1]]
    BY <1>3 DEF Chain
  <2>2. ASSUME NEW n \in 1 .. m PROVE g[n] = Better(g[n - 1], opt.press[n], f)
    <3>1. n - 1 \in 0 .. m
      BY <1>1
    <3>2. g[n - 1] \in Found
      BY <2>1, <3>1
    <3>3. QED BY <2>1, <3>2
  <2>3. QED BY <2>1, <2>2
<1>5. Rec(g)
  <2> DEFINE v(n) == IF n = 0 THEN none ELSE Better(g[n - 1], opt.press[n], f)
  <2>1. \A n \in 0 .. m : g[n] = v(n)
    <3>1. \A n \in 0 .. m : n = 0 \/ n \in 1 .. m
      BY <1>1
    <3>2. QED BY <1>4, <3>1
  <2> HIDE DEF v
  <2>2. g = [n \in 0 .. m |-> v(n)]
    BY <1>4, <2>1
  <2>3. QED BY <2>2 DEF v
<1>6. Search(f) = CHOOSE h : Rec(h)
  BY DEF Search, m, none
<1>7. Rec(Search(f))
  BY <1>5, <1>6
<1>8. Search(f)[0] = none
  BY <1>1, <1>7
<1>9. ASSUME NEW n \in 1 .. m
      PROVE  Search(f)[n] = Better(Search(f)[n - 1], opt.press[n], f)
  <2>1. n \in 0 .. m /\ n # 0
    BY <1>1
  <2>2. QED BY <1>7, <2>1
<1>10. QED BY <1>8, <1>9 DEF m, none

\* press_provider's loop finds what the script holds.
LEMMA ProviderFinds ==
  ASSUME opt.press \in Seq(Press), NEW f \in Nat
  PROVE  PressProvider(f) = ScriptedBy(opt.press, f)
<1> DEFINE press == opt.press
           m == Len(press)
           s == Search(f)
           Nothing(n) == s[n].found = FALSE /\ s[n].mask = 0
                         /\ \A k \in 1 .. n : ~ (press[k].frame <= f)
           Best(n, i) == /\ s[n] = [found |-> TRUE, frame |-> press[i].frame,
                                    mask |-> press[i].mask]
                         /\ press[i].frame <= f
                         /\ \A k \in 1 .. n : press[k].frame <= f =>
                              \/ press[k].frame < press[i].frame
                              \/ press[k].frame = press[i].frame /\ k <= i
           T == {n \in 0 .. m : Nothing(n) \/ \E i \in 1 .. n : Best(n, i)}
<1>1. m \in Nat /\ DOMAIN press = 1 .. m
      /\ \A k \in 1 .. m : press[k].frame \in Nat /\ press[k].mask \in Nat
  <2>1. m \in Nat /\ DOMAIN press = 1 .. m /\ \A k \in 1 .. m : press[k] \in Press
    OBVIOUS
  <2> HIDE DEF press, m
  <2>2. \A p \in Press : p.frame \in Nat /\ p.mask \in Nat
    BY DEF Press
  <2>3. QED BY <2>1, <2>2
<1>2. /\ s[0] = [found |-> FALSE, frame |-> 0, mask |-> 0]
      /\ \A n \in 1 .. m : s[n] = Better(s[n - 1], press[n], f)
  BY SearchFacts
<1> HIDE DEF s, press
<1>3. 0 \in T
  BY <1>1, <1>2
<1>4. ASSUME NEW n \in 0 .. m - 1, n \in T PROVE n + 1 \in T
  <2>1. /\ n + 1 \in 1 .. m /\ n + 1 \in 0 .. m /\ n \in Nat
        /\ \A k \in 1 .. n + 1 : k \in 1 .. n \/ k = n + 1
        /\ \A k \in 1 .. n : k \in 1 .. n + 1 /\ k <= n + 1 /\ k \in 1 .. m
    BY <1>1
  <2> DEFINE p == press[n + 1]
  <2>2. s[n + 1] = Better(s[n], p, f) /\ p.frame \in Nat
    <3>1. n + 1 - 1 = n
      BY <2>1
    <3>2. QED BY <1>1, <1>2, <2>1, <3>1
  <2>3. CASE ~ (p.frame <= f)
    <3>1. s[n + 1] = s[n]
      BY <2>2, <2>3 DEF Better
    <3>2. CASE Nothing(n)
      <4>1. Nothing(n + 1)
        BY <2>1, <2>3, <3>1, <3>2
      <4>2. QED BY <2>1, <4>1
    <3>3. ASSUME NEW i \in 1 .. n, Best(n, i) PROVE n + 1 \in T
      <4>1. Best(n + 1, i)
        BY <2>1, <2>3, <3>1, <3>3
      <4>2. QED BY <2>1, <4>1
    <3>4. QED BY <1>4, <3>2, <3>3
  <2>4. CASE p.frame <= f /\ (Nothing(n) \/ \E i \in 1 .. n : Best(n, i) /\ p.frame >= press[i].frame)
    <3>1. s[n + 1] = [found |-> TRUE, frame |-> p.frame, mask |-> p.mask]
      <4>1. CASE Nothing(n)
        BY <2>2, <2>4, <4>1 DEF Better
      <4>2. ASSUME NEW i \in 1 .. n, Best(n, i), p.frame >= press[i].frame
            PROVE  s[n + 1] = [found |-> TRUE, frame |-> p.frame, mask |-> p.mask]
        <5>1. p.frame >= s[n].frame
          BY <4>2
        <5>2. QED BY <2>2, <2>4, <5>1 DEF Better
      <4>3. QED BY <2>4, <4>1, <4>2
    <3>2. ASSUME NEW k \in 1 .. n, press[k].frame <= f
          PROVE  press[k].frame <= p.frame
      <4>1. CASE Nothing(n)
        BY <3>2, <4>1
      <4>2. ASSUME NEW i \in 1 .. n, Best(n, i), p.frame >= press[i].frame
            PROVE  press[k].frame <= p.frame
        <5>1. press[k].frame <= press[i].frame
          BY <3>2, <4>2, <2>1, <1>1
        <5>2. QED BY <5>1, <4>2, <2>1, <2>2, <1>1
      <4>3. QED BY <2>4, <4>1, <4>2
    <3>3. Best(n + 1, n + 1)
      <4>1. ASSUME NEW k \in 1 .. n + 1, press[k].frame <= f
            PROVE  \/ press[k].frame < p.frame
                   \/ press[k].frame = p.frame /\ k <= n + 1
        <5>1. CASE k = n + 1
          BY <5>1, <2>1
        <5>2. CASE k \in 1 .. n
          <6>1. press[k].frame <= p.frame /\ press[k].frame \in Nat /\ k <= n + 1
            BY <5>2, <4>1, <3>2, <2>1, <1>1
          <6>2. QED BY <6>1, <2>2
        <5>3. QED BY <5>1, <5>2, <2>1
      <4>2. QED BY <4>1, <3>1, <2>4
    <3>4. n + 1 \in 1 .. n + 1
      BY <2>1
    <3>5. QED BY <3>3, <3>4, <2>1
  <2>5. ASSUME p.frame <= f, NEW i \in 1 .. n, Best(n, i), ~ (p.frame >= press[i].frame)
        PROVE  n + 1 \in T
    <3>1. s[n + 1] = s[n]
      BY <2>2, <2>5 DEF Better
    <3>2. p.frame < press[i].frame
      BY <2>5, <2>2, <2>1, <1>1
    <3>3. Best(n + 1, i)
      BY <2>1, <2>5, <3>1, <3>2
    <3>4. QED BY <2>1, <3>3
  <2>6. QED BY <1>4, <2>3, <2>4, <2>5
<1>5. m \in T
  <2> HIDE DEF T
  <2>1. \A n \in 0 .. m : n \in T
    BY <1>1, <1>3, <1>4, Climb
  <2>2. QED BY <1>1, <2>1
<1>6. PressProvider(f) = s[m].mask
  BY DEF PressProvider, s, press
<1>7. DOMAIN press \subseteq Nat
  BY <1>1
<1>8. CASE Nothing(m)
  <2>1. ScriptedBy(press, f) = 0
    BY <1>1, <1>7, <1>8, Scripted
  <2>2. QED BY <1>6, <1>8, <2>1 DEF press
<1>9. ASSUME NEW i \in 1 .. m, Best(m, i) PROVE PressProvider(f) = ScriptedBy(press, f)
  <2>1. Wins(press, f, i)
    BY <1>1, <1>9 DEF Wins
  <2>2. ScriptedBy(press, f) = press[i].mask
    BY <1>1, <1>7, <2>1, Scripted
  <2>3. QED BY <1>6, <1>9, <2>2
<1>10. QED BY <1>5, <1>8, <1>9 DEF press

\* Of the route's pad commands the last one executed is held.
Held ==
  \/ pad = 0 /\ \A i \in DOMAIN PadCommands : ~ (i < route.next)
  \/ \E i \in DOMAIN PadCommands :
       /\ i < route.next /\ pad = PadCommands[i].mask
       /\ \A k \in DOMAIN PadCommands : k < route.next => k <= i

\* The pad is the route's, the directives' or the player's.
Handed ==
  /\ pc \notin {"main", "exit"} /\ Routed => opt.press = << >>
  /\ Routed => Held
  /\ ~Routed /\ opt.press # << >> /\ frame > 0 => pad = ScriptedBy(opt.press, frame)
  /\ ~Automated => pad = host.pad

\* A route's pad commands are commands of the route, with its frames.
LEMMA PadFacts ==
  ASSUME opt.route \in Seq(Event)
  PROVE  /\ DOMAIN PadCommands \subseteq 1 .. Len(opt.route)
         /\ \A i \in 1 .. Len(opt.route) :
              i \in DOMAIN PadCommands <=> opt.route[i].op = "pad"
         /\ \A i \in DOMAIN PadCommands :
              /\ PadCommands[i].frame = opt.route[i].frame
              /\ PadCommands[i].mask = opt.route[i].val
              /\ PadCommands[i].frame \in Nat
<1>1. ASSUME NEW i \in 1 .. Len(opt.route) PROVE opt.route[i].frame \in Nat
  <2>1. opt.route[i] \in Event
    OBVIOUS
  <2>2. QED BY <2>1 DEF Event
<1>2. QED BY <1>1 DEF PadCommands

LEMMA HandedInit == ASSUME Init PROVE Handed
<1>1. /\ pc = "main" /\ frame = 0 /\ pad = 0 /\ host.pad = 0 /\ route.next = 1
  BY DEF Init, IdleHost
<1>2. opt.route \in Seq(Event)
  BY SessionAssumption DEF Init, Option
<1>3. \A i \in DOMAIN PadCommands : ~ (i < 1)
  BY <1>2, PadFacts
<1>4. QED BY <1>1, <1>3 DEF Handed, Held

LEMMA HandedStep ==
  ASSUME Typed, Handed, [Next]_vars
  PROVE  Handed'
<1>t. /\ opt.route \in Seq(Event) /\ opt.press \in Seq(Press)
      /\ route.next \in Nat \ {0} /\ frame \in Nat
  BY OptionFacts DEF Typed, TypeOK
<1>1. ASSUME UNCHANGED <<opt, frame, route, pad, host>>, pc' = "exit" \/ pc \notin {"main", "exit"}
      PROVE  Handed'
  <2>1. /\ Routed' = Routed /\ Automated' = Automated /\ PadCommands' = PadCommands
    BY <1>1 DEF Routed, Automated, PadCommands
  <2>2. Held' = Held
    BY <1>1, <2>1 DEF Held
  <2>3. QED BY <1>1, <2>1, <2>2 DEF Handed
<1>2. Start => Handed'
  <2>1. SUFFICES ASSUME Start, pc' # "exit" PROVE Handed'
    BY <1>1 DEF Start
  <2>2. Refused = 0 /\ UNCHANGED <<opt, frame, route, pad, host>>
    BY <2>1 DEF Start, Exit
  <2>3. Routed => opt.press = << >>
    BY <2>2 DEF Refused
  <2>4. /\ Routed' = Routed /\ Automated' = Automated /\ PadCommands' = PadCommands
    BY <2>2 DEF Routed, Automated, PadCommands
  <2>5. Held' = Held
    BY <2>2, <2>4 DEF Held
  <2>6. QED BY <2>2, <2>3, <2>4, <2>5 DEF Handed
<1>3. ASSUME NEW by \in {"native", "interp"}, NEW n \in Steps PROVE GuestStep(by, n) => Handed'
  <2>1. GuestStep(by, n) => UNCHANGED <<opt, frame, route, pad, host>> /\ pc = "guest"
    BY DEF GuestStep
  <2>2. QED BY <1>1, <2>1
<1>4. GuestStores \/ GuestReturns \/ RouteFails \/ RouteDone \/ DrainSound \/ Dump \/ Headless
        \/ LimitReached => Handed'
  <2>1. GuestStores \/ GuestReturns \/ RouteFails \/ RouteDone \/ DrainSound \/ Dump \/ Headless
          \/ LimitReached
        => UNCHANGED <<opt, frame, route, pad, host>> /\ pc \notin {"main", "exit"}
    BY DEF GuestStores, GuestReturns, RouteFails, RouteDone, DrainSound, Dump, Headless,
           LimitReached
  <2>2. QED BY <1>1, <2>1
<1>5. ScriptInput => Handed'
  <2>1. SUFFICES ASSUME ScriptInput PROVE Handed'
    OBVIOUS
  <2>2. /\ pc = "input" /\ frame' = frame + 1 /\ UNCHANGED <<opt, route, host>>
        /\ pad' = IF opt.press # << >> THEN PressProvider(frame + 1) ELSE pad
    BY <2>1 DEF ScriptInput
  <2>3. /\ Routed' = Routed /\ Automated' = Automated /\ PadCommands' = PadCommands
    BY <2>2 DEF Routed, Automated, PadCommands
  <2>4. Routed => opt.press = << >> /\ Held
    BY <2>2 DEF Handed
  <2>5. Routed => Held'
    BY <2>2, <2>3, <2>4 DEF Held
  <2>6. opt.press # << >> => pad' = ScriptedBy(opt.press, frame + 1)
    <3>1. frame + 1 \in Nat
      BY <1>t
    <3>2. QED BY <1>t, <2>2, <3>1, ProviderFinds
  <2>7. ~Automated => opt.press = << >> /\ pad = host.pad
    BY DEF Handed, Automated
  <2>8. QED BY <2>2, <2>3, <2>4, <2>5, <2>6, <2>7 DEF Handed
<1>6. ASSUME NEW good \in BOOLEAN PROVE RouteCommand(good) => Handed'
  <2>1. SUFFICES ASSUME RouteCommand(good) PROVE Handed'
    OBVIOUS
  <2>2. /\ pc = "route" /\ Due /\ Routed /\ UNCHANGED <<opt, pc, frame, host>>
        /\ pad' = IF Command.op = "pad" THEN Command.val ELSE pad
    BY <2>1 DEF RouteCommand, Due
  <2>3. route'.next = route.next + 1
    BY <2>1 DEF RouteCommand
  <2>4. /\ Routed' = Routed /\ Automated' = Automated /\ PadCommands' = PadCommands
    BY <2>2 DEF Routed, Automated, PadCommands
  <2>5. opt.press = << >> /\ Held
    BY <2>2 DEF Handed
  <2> DEFINE k == route.next
  <2>6. /\ k \in 1 .. Len(opt.route) /\ Command = opt.route[k]
        /\ \A i \in DOMAIN PadCommands : i \in Nat /\ (i < k + 1 <=> i < k \/ i = k)
    <3>1. k \in Nat \ {0} /\ k <= Len(opt.route) /\ Len(opt.route) \in Nat
      BY <1>t, <2>2 DEF Due
    <3>2. QED BY <3>1, <1>t, PadFacts DEF Command
  <2>7. k \in DOMAIN PadCommands <=> Command.op = "pad"
    BY <1>t, <2>6, PadFacts
  <2>8. Held'
    <3>1. CASE Command.op = "pad"
      <4>1. k \in DOMAIN PadCommands /\ pad' = PadCommands[k].mask
        BY <1>t, <2>2, <2>6, <2>7, <3>1, PadFacts
      <4>2. \A i \in DOMAIN PadCommands : i < k + 1 => i <= k
        BY <2>6
      <4>3. k < k + 1
        BY <2>6
      <4> HIDE DEF k
      <4>4. QED BY <2>3, <2>4, <4>1, <4>2, <4>3 DEF Held, k
    <3>2. CASE Command.op # "pad"
      <4>1. pad' = pad /\ \A i \in DOMAIN PadCommands : i < k + 1 <=> i < k
        BY <2>2, <2>6, <2>7, <3>2
      <4>2. QED BY <2>3, <2>4, <2>5, <4>1 DEF Held
    <3>3. QED BY <3>1, <3>2
  <2>9. QED BY <2>2, <2>4, <2>5, <2>8 DEF Handed, Automated
<1>7. ASSUME NEW late \in Hitches, NEW held \in Pads PROVE Present(late, held) => Handed'
  <2>1. SUFFICES ASSUME Present(late, held) PROVE Handed'
    OBVIOUS
  <2>2. /\ pc = "present" /\ UNCHANGED <<opt, frame, route>>
        /\ pad' = IF Automated THEN pad ELSE held
        /\ host'.pad = held
    BY <2>1 DEF Present
  <2>3. /\ Routed' = Routed /\ Automated' = Automated /\ PadCommands' = PadCommands
    BY <2>2 DEF Routed, Automated, PadCommands
  <2>4. Routed => Automated /\ Held /\ opt.press = << >>
    BY <2>2 DEF Handed, Automated
  <2>5. Routed => Held'
    BY <2>2, <2>3, <2>4 DEF Held
  <2>6. opt.press # << >> => Automated
    BY DEF Automated
  <2>7. QED BY <2>2, <2>3, <2>4, <2>5, <2>6 DEF Handed
<1>8. UNCHANGED vars => Handed'
  BY DEF vars, Handed, Routed, Automated, PadCommands, Held
<1>9. QED
  BY <1>2, <1>3, <1>4, <1>5, <1>6, <1>7, <1>8 DEF Next, Done

\* For every script and player: the guest reads the controller the script holds,
\* whatever the player does, and the player's when there is no script.
THEOREM ScriptsHold == Spec => []PadIsScripts
<1> DEFINE Inv == Typed /\ Clock /\ Script /\ Handed
<1>1. Init => Inv
  BY TypedInit, ClockInit, ScriptInit, HandedInit
<1>2. Inv /\ [Next]_vars => Inv'
  BY TypedStep, ClockStep, ScriptStep, HandedStep
<1>3. Inv => PadIsScripts
  <2>1. SUFFICES ASSUME Inv, pc = "guest", frame > 0
                 PROVE  pad = IF Routed THEN ScriptedBy(PadCommands, frame)
                              ELSE IF opt.press # << >> THEN ScriptedBy(opt.press, frame)
                              ELSE host.pad
    BY DEF PadIsScripts
  <2>2. opt.route \in Seq(Event) /\ route.next \in Nat /\ frame \in Nat
    BY <2>1, OptionFacts DEF Typed, TypeOK
  <2>3. CASE Routed
    <3>1. Ran /\ Left /\ Held /\ Loads(opt.route)
      BY <2>1, <2>3 DEF Script, Handed
    <3>2. \A i \in DOMAIN PadCommands :
            /\ i \in Nat /\ i \in 1 .. Len(opt.route)
            /\ PadCommands[i].frame = opt.route[i].frame /\ PadCommands[i].frame \in Nat
      BY <2>2, PadFacts
    <3>3. ASSUME NEW i \in DOMAIN PadCommands
          PROVE  i < route.next <=> PadCommands[i].frame <= frame
      <4>1. i < route.next => PadCommands[i].frame <= frame
        BY <3>1, <3>2 DEF Ran
      <4>2. i >= route.next => PadCommands[i].frame > frame
        BY <3>1, <3>2 DEF Left
      <4>3. i < route.next \/ i >= route.next
        BY <2>2, <3>2
      <4>4. QED BY <4>1, <4>2, <4>3, <2>2, <3>2
    <3>4. DOMAIN PadCommands \subseteq Nat /\ \A k \in DOMAIN PadCommands : PadCommands[k].frame \in Nat
      BY <3>2
    <3>5. CASE pad = 0 /\ \A i \in DOMAIN PadCommands : ~ (i < route.next)
      <4>1. \A i \in DOMAIN PadCommands : ~ (PadCommands[i].frame <= frame)
        BY <3>3, <3>5
      <4>2. ScriptedBy(PadCommands, frame) = 0
        BY <2>2, <3>4, <4>1, Scripted
      <4>3. QED BY <2>3, <3>5, <4>2
    <3>6. ASSUME NEW i \in DOMAIN PadCommands, i < route.next, pad = PadCommands[i].mask,
                 \A k \in DOMAIN PadCommands : k < route.next => k <= i
          PROVE  pad = ScriptedBy(PadCommands, frame)
      <4>1. ASSUME NEW k \in DOMAIN PadCommands, PadCommands[k].frame <= frame
            PROVE  \/ PadCommands[k].frame < PadCommands[i].frame
                   \/ PadCommands[k].frame = PadCommands[i].frame /\ k <= i
        <5>1. k <= i
          BY <3>3, <3>6, <4>1
        <5>2. opt.route[k].frame <= opt.route[i].frame
          BY <2>2, <3>1, <3>2, <5>1, Sorted
        <5>3. PadCommands[k].frame <= PadCommands[i].frame
          BY <3>2, <5>2
        <5>4. \A x, y \in Nat : x <= y => x < y \/ x = y
          OBVIOUS
        <5>5. QED BY <3>2, <5>1, <5>3, <5>4
      <4>2. PadCommands[i].frame <= frame
        BY <3>3, <3>6
      <4>3. Wins(PadCommands, frame, i)
        BY <4>1, <4>2 DEF Wins
      <4>4. ScriptedBy(PadCommands, frame) = PadCommands[i].mask
        BY <2>2, <3>4, <4>3, Scripted
      <4>5. QED BY <3>6, <4>4
    <3>7. QED BY <2>3, <3>1, <3>5, <3>6 DEF Held
  <2>4. CASE ~Routed
    BY <2>1, <2>4 DEF Handed, Automated
  <2>5. QED BY <2>3, <2>4
<1> HIDE DEF Inv
<1>4. QED BY <1>1, <1>2, <1>3, PTL DEF Spec
=============================================================================
