----------------------------- MODULE PortsProofs -----------------------------
(***************************************************************************)
(* Theorems about Ports, for memories of every size: in the manners modelled *)
(* the devices hold what the programs meant them to hold.                    *)
(***************************************************************************)
EXTENDS Ports, TLAPS

-----------------------------------------------------------------------------
(* Arithmetic.                                                              *)

\* A number is its quotient and its remainder.
LEMMA Divide ==
  ASSUME NEW a \in Nat, NEW d \in Nat \ {0}
  PROVE  /\ a \div d \in Nat /\ a % d \in 0 .. d - 1
         /\ a = (d * (a \div d)) + (a % d)
OBVIOUS

\* There is only one such quotient.
LEMMA Quotient ==
  ASSUME NEW d \in Nat \ {0}, NEW q \in Nat, NEW r \in 0 .. d - 1
  PROVE  ((d * q) + r) \div d = q /\ ((d * q) + r) % d = r
<1> DEFINE a == (d * q) + r
           q2 == a \div d
           r2 == a % d
<1>1. a \in Nat
  OBVIOUS
<1>2. q2 \in Nat /\ r2 \in 0 .. d - 1 /\ a = (d * q2) + r2
  BY <1>1, Divide
<1> HIDE DEF q2, r2
<1>3. d * (q - q2) = r2 - r
  BY <1>2
<1>4. q - q2 <= 0
  <2>1. SUFFICES ASSUME q - q2 >= 1 PROVE FALSE
    BY <1>2
  <2>2. d * (q - q2) >= d
    BY <2>1, <1>2
  <2>3. QED BY <2>2, <1>2, <1>3
<1>5. q - q2 >= 0
  <2>1. SUFFICES ASSUME q2 - q >= 1 PROVE FALSE
    BY <1>2
  <2>2. d * (q2 - q) >= d
    BY <2>1, <1>2
  <2>3. d * (q2 - q) = r - r2
    BY <1>2
  <2>4. QED BY <2>2, <2>3, <1>2
<1>6. q = q2
  BY <1>2, <1>4, <1>5
<1>7. r = r2
  BY <1>2, <1>6
<1>8. QED BY <1>6, <1>7 DEF q2, r2

\* A number below the divisor is its own remainder.
LEMMA Below ==
  ASSUME NEW d \in Nat \ {0}, NEW r \in 0 .. d - 1
  PROVE  r % d = r
<1>1. ((d * 0) + r) % d = r
  BY Quotient
<1>2. QED BY <1>1

\* One step on in a ring of d places.
LEMMA Wraps ==
  ASSUME NEW d \in Nat \ {0}, NEW x \in Nat
  PROVE  ((x % d) + 1) % d = (x + 1) % d
<1> DEFINE q == x \div d
           r == x % d
<1>1. q \in Nat /\ r \in 0 .. d - 1 /\ x = (d * q) + r
  BY Divide
<1> HIDE DEF q, r
<1>2. CASE r + 1 \in 0 .. d - 1
  <2>1. x + 1 = (d * q) + (r + 1)
    BY <1>1
  <2>2. ((d * q) + (r + 1)) % d = r + 1
    BY <1>1, <1>2, Quotient
  <2>3. (r + 1) % d = r + 1
    BY <1>1, <1>2, Below
  <2>4. QED BY <2>1, <2>2, <2>3 DEF r
<1>3. CASE r + 1 = d
  <2>1. x + 1 = (d * (q + 1)) + 0
    BY <1>1, <1>3
  <2>2. ((d * (q + 1)) + 0) % d = 0
    BY <1>1, Quotient
  <2>3. ((d * 1) + 0) % d = 0
    BY Quotient
  <2>4. (r + 1) % d = 0
    BY <1>3, <1>1, <2>3
  <2>5. QED BY <2>1, <2>2, <2>4 DEF r
<1>4. QED BY <1>1, <1>2, <1>3

LEMMA MemorySize ==
  /\ VramSize \in Nat \ {0} /\ Cells = 0 .. VramSize - 1 /\ 0 \in Cells
  /\ \E k \in Nat : VramSize = 2 * k
<1>1. VramSize \in Nat \ {0}
  BY PortsAssumption DEF VramSize
<1>2. VramSize % 2 = 0
  BY PortsAssumption
<1>3. /\ VramSize \div 2 \in Nat
      /\ VramSize = (2 * (VramSize \div 2)) + (VramSize % 2)
  BY <1>1, Divide
<1>4. VramSize = 2 * (VramSize \div 2)
  BY <1>1, <1>2, <1>3
<1>5. QED BY <1>1, <1>3, <1>4 DEF Cells

\* The two control bytes of an address carry all of it.
LEMMA Split ==
  ASSUME NEW a \in Cells
  PROVE  /\ a % L \in 0 .. L - 1 /\ a \div L \in 0 .. H - 1
         /\ (a % L) + ((a \div L) * L) = a
<1>1. a \in Nat /\ a < L * H /\ L \in Nat \ {0} /\ H \in Nat \ {0}
  BY PortsAssumption DEF Cells, VramSize
<1> DEFINE q == a \div L
           r == a % L
<1>2. q \in Nat /\ r \in 0 .. L - 1 /\ a = (L * q) + r
  BY <1>1, Divide
<1> HIDE DEF q, r
<1>3. q < H
  <2>1. SUFFICES ASSUME q - H >= 0 PROVE FALSE
    BY <1>1, <1>2
  <2>2. L * (q - H) >= 0
    BY <2>1, <1>1, <1>2
  <2>3. L * q >= L * H
    BY <2>2, <1>1, <1>2
  <2>4. QED BY <2>3, <1>1, <1>2
<1>4. r + (q * L) = a
  BY <1>1, <1>2
<1>5. QED BY <1>1, <1>2, <1>3, <1>4 DEF q, r

\* A code and a high part in one byte.
LEMMA Command ==
  ASSUME NEW c \in Nat, NEW h \in 0 .. H - 1
  PROVE  ((c * H) + h) % H = h /\ ((c * H) + h) \div H = c
<1>1. H \in Nat \ {0}
  BY PortsAssumption
<1>2. (H * c) + h = (c * H) + h
  BY <1>1
<1>3. QED BY <1>1, <1>2, Quotient

LEMMA Bumps == \A a \in Cells : Bump(a) \in Cells
<1>1. \A a \in Nat : (a + 1) % VramSize \in 0 .. VramSize - 1
  BY MemorySize, Divide
<1>2. QED BY <1>1, MemorySize DEF Bump

-----------------------------------------------------------------------------
(* Types.                                                                   *)

Value == 0 .. L - 1

VdpType(gg) ==
  [gg : {gg}, second : BOOLEAN, latch : Value, addr : Cells, code : 0 .. 3,
   readbuf : Value, colour : Value, vram : [Cells -> Value],
   cram : [0 .. CramSize(gg) - 1 -> Value], reg : [0 .. NumRegs - 1 -> Value]]

PsgType == [latch : (0 .. 3) \X {"tone", "vol"}, lo : [0 .. 2 -> Nat],
            hi : [0 .. 2 -> Nat], vol : [0 .. 3 -> Nat], noise : Nat]

MeantType(gg) ==
  [vram : [Cells -> Value], cram : [0 .. CramSize(gg) - 1 -> Value],
   reg : [0 .. NumRegs - 1 -> Value], tone : [0 .. 2 -> Nat \X Nat],
   vol : [0 .. 3 -> Nat], noise : Nat, read : BOOLEAN]

Moved  == {"read", "write", "cram"}
Sounds == {"tone", "vol", "noise"}

\* The transfers a program can be in.
Job ==
  {j \in [kind : Moved \union Sounds \union {"reg"}, base : Nat, len : {0, 2},
          stage : 1 .. 3, done : 0 .. 1] :
     /\ j.kind \notin Sounds => j.base \in Cells
     /\ j.kind \in Moved => j.len = 2
     /\ j.kind \notin Moved => j.len = 0 /\ j.stage # 3
     /\ j.kind = "tone" => j.base \in {0, 2}
     /\ j.kind = "vol" => j.base \in {1, 3}
     /\ j.kind = "noise" => j.base = 3
     /\ j.stage # 3 => j.done = 0}

Typed ==
  /\ vdp.gg \in BOOLEAN /\ vdp \in VdpType(vdp.gg)
  /\ psg \in PsgType
  /\ meant \in MeantType(vdp.gg)
  /\ job \in [Programs -> Job \union {Idle}]
  /\ \A p \in Programs : job[p].kind = "cram" /\ vdp.gg => job[p].base % 2 = 0
  /\ running \in Programs /\ manner \in Manners /\ jobs \in 0 .. MaxJobs

LEMMA JobFacts ==
  ASSUME NEW j \in Job
  PROVE  /\ j # Idle /\ j.kind # "none"
         /\ j.base \in Nat /\ j.stage \in 1 .. 3 /\ j.done \in 0 .. 1
         /\ j = [kind |-> j.kind, base |-> j.base, len |-> j.len, stage |-> j.stage,
                 done |-> j.done]
<1>1. j.kind \in Moved \union Sounds \union {"reg"}
  BY DEF Job
<1>2. j.kind # "none" /\ Idle.kind = "none"
  BY <1>1 DEF Moved, Sounds, Idle
<1>3. QED BY <1>2 DEF Job

LEMMA ControlTyped ==
  ASSUME NEW gg \in BOOLEAN, NEW d \in VdpType(gg), NEW v \in Nat,
         ~d.second => v \in Value,
         d.second => v \div H \in 0 .. 3 /\ d.latch + ((v % H) * L) \in Cells
  PROVE  ControlWrite(d, v) \in VdpType(gg)
<1>1. CASE ~d.second
  <2>1. d.addr \in Cells /\ v \in Value
    BY <1>1 DEF VdpType
  <2>2. ((d.addr \div L) * L) + v \in Cells
    <3> DEFINE q == d.addr \div L
    <3>1. q \in 0 .. H - 1
      BY <2>1, Split
    <3> HIDE DEF q
    <3>2. L \in Nat \ {0} /\ H \in Nat \ {0}
      BY PortsAssumption
    <3>3. L * (H - 1 - q) >= 0 /\ v \in 0 .. L - 1
      BY <3>1, <3>2, <2>1 DEF Value
    <3>4. (q * L) + v \in 0 .. (L * H) - 1
      BY <3>1, <3>2, <3>3
    <3>5. QED BY <3>4 DEF q, Cells, VramSize
  <2>3. QED BY <1>1, <2>1, <2>2 DEF ControlWrite, VdpType
<1>2. CASE d.second
  <2> DEFINE a == d.latch + ((v % H) * L)
  <2>1. a \in Cells /\ Bump(a) \in Cells /\ v \div H \in 0 .. 3
    BY <1>2, Bumps
  <2>2. d.vram[a] \in Value /\ d.latch \in Value
    BY <2>1 DEF VdpType
  <2> HIDE DEF a
  <2>3. IF v \div H = 2 THEN [d.reg EXCEPT ![(v % H) % NumRegs] = d.latch] ELSE d.reg
          \in [0 .. NumRegs - 1 -> Value]
    <3>1. d.reg \in [0 .. NumRegs - 1 -> Value]
      BY DEF VdpType
    <3>2. \A x : [d.reg EXCEPT ![x] = d.latch] \in [0 .. NumRegs - 1 -> Value]
      BY <3>1, <2>2
    <3>3. QED BY <3>1, <3>2
  <2>4. QED BY <1>2, <2>1, <2>2, <2>3 DEF ControlWrite, VdpType, a
<1>3. QED BY <1>1, <1>2 DEF VdpType

LEMMA DataTyped ==
  ASSUME NEW gg \in BOOLEAN, NEW d \in VdpType(gg), NEW v \in Value
  PROVE  /\ DataWrite(d, v) \in VdpType(gg)
         /\ DataRead(d) \in VdpType(gg)
         /\ StatusRead(d) \in VdpType(gg)
<1>1. v % 16 \in Value
  BY PortsAssumption DEF Value
<1>2. Bump(d.addr) \in Cells /\ d.vram[d.addr] \in Value /\ d.colour \in Value
  BY Bumps DEF VdpType
<1>3. DataWrite(d, v) \in VdpType(gg)
  BY <1>1, <1>2 DEF DataWrite, VdpType
<1>4. QED BY <1>2, <1>3 DEF DataRead, StatusRead, VdpType

LEMMA TypedInit == ASSUME Init PROVE Typed
<1>1. PICK gg \in Machines : vdp = VdpInit(gg)
  BY DEF Init
<1>2. vdp.gg = gg /\ gg \in BOOLEAN
  BY <1>1, PortsAssumption DEF VdpInit
<1>3. 0 \in Value
  BY PortsAssumption DEF Value
<1>4. vdp \in VdpType(vdp.gg)
  BY <1>1, <1>2, <1>3, MemorySize DEF VdpInit, VdpType
<1>5. psg \in PsgType
  BY DEF Init, PsgInit, PsgType
<1>6. meant \in MeantType(vdp.gg)
  <2>1. vdp.vram \in [Cells -> Value] /\ vdp.reg \in [0 .. NumRegs - 1 -> Value]
        /\ vdp.cram \in [0 .. CramSize(vdp.gg) - 1 -> Value]
    BY <1>4 DEF VdpType
  <2>2. [c \in 0 .. 2 |-> <<1, 0>>] \in [0 .. 2 -> Nat \X Nat]
        /\ PsgInit.vol \in [0 .. 3 -> Nat]
    BY DEF PsgInit
  <2>3. meant = [vram |-> vdp.vram, cram |-> vdp.cram, reg |-> vdp.reg,
                 tone |-> [c \in 0 .. 2 |-> <<1, 0>>], vol |-> PsgInit.vol,
                 noise |-> 0, read |-> TRUE]
    BY DEF Init
  <2>4. QED BY <2>1, <2>2, <2>3 DEF MeantType
<1>7. \A p \in Programs : job[p] = Idle
  BY DEF Init
<1>8. Idle.kind # "cram"
  BY DEF Idle
<1>9. job \in [Programs -> Job \union {Idle}]
  BY DEF Init
<1>10. running \in Programs /\ manner \in Manners /\ jobs \in 0 .. MaxJobs
  BY PortsAssumption DEF Init, Programs
<1>11. QED BY <1>2, <1>4, <1>5, <1>6, <1>7, <1>8, <1>9, <1>10 DEF Typed

\* What a program begins is a job.
LEMMA BeginFacts ==
  ASSUME Typed, NEW p \in Programs, NEW j \in Transfers(p)
  PROVE  /\ j \in Job /\ j.stage = 1 /\ j.done = 0
         /\ j.kind = "cram" /\ vdp.gg => j.base % 2 = 0
<1> DEFINE New(k, b, n) == [kind |-> k, base |-> b, len |-> n, stage |-> 1, done |-> 0]
<1>1. Bases \subseteq Cells /\ Cells \subseteq Nat
  BY PortsAssumption, MemorySize DEF Cells
<1>2. \/ \E k \in {"read", "write"}, b \in Bases : j = New(k, b, 2)
      \/ \E b \in Bases : j = New("cram", b, 2) /\ (vdp.gg => b % 2 = 0)
      \/ \E b \in Bases : j = New("reg", b, 0)
      \/ \E c \in {0, 2} : j = New("tone", c, 0)
      \/ \E c \in {1, 3} : j = New("vol", c, 0)
      \/ j = New("noise", 3, 0)
  BY DEF Transfers
<1>3. QED BY <1>1, <1>2 DEF Job, Moved, Sounds

\* A transfer after a step of it is a job or over.
LEMMA NextByte ==
  ASSUME NEW j \in Job, j.stage < 3, NEW n, n = [j EXCEPT !.stage = @ + 1]
  PROVE  /\ n \in Job \/ Finished(n)
         /\ Finished(n) <=> (j.stage = 2 /\ j.kind \notin Moved)
         /\ n.kind = j.kind /\ n.base = j.base /\ n.stage = j.stage + 1 /\ n.done = 0
<1>1. j \in [kind : Moved \union Sounds \union {"reg"}, base : Nat, len : {0, 2},
             stage : 1 .. 3, done : 0 .. 1]
  BY DEF Job
<1>2. n = [kind |-> j.kind, base |-> j.base, len |-> j.len, stage |-> j.stage + 1,
           done |-> j.done]
  BY <1>1
<1>3. j.done = 0 /\ j.stage + 1 \in 1 .. 3
  BY <1>1 DEF Job
<1>4. n.kind = j.kind /\ n.base = j.base /\ n.len = j.len /\ n.stage = j.stage + 1
      /\ n.done = 0
  BY <1>2, <1>3
<1>5. Finished(n) <=> (j.stage = 2 /\ j.len = 0)
  BY <1>1, <1>3, <1>4 DEF Finished
<1>6. (j.len = 0) <=> (j.kind \notin Moved)
  BY <1>1 DEF Job
<1>7. ASSUME ~Finished(n) PROVE n \in Job
  <2>1. n \in [kind : Moved \union Sounds \union {"reg"}, base : Nat, len : {0, 2},
               stage : 1 .. 3, done : 0 .. 1]
    BY <1>1, <1>2, <1>3
  <2>2. j.stage # 2 \/ j.kind \in Moved
    BY <1>5, <1>6, <1>7
  <2>3. j.kind \notin Moved => n.stage # 3
    BY <1>1, <1>4, <2>2
  <2>4. QED BY <1>4, <2>1, <2>3 DEF Job
<1>8. QED BY <1>4, <1>5, <1>6, <1>7

LEMMA NextCell ==
  ASSUME NEW j \in Job, j.stage = 3, NEW n, n = [j EXCEPT !.done = @ + 1]
  PROVE  /\ n \in Job \/ Finished(n)
         /\ Finished(n) <=> (j.done = 1)
         /\ n.kind = j.kind /\ n.base = j.base /\ n.stage = 3 /\ n.done = j.done + 1
<1>1. j \in [kind : Moved \union Sounds \union {"reg"}, base : Nat, len : {0, 2},
             stage : 1 .. 3, done : 0 .. 1]
  BY DEF Job
<1>2. n = [kind |-> j.kind, base |-> j.base, len |-> j.len, stage |-> j.stage,
           done |-> j.done + 1]
  BY <1>1
<1>3. j.kind \in Moved /\ j.len = 2
  BY DEF Job
<1>4. n.kind = j.kind /\ n.base = j.base /\ n.len = 2 /\ n.stage = 3
      /\ n.done = j.done + 1
  BY <1>2, <1>3
<1>5. Finished(n) <=> (j.done = 1)
  BY <1>1, <1>4 DEF Finished
<1>6. ASSUME ~Finished(n) PROVE n \in Job
  <2>1. j.done + 1 = 1
    BY <1>1, <1>5, <1>6
  <2>2. n \in [kind : Moved \union Sounds \union {"reg"}, base : Nat, len : {0, 2},
               stage : 1 .. 3, done : 0 .. 1]
    BY <1>1, <1>2, <2>1
  <2>3. QED BY <1>3, <1>4, <2>2 DEF Job
<1>7. QED BY <1>4, <1>5, <1>6

-----------------------------------------------------------------------------
(* What the devices' latches hold.                                          *)

\* The handler makes transfers only where main masks it during its own.
Exclusive ==
  /\ running = "main" => job["handler"] = Idle
  /\ job["handler"] # Idle => manner = "job"
  /\ running = "handler" => ~Masked

\* The program is between the two bytes of a VDP command, or of a PSG one.
Selecting(p) == job[p] # Idle /\ ~Sound(job[p]) /\ job[p].stage = 2
Naming(p)    == job[p] # Idle /\ Sound(job[p]) /\ job[p].stage = 2
Moving(p)    == job[p] # Idle /\ job[p].stage = 3

Second == vdp.second <=> (\E p \in Programs : Selecting(p))

\* The latches are those of the program that is between its bytes, and address,
\* code and buffer those of the one that moves data.
Latched(p) == Selecting(p) => vdp.latch = job[p].base % L
Named(p)   == Naming(p) => psg.latch = <<job[p].base, IF job[p].kind = "vol" THEN "vol" ELSE "tone">>
Addressed(p) ==
  Moving(p) =>
    LET j == job[p] IN
    /\ vdp.code = Codes[j.kind]
    /\ j.kind # "read" => vdp.addr = (j.base + j.done) % VramSize
    /\ j.kind = "read" =>
         /\ vdp.addr = (j.base + j.done + 1) % VramSize
         /\ vdp.readbuf = vdp.vram[(j.base + j.done) % VramSize]
Coloured(p) ==
  Moving(p) /\ job[p].kind = "cram" /\ vdp.gg /\ job[p].done = 1 =>
    vdp.colour = meant.cram[job[p].base % CramSize(TRUE)]

Ready(p) == Latched(p) /\ Named(p) /\ Addressed(p) /\ Coloured(p)

Inv == Typed /\ Exclusive /\ Second /\ \A p \in Programs : Ready(p)

\* A program that is not between bytes or moving data needs nothing of them.
LEMMA Resting ==
  ASSUME NEW p, job[p] = Idle \/ job[p].stage = 1
  PROVE  Ready(p) /\ ~Selecting(p) /\ ~Naming(p) /\ ~Moving(p)
<1>1. ~Selecting(p) /\ ~Naming(p) /\ ~Moving(p)
  BY DEF Selecting, Naming, Moving
<1>2. QED BY <1>1 DEF Ready, Latched, Named, Addressed, Coloured

\* While one program acts, the other rests.
LEMMA Acting ==
  ASSUME Typed, Exclusive, NEW p \in Programs, running = p, job[p] # Idle
  PROVE  \A q \in Programs \ {p} : job[q] = Idle \/ job[q].stage = 1
<1>1. CASE p = "main"
  BY <1>1 DEF Exclusive, Programs
<1>2. CASE p = "handler"
  <2>1. manner = "job" /\ ~Masked
    BY <1>2 DEF Exclusive
  <2>2. SUFFICES ASSUME job["main"] # Idle PROVE job["main"].stage = 1
    BY <1>2 DEF Programs
  <2>3. job["main"].stage \in 1 .. 3
    BY <2>2, JobFacts DEF Typed, Programs
  <2>4. ~(job["main"].stage > 1)
    BY <2>1, <2>2 DEF Masked
  <2>5. QED BY <2>3, <2>4
<1>3. QED BY <1>1, <1>2 DEF Programs

LEMMA SecondFacts ==
  ASSUME Typed, Exclusive, Second, NEW p \in Programs, running = p, job[p] # Idle
  PROVE  vdp.second <=> Selecting(p)
<1>1. \A q \in Programs \ {p} : ~Selecting(q)
  BY Acting DEF Selecting
<1>2. QED BY <1>1 DEF Second

LEMMA CodeFacts ==
  /\ Codes["read"] = 0 /\ Codes["write"] = 1 /\ Codes["reg"] = 2 /\ Codes["cram"] = 3
  /\ \A k \in Moved \union {"reg"} : Codes[k] \in 0 .. 3
BY DEF Codes, Moved

\* The first control byte.
LEMMA FirstByte ==
  ASSUME Inv, NEW p \in Programs, Control(p), job[p].stage = 1
  PROVE  /\ job[p].base % L \in Value
         /\ \E a \in Cells : vdp' = [vdp EXCEPT !.latch = job[p].base % L, !.second = TRUE,
                                              !.addr = a]
         /\ meant' = meant
<1> DEFINE j == job[p]
<1>1. j \in Job /\ running = p /\ j # Idle /\ ~Sound(j)
  BY DEF Inv, Typed, Control
<1>2. ~vdp.second
  BY <1>1, SecondFacts DEF Inv, Selecting
<1>3. j.base \in Cells
  BY <1>1 DEF Job, Sound, Sounds
<1>4. j.base % L \in Value
  BY <1>3, Split DEF Value
<1>5. vdp' = ControlWrite(vdp, j.base % L) /\ meant' = meant
  BY DEF Control
<1>6. vdp' = [vdp EXCEPT !.latch = j.base % L, !.second = TRUE,
                         !.addr = ((vdp.addr \div L) * L) + (j.base % L)]
  BY <1>2, <1>5 DEF ControlWrite
<1>7. vdp \in VdpType(vdp.gg) /\ vdp.gg \in BOOLEAN /\ j.base % L \in Nat
  BY <1>4 DEF Inv, Typed, Value
<1>8. ControlWrite(vdp, j.base % L) \in VdpType(vdp.gg)
  BY <1>2, <1>4, <1>7, ControlTyped
<1>9. vdp'.addr = ((vdp.addr \div L) * L) + (j.base % L)
  BY <1>6, <1>7 DEF VdpType
<1>10. vdp'.addr \in Cells
  BY <1>5, <1>8 DEF VdpType
<1>11. QED BY <1>4, <1>5, <1>6, <1>9, <1>10

\* The second control byte.
LEMMA SecondByte ==
  ASSUME Inv, NEW p \in Programs, Control(p), job[p].stage = 2
  PROVE  LET j == job[p] IN
         /\ j.base \in Cells /\ vdp.latch = j.base % L
         /\ vdp' = [vdp EXCEPT
              !.second = FALSE, !.code = Codes[j.kind],
              !.addr = IF j.kind = "read" THEN Bump(j.base) ELSE j.base,
              !.readbuf = IF j.kind = "read" THEN vdp.vram[j.base] ELSE @,
              !.reg = IF j.kind = "reg"
                        THEN [@ EXCEPT ![(j.base \div L) % NumRegs] = j.base % L] ELSE @]
         /\ meant' = IF j.kind = "reg"
                       THEN [meant EXCEPT !.reg[(j.base \div L) % NumRegs] = j.base % L]
                       ELSE meant
<1> DEFINE j == job[p]
           v == (Codes[j.kind] * H) + (j.base \div L)
<1>1. j \in Job /\ running = p /\ j # Idle /\ ~Sound(j)
  BY DEF Inv, Typed, Control
<1>2. vdp.second /\ vdp.latch = j.base % L
  <2>1. Selecting(p)
    BY <1>1 DEF Selecting
  <2>2. QED BY <1>1, <2>1, SecondFacts DEF Inv, Ready, Latched
<1>3. j.base \in Cells /\ j.kind \in Moved \union {"reg"}
  BY <1>1 DEF Job, Sound, Sounds
<1>4. /\ j.base \div L \in 0 .. H - 1
      /\ (j.base % L) + ((j.base \div L) * L) = j.base
  BY <1>3, Split
<1>5. Codes[j.kind] \in 0 .. 3 /\ (Codes[j.kind] = 0) = (j.kind = "read")
      /\ (Codes[j.kind] = 2) = (j.kind = "reg")
  BY <1>3, CodeFacts DEF Moved
<1>6. v % H = j.base \div L /\ v \div H = Codes[j.kind]
  BY <1>4, <1>5, Command
<1>7. vdp' = ControlWrite(vdp, v)
  BY DEF Control
<1>8. meant' = IF j.kind = "reg"
                 THEN [meant EXCEPT !.reg[(j.base \div L) % NumRegs] = j.base % L]
                 ELSE meant
  BY DEF Control
<1> HIDE DEF v
<1>9. vdp.latch + ((v % H) * L) = j.base
  BY <1>2, <1>4, <1>6
<1>10. ControlWrite(vdp, v) =
         [vdp EXCEPT !.second = FALSE, !.code = v \div H,
            !.addr = IF v \div H = 0 THEN Bump(j.base) ELSE j.base,
            !.readbuf = IF v \div H = 0 THEN vdp.vram[j.base] ELSE @,
            !.reg = IF v \div H = 2 THEN [@ EXCEPT ![(v % H) % NumRegs] = vdp.latch] ELSE @]
  BY <1>2, <1>9 DEF ControlWrite
<1>11. QED BY <1>2, <1>3, <1>5, <1>6, <1>7, <1>8, <1>10

\* A step of a program's transfer touches no other.
LEMMA StepFacts ==
  ASSUME Typed, NEW p \in Programs, NEW n, Step(p, n), n \in Job \/ Finished(n),
         n.kind = job[p].kind, n.base = job[p].base, job[p] # Idle
  PROVE  /\ job' \in [Programs -> Job \union {Idle}]
         /\ job'[p] = IF Finished(n) THEN Idle ELSE n
         /\ \A q \in Programs \ {p} : job'[q] = job[q]
         /\ vdp.gg' = vdp.gg =>
              \A q \in Programs : job'[q].kind = "cram" /\ vdp.gg' => job'[q].base % 2 = 0
<1>1. job' = [job EXCEPT ![p] = IF Finished(n) THEN Idle ELSE n]
  BY DEF Step
<1>2. job \in [Programs -> Job \union {Idle}]
  BY DEF Typed
<1>3. job'[p] = IF Finished(n) THEN Idle ELSE n
  BY <1>1, <1>2
<1>4. \A q \in Programs \ {p} : job'[q] = job[q]
  BY <1>1, <1>2
<1>5. job' \in [Programs -> Job \union {Idle}]
  BY <1>1, <1>2
<1>6. Idle.kind # "cram"
  BY DEF Idle
<1>7. \A q \in Programs : job[q].kind = "cram" /\ vdp.gg => job[q].base % 2 = 0
  BY DEF Typed
<1>8. ASSUME vdp.gg' = vdp.gg, NEW q \in Programs, job'[q].kind = "cram", vdp.gg'
      PROVE  job'[q].base % 2 = 0
  <2>1. CASE q = p
    BY <1>3, <1>6, <1>7, <1>8, <2>1
  <2>2. CASE q # p
    BY <1>4, <1>7, <1>8, <2>2
  <2>3. QED BY <2>1, <2>2
<1>9. QED BY <1>3, <1>4, <1>5, <1>8

LEMMA TypedControl ==
  ASSUME Inv, NEW p \in Programs, Control(p)
  PROVE  Typed' /\ vdp.gg' = vdp.gg
<1> DEFINE j == job[p]
           n == [j EXCEPT !.stage = @ + 1]
<1>1. j \in Job /\ j # Idle /\ j.stage \in {1, 2} /\ Step(p, n)
  <2>1. j \in Job /\ j.stage < 3 /\ Step(p, n)
    BY DEF Inv, Typed, Control
  <2>2. QED BY <2>1, JobFacts
<1>2. n \in Job \/ Finished(n)
  BY <1>1, NextByte
<1>3. n.kind = j.kind /\ n.base = j.base
  BY <1>1, NextByte
<1> HIDE DEF n
<1>4. vdp \in VdpType(vdp.gg) /\ vdp.gg \in BOOLEAN /\ meant \in MeantType(vdp.gg)
  BY DEF Inv, Typed
<1>5. vdp' \in VdpType(vdp.gg) /\ meant' \in MeantType(vdp.gg)
  <2>1. CASE j.stage = 1
    <3>1. PICK a \in Cells : vdp' = [vdp EXCEPT !.latch = j.base % L, !.second = TRUE,
                                                !.addr = a]
      BY <2>1, FirstByte
    <3>2. j.base % L \in Value /\ meant' = meant
      BY <2>1, FirstByte
    <3>3. QED BY <1>4, <3>1, <3>2 DEF VdpType
  <2>2. CASE j.stage = 2
    <3> DEFINE r == (j.base \div L) % NumRegs
               w == j.base % L
    <3>1. j.base \in Cells /\ w = vdp.latch
      BY <2>2, SecondByte
    <3>2. vdp' = [vdp EXCEPT
              !.second = FALSE, !.code = Codes[j.kind],
              !.addr = IF j.kind = "read" THEN Bump(j.base) ELSE j.base,
              !.readbuf = IF j.kind = "read" THEN vdp.vram[j.base] ELSE @,
              !.reg = IF j.kind = "reg" THEN [@ EXCEPT ![r] = w] ELSE @]
      BY <2>2, SecondByte
    <3>3. meant' = IF j.kind = "reg" THEN [meant EXCEPT !.reg[r] = w] ELSE meant
      BY <2>2, SecondByte
    <3> HIDE DEF r, w
    <3>4. w \in Value /\ Bump(j.base) \in Cells /\ vdp.vram[j.base] \in Value
      BY <1>4, <3>1, Bumps DEF VdpType
    <3>5. Codes[j.kind] \in 0 .. 3
      BY <1>1, CodeFacts DEF Job, Control, Sound, Sounds
    <3>6. /\ [vdp.reg EXCEPT ![r] = w] \in [0 .. NumRegs - 1 -> Value]
          /\ [meant.reg EXCEPT ![r] = w] \in [0 .. NumRegs - 1 -> Value]
      <4>1. /\ vdp.reg \in [0 .. NumRegs - 1 -> Value]
            /\ meant.reg \in [0 .. NumRegs - 1 -> Value]
        BY <1>4 DEF VdpType, MeantType
      <4>2. \A f \in [0 .. NumRegs - 1 -> Value] :
              [f EXCEPT ![r] = w] \in [0 .. NumRegs - 1 -> Value]
        BY <3>4
      <4>3. QED BY <4>1, <4>2
    <3>7. meant' \in MeantType(vdp.gg)
      <4>1. CASE j.kind = "reg"
        <5>1. meant' = [meant EXCEPT !.reg = [meant.reg EXCEPT ![r] = w]]
          BY <3>3, <4>1
        <5>2. QED BY <5>1, <1>4, <3>6 DEF MeantType
      <4>2. CASE j.kind # "reg"
        BY <3>3, <4>2, <1>4
      <4>3. QED BY <4>1, <4>2
    <3>8. vdp' \in VdpType(vdp.gg)
      <4>1. PICK a, b, g :
              /\ a = IF j.kind = "read" THEN Bump(j.base) ELSE j.base
              /\ b = IF j.kind = "read" THEN vdp.vram[j.base] ELSE vdp.readbuf
              /\ g = IF j.kind = "reg" THEN [vdp.reg EXCEPT ![r] = w] ELSE vdp.reg
        OBVIOUS
      <4>2. vdp' = [vdp EXCEPT !.second = FALSE, !.code = Codes[j.kind], !.addr = a,
                               !.readbuf = b, !.reg = g]
        BY <3>2, <4>1
      <4>3. a \in Cells /\ b \in Value /\ g \in [0 .. NumRegs - 1 -> Value]
        BY <1>4, <3>1, <3>4, <3>6, <4>1 DEF VdpType
      <4>4. QED BY <1>4, <3>5, <4>2, <4>3 DEF VdpType
    <3>9. QED BY <3>7, <3>8
  <2>3. QED BY <1>1, <2>1, <2>2
<1>6. vdp'.gg = vdp.gg
  BY <1>5 DEF VdpType
<1>7. /\ job' \in [Programs -> Job \union {Idle}]
      /\ \A q \in Programs : job'[q].kind = "cram" /\ vdp.gg' => job'[q].base % 2 = 0
  BY <1>1, <1>2, <1>3, <1>6, StepFacts DEF Inv
<1>8. psg' = psg /\ running' = running /\ manner' = manner /\ jobs' = jobs
  BY DEF Control
<1>9. QED BY <1>4, <1>5, <1>6, <1>7, <1>8 DEF Inv, Typed

LEMMA TypedWrite ==
  ASSUME Inv, NEW p \in Programs, NEW v \in Data, Write(p, v)
  PROVE  Typed' /\ vdp.gg' = vdp.gg /\ v \in Value
<1> DEFINE j == job[p]
           n == [j EXCEPT !.done = @ + 1]
<1>1. j \in Job /\ j # Idle /\ j.stage = 3 /\ j.kind \in {"write", "cram"} /\ Step(p, n)
  BY DEF Inv, Typed, Write
<1>2. (n \in Job \/ Finished(n)) /\ n.kind = j.kind /\ n.base = j.base
  BY <1>1, NextCell
<1> HIDE DEF n
<1>3. v \in Value /\ v % 16 \in Value
  BY PortsAssumption DEF Value
<1>4. vdp \in VdpType(vdp.gg) /\ vdp.gg \in BOOLEAN /\ meant \in MeantType(vdp.gg)
  BY DEF Inv, Typed
<1>5. vdp' \in VdpType(vdp.gg)
  BY <1>3, <1>4, DataTyped DEF Write
<1>6. vdp'.gg = vdp.gg
  BY <1>5 DEF VdpType
<1>7. meant' \in MeantType(vdp.gg)
  <2> DEFINE a == (j.base + j.done) % VramSize
             c == a % CramSize(vdp.gg)
             w == IF vdp.gg /\ a % 2 = 1 THEN v % 16 ELSE v
  <2>1. meant' = IF j.kind = "write" THEN [meant EXCEPT !.vram[a] = v]
                 ELSE [meant EXCEPT !.cram[c] = w]
    BY DEF Write
  <2>a. w \in Value
    BY <1>3
  <2> HIDE DEF a, c, w
  <2>2. /\ [meant.vram EXCEPT ![a] = v] \in [Cells -> Value]
        /\ [meant.cram EXCEPT ![c] = w] \in [0 .. CramSize(vdp.gg) - 1 -> Value]
    <3>1. meant.vram \in [Cells -> Value]
          /\ meant.cram \in [0 .. CramSize(vdp.gg) - 1 -> Value]
      BY <1>4 DEF MeantType
    <3>2. \A f \in [Cells -> Value] : [f EXCEPT ![a] = v] \in [Cells -> Value]
      BY <1>3
    <3>3. \A f \in [0 .. CramSize(vdp.gg) - 1 -> Value] :
            [f EXCEPT ![c] = w] \in [0 .. CramSize(vdp.gg) - 1 -> Value]
      BY <2>a
    <3>4. QED BY <3>1, <3>2, <3>3
  <2>3. CASE j.kind = "write"
    <3>1. meant' = [meant EXCEPT !.vram = [meant.vram EXCEPT ![a] = v]]
      BY <2>1, <2>3
    <3>2. QED BY <1>4, <2>2, <3>1 DEF MeantType
  <2>4. CASE j.kind # "write"
    <3>1. meant' = [meant EXCEPT !.cram = [meant.cram EXCEPT ![c] = w]]
      BY <2>1, <2>4
    <3>2. QED BY <1>4, <2>2, <3>1 DEF MeantType
  <2>5. QED BY <2>3, <2>4
<1>8. /\ job' \in [Programs -> Job \union {Idle}]
      /\ \A q \in Programs : job'[q].kind = "cram" /\ vdp.gg' => job'[q].base % 2 = 0
  BY <1>1, <1>2, <1>6, StepFacts DEF Inv
<1>9. psg' = psg /\ running' = running /\ manner' = manner /\ jobs' = jobs
  BY DEF Write
<1>10. QED BY <1>3, <1>4, <1>5, <1>6, <1>7, <1>8, <1>9 DEF Inv, Typed

LEMMA TypedRead ==
  ASSUME Inv, NEW p \in Programs, Read(p)
  PROVE  Typed' /\ vdp.gg' = vdp.gg
<1> DEFINE j == job[p]
           n == [j EXCEPT !.done = @ + 1]
<1>1. j \in Job /\ j # Idle /\ j.stage = 3 /\ Step(p, n)
  BY DEF Inv, Typed, Read
<1>2. (n \in Job \/ Finished(n)) /\ n.kind = j.kind /\ n.base = j.base
  BY <1>1, NextCell
<1> HIDE DEF n
<1>4. vdp \in VdpType(vdp.gg) /\ vdp.gg \in BOOLEAN /\ meant \in MeantType(vdp.gg)
  BY DEF Inv, Typed
<1>5. vdp' \in VdpType(vdp.gg)
  <2>1. 0 \in Value
    BY PortsAssumption DEF Value
  <2>2. QED BY <1>4, <2>1, DataTyped DEF Read
<1>6. vdp'.gg = vdp.gg
  BY <1>5 DEF VdpType
<1>7. meant' \in MeantType(vdp.gg)
  <2>1. PICK b \in BOOLEAN : meant' = [meant EXCEPT !.read = b]
    BY DEF Read
  <2>2. QED BY <1>4, <2>1 DEF MeantType
<1>8. /\ job' \in [Programs -> Job \union {Idle}]
      /\ \A q \in Programs : job'[q].kind = "cram" /\ vdp.gg' => job'[q].base % 2 = 0
  BY <1>1, <1>2, <1>6, StepFacts DEF Inv
<1>9. psg' = psg /\ running' = running /\ manner' = manner /\ jobs' = jobs
  BY DEF Read
<1>10. QED BY <1>4, <1>5, <1>6, <1>7, <1>8, <1>9 DEF Inv, Typed

LEMMA PsgSetTyped ==
  ASSUME NEW q \in PsgType, NEW c \in 0 .. 3, NEW t \in {"tone", "vol"},
         NEW first \in BOOLEAN, NEW v \in Nat
  PROVE  /\ PsgSet(q, <<c, t>>, first, v) \in PsgType
         /\ PsgSet(q, <<c, t>>, first, v).latch = q.latch
<1> DEFINE r == <<c, t>>
<1>1. r[1] = c /\ r[2] = t
  OBVIOUS
<1>2. q.vol \in [0 .. 3 -> Nat] /\ q.lo \in [0 .. 2 -> Nat] /\ q.hi \in [0 .. 2 -> Nat]
  BY DEF PsgType
<1> HIDE DEF r
<1>3. CASE t = "vol"
  <2>1. PsgSet(q, r, first, v) = [q EXCEPT !.vol = [q.vol EXCEPT ![c] = v]]
    BY <1>1, <1>3 DEF PsgSet
  <2>2. [q.vol EXCEPT ![c] = v] \in [0 .. 3 -> Nat]
    BY <1>2
  <2>3. QED BY <2>1, <2>2 DEF PsgType, r
<1>4. CASE t # "vol" /\ c = 3
  <2>1. PsgSet(q, r, first, v) = [q EXCEPT !.noise = v]
    BY <1>1, <1>4 DEF PsgSet
  <2>2. QED BY <2>1 DEF PsgType, r
<1>5. CASE t # "vol" /\ c # 3 /\ first
  <2>1. PsgSet(q, r, first, v) = [q EXCEPT !.lo = [q.lo EXCEPT ![c] = v]]
    BY <1>1, <1>5 DEF PsgSet
  <2>2. [q.lo EXCEPT ![c] = v] \in [0 .. 2 -> Nat]
    BY <1>2
  <2>3. QED BY <2>1, <2>2 DEF PsgType, r
<1>6. CASE t # "vol" /\ c # 3 /\ ~first
  <2>1. PsgSet(q, r, first, v) = [q EXCEPT !.hi = [q.hi EXCEPT ![c] = v]]
    BY <1>1, <1>6 DEF PsgSet
  <2>2. [q.hi EXCEPT ![c] = v] \in [0 .. 2 -> Nat]
    BY <1>2
  <2>3. QED BY <2>1, <2>2 DEF PsgType, r
<1>7. QED BY <1>3, <1>4, <1>5, <1>6

\* What a job's sound bytes change.
LEMMA SoundBytes ==
  ASSUME Inv, NEW p \in Programs, NEW v \in Data, SoundWrite(p, v)
  PROVE  LET j == job[p]
             t == IF j.kind = "vol" THEN "vol" ELSE "tone"
         IN
         /\ j \in Job /\ j.kind \in Sounds /\ j.stage \in {1, 2} /\ v \in Nat
         /\ j.base \in 0 .. 3 /\ t \in {"tone", "vol"}
         /\ j.stage = 1 =>
              psg' = [PsgSet(psg, <<j.base, t>>, TRUE, v) EXCEPT !.latch = <<j.base, t>>]
         /\ j.stage = 2 => psg' = PsgSet(psg, <<j.base, t>>, FALSE, v)
<1> DEFINE j == job[p]
           t == IF j.kind = "vol" THEN "vol" ELSE "tone"
<1>1. j \in Job /\ j.kind \in Sounds /\ j.stage < 3 /\ j # Idle /\ Sound(j)
  BY DEF Inv, Typed, SoundWrite, Sound, Sounds
<1>2. j.stage \in {1, 2}
  BY <1>1, JobFacts
<1>3. v \in Nat
  BY PortsAssumption
<1>4. j.base \in 0 .. 3
  BY <1>1 DEF Job, Sounds
<1>5. j.stage = 1 => psg' = LatchByte(psg, j.base, t, v)
  BY DEF SoundWrite
<1>6. j.stage = 2 => psg' = DataByte(psg, v)
  BY DEF SoundWrite
<1>7. j.stage = 2 => psg.latch = <<j.base, t>>
  BY <1>1 DEF Inv, Ready, Named, Naming
<1>8. t \in {"tone", "vol"}
  OBVIOUS
<1> HIDE DEF t
<1>9. QED BY <1>1, <1>2, <1>3, <1>4, <1>5, <1>6, <1>7, <1>8 DEF LatchByte, DataByte, t

LEMMA TypedSound ==
  ASSUME Inv, NEW p \in Programs, NEW v \in Data, SoundWrite(p, v)
  PROVE  Typed' /\ vdp.gg' = vdp.gg
<1> DEFINE j == job[p]
           n == [j EXCEPT !.stage = @ + 1]
           t == IF j.kind = "vol" THEN "vol" ELSE "tone"
<1>1. /\ j \in Job /\ j.kind \in Sounds /\ j.stage \in {1, 2} /\ v \in Nat
      /\ j.base \in 0 .. 3 /\ t \in {"tone", "vol"}
  BY SoundBytes
<1>2. j # Idle /\ j.stage < 3 /\ Step(p, n)
  BY DEF SoundWrite
<1>3. (n \in Job \/ Finished(n)) /\ n.kind = j.kind /\ n.base = j.base
  BY <1>1, <1>2, NextByte
<1>4. /\ j.stage = 1 =>
              psg' = [PsgSet(psg, <<j.base, t>>, TRUE, v) EXCEPT !.latch = <<j.base, t>>]
      /\ j.stage = 2 => psg' = PsgSet(psg, <<j.base, t>>, FALSE, v)
  BY SoundBytes
<1> HIDE DEF n, t
<1>5. psg \in PsgType
  BY DEF Inv, Typed
<1>6. psg' \in PsgType
  <2>1. CASE j.stage = 1
    <3> DEFINE s == PsgSet(psg, <<j.base, t>>, TRUE, v)
    <3>1. s \in PsgType
      BY <1>1, <1>5, PsgSetTyped
    <3>2. psg' = [s EXCEPT !.latch = <<j.base, t>>]
      BY <1>4, <2>1
    <3> HIDE DEF s
    <3>3. QED BY <1>1, <3>1, <3>2 DEF PsgType
  <2>2. CASE j.stage = 2
    <3>1. PsgSet(psg, <<j.base, t>>, FALSE, v) \in PsgType
      BY <1>1, <1>5, PsgSetTyped
    <3>2. psg' = PsgSet(psg, <<j.base, t>>, FALSE, v)
      BY <1>4, <2>2
    <3>3. QED BY <3>1, <3>2
  <2>3. QED BY <1>1, <2>1, <2>2
<1>7. meant' \in MeantType(vdp.gg)
  <2>1. meant \in MeantType(vdp.gg) /\ meant.tone \in [0 .. 2 -> Nat \X Nat]
        /\ meant.vol \in [0 .. 3 -> Nat]
    BY DEF Inv, Typed, MeantType
  <2>2. CASE j.kind = "tone"
    <3>0. meant' = [meant EXCEPT !.tone[j.base][j.stage] = v]
      BY <2>2 DEF SoundWrite
    <3>1. meant' = [meant EXCEPT !.tone = [meant.tone EXCEPT ![j.base][j.stage] = v]]
      BY <3>0
    <3>2. j.base \in 0 .. 2
      BY <1>1, <2>2 DEF Job
    <3>3. meant.tone[j.base] \in Nat \X Nat
      BY <2>1, <3>2
    <3>4. [meant.tone[j.base] EXCEPT ![j.stage] = v] \in Nat \X Nat
      BY <1>1, <3>3
    <3>5. [meant.tone EXCEPT ![j.base][j.stage] = v] \in [0 .. 2 -> Nat \X Nat]
      BY <2>1, <3>2, <3>4
    <3>6. QED BY <2>1, <3>1, <3>5 DEF MeantType
  <2>3. CASE j.kind = "vol"
    <3>1. meant' = [meant EXCEPT !.vol = [meant.vol EXCEPT ![j.base] = v]]
      BY <2>3 DEF SoundWrite
    <3>2. [meant.vol EXCEPT ![j.base] = v] \in [0 .. 3 -> Nat]
      BY <1>1, <2>1
    <3>3. QED BY <2>1, <3>1, <3>2 DEF MeantType
  <2>4. CASE j.kind = "noise"
    <3>1. meant' = [meant EXCEPT !.noise = v]
      BY <2>4 DEF SoundWrite
    <3>2. QED BY <1>1, <2>1, <3>1 DEF MeantType
  <2>5. QED BY <1>1, <2>2, <2>3, <2>4 DEF Sounds
<1>8. vdp' = vdp /\ running' = running /\ manner' = manner /\ jobs' = jobs
  BY DEF SoundWrite
<1>9. /\ job' \in [Programs -> Job \union {Idle}]
      /\ \A q \in Programs : job'[q].kind = "cram" /\ vdp.gg' => job'[q].base % 2 = 0
  BY <1>2, <1>3, <1>8, StepFacts DEF Inv
<1>10. QED BY <1>6, <1>7, <1>8, <1>9 DEF Inv, Typed

-----------------------------------------------------------------------------
(* The invariant is inductive.                                              *)

LEMMA RestingNext ==
  ASSUME NEW q, job'[q] = Idle \/ job'[q].stage = 1
  PROVE  Ready(q)' /\ ~Selecting(q)' /\ ~Naming(q)' /\ ~Moving(q)'
<1>1. ~Selecting(q)' /\ ~Naming(q)' /\ ~Moving(q)'
  BY DEF Selecting, Naming, Moving
<1>2. QED BY <1>1 DEF Ready, Latched, Named, Addressed, Coloured

\* A step of one program leaves the other at rest; what remains to show is that
\* the devices are as this one needs them.
LEMMA OwnStep ==
  ASSUME Inv, NEW p \in Programs, running = p, job[p] # Idle,
         running' = running, manner' = manner,
         \A q \in Programs \ {p} : job'[q] = job[q],
         Typed', vdp'.second <=> Selecting(p)', Ready(p)'
  PROVE  Inv'
<1>1. \A q \in Programs \ {p} : job'[q] = Idle \/ job'[q].stage = 1
  BY Acting DEF Inv
<1>2. \A q \in Programs \ {p} : Ready(q)' /\ ~Selecting(q)'
  BY <1>1, RestingNext
<1>3. Second'
  BY <1>2 DEF Second
<1>4. Exclusive'
  <2>1. CASE p = "main"
    <3>1. job["handler"] = Idle /\ job'["handler"] = job["handler"]
      BY <2>1 DEF Inv, Exclusive, Programs
    <3>2. QED BY <2>1, <3>1 DEF Exclusive
  <2>2. CASE p = "handler"
    <3>1. manner = "job" /\ ~Masked /\ job'["main"] = job["main"]
      BY <2>2 DEF Inv, Exclusive, Programs
    <3>2. ~Masked'
      BY <3>1 DEF Masked
    <3>3. QED BY <2>2, <3>1, <3>2 DEF Exclusive
  <2>3. QED BY <2>1, <2>2 DEF Programs
<1>5. \A q \in Programs : Ready(q)'
  BY <1>2
<1>6. QED BY <1>3, <1>4, <1>5 DEF Inv

LEMMA InvControl ==
  ASSUME Inv, NEW p \in Programs, Control(p)
  PROVE  Inv'
<1> DEFINE j == job[p]
           n == [j EXCEPT !.stage = @ + 1]
<1>1. /\ j \in Job /\ j.stage < 3 /\ Step(p, n) /\ running = p /\ j # Idle /\ ~Sound(j)
      /\ running' = running /\ manner' = manner
  BY DEF Inv, Typed, Control
<1>2. j.stage \in {1, 2}
  BY <1>1, JobFacts
<1>3. /\ n \in Job \/ Finished(n)
      /\ Finished(n) <=> (j.stage = 2 /\ j.kind \notin Moved)
      /\ n.kind = j.kind /\ n.base = j.base /\ n.stage = j.stage + 1 /\ n.done = 0
  BY <1>1, NextByte
<1> HIDE DEF n
<1>4. /\ job'[p] = IF Finished(n) THEN Idle ELSE n
      /\ \A q \in Programs \ {p} : job'[q] = job[q]
  BY <1>1, <1>3, StepFacts DEF Inv
<1>5. vdp \in VdpType(vdp.gg)
  BY DEF Inv, Typed
<1>6. Typed'
  BY TypedControl
<1>7. (vdp'.second <=> Selecting(p)') /\ Ready(p)'
  <2>1. CASE j.stage = 1
    <3>1. PICK a \in Cells : vdp' = [vdp EXCEPT !.latch = j.base % L, !.second = TRUE,
                                                !.addr = a]
      BY <2>1, FirstByte
    <3>2. vdp'.second = TRUE /\ vdp'.latch = j.base % L
      BY <1>5, <3>1 DEF VdpType
    <3>3. job'[p] = n /\ n \in Job /\ n.stage = 2 /\ ~Sound(n)
      BY <1>1, <1>3, <1>4, <2>1 DEF Sound
    <3>4. n # Idle
      BY <3>3, JobFacts
    <3>5. Selecting(p)' /\ ~Naming(p)' /\ ~Moving(p)'
      BY <3>3, <3>4 DEF Selecting, Naming, Moving
    <3>6. Latched(p)'
      BY <1>3, <3>2, <3>3 DEF Latched
    <3>7. QED BY <3>2, <3>5, <3>6 DEF Ready, Named, Addressed, Coloured
  <2>2. CASE j.stage = 2
    <3> DEFINE g == IF j.kind = "reg"
                    THEN [vdp.reg EXCEPT ![(j.base \div L) % NumRegs] = j.base % L]
                    ELSE vdp.reg
               a == IF j.kind = "read" THEN Bump(j.base) ELSE j.base
               b == IF j.kind = "read" THEN vdp.vram[j.base] ELSE vdp.readbuf
    <3>1. j.base \in Cells /\ vdp' = [vdp EXCEPT !.second = FALSE, !.code = Codes[j.kind],
                                                 !.addr = a, !.readbuf = b, !.reg = g]
      BY <2>2, SecondByte
    <3> HIDE DEF g, a, b
    <3>2. /\ vdp'.second = FALSE /\ vdp'.code = Codes[j.kind] /\ vdp'.addr = a
          /\ vdp'.readbuf = b /\ vdp'.vram = vdp.vram
      BY <1>5, <3>1 DEF VdpType
    <3>3. CASE j.kind \notin Moved
      <4>1. job'[p] = Idle
        BY <1>3, <1>4, <2>2, <3>3
      <4>2. QED BY <3>2, <4>1, RestingNext
    <3>4. CASE j.kind \in Moved
      <4>1. job'[p] = n /\ n.stage = 3
        BY <1>3, <1>4, <2>2, <3>4
      <4>2. ~Selecting(p)' /\ ~Naming(p)'
        BY <4>1 DEF Selecting, Naming
      <4>3. (n.base + n.done) % VramSize = n.base
        <5>1. n.base \in 0 .. VramSize - 1 /\ n.base + 0 = n.base
          BY <1>3, <3>1, MemorySize
        <5>2. QED BY <1>3, <5>1, MemorySize, Below
      <4>4. (n.base + n.done + 1) % VramSize = Bump(n.base)
        <5>1. n.base + n.done + 1 = n.base + 1
          BY <1>3, <3>1, MemorySize
        <5>2. QED BY <5>1 DEF Bump
      <4>5. Addressed(p)'
        BY <1>3, <3>2, <4>1, <4>3, <4>4 DEF Addressed, a, b
      <4>6. Coloured(p)'
        BY <1>3, <4>1 DEF Coloured
      <4>7. QED BY <3>2, <4>2, <4>5, <4>6 DEF Ready, Latched, Named
    <3>5. QED BY <3>3, <3>4
  <2>3. QED BY <1>2, <2>1, <2>2
<1>8. QED BY <1>1, <1>4, <1>6, <1>7, OwnStep

\* The two bytes of a colour lie in one entry.
LEMMA Entry ==
  ASSUME NEW x \in Cells, x % 2 = 0
  PROVE  LET size == CramSize(TRUE)
             c == x % size
         IN
         /\ size \in Nat \ {0}
         /\ x + 1 \in Cells /\ (x + 1) % 2 = 1
         /\ c \in 0 .. size - 1 /\ c % 2 = 0 /\ c + 1 \in 0 .. size - 1
         /\ (x + 1) % size = c + 1
<1> DEFINE size == CramSize(TRUE)
           c == x % size
           k == x \div 2
           m == x \div size
<1>1. size = 2 * Colours /\ Colours \in Nat \ {0} /\ x \in Nat
  BY PortsAssumption, MemorySize DEF CramSize
<1> HIDE DEF size
<1>0. size \in Nat \ {0}
  BY <1>1
<1>2. k \in Nat /\ x = (2 * k) + (x % 2)
  BY <1>1, Divide
<1> HIDE DEF k
<1>3. x = 2 * k
  BY <1>1, <1>2
<1>4. PICK h \in Nat : VramSize = 2 * h
  BY MemorySize
<1>5. x + 1 \in Cells
  <2>1. 2 * k < 2 * h
    BY <1>1, <1>3, <1>4, MemorySize
  <2>2. k + 1 <= h
    BY <1>2, <1>4, <2>1
  <2>3. x + 1 < VramSize
    BY <1>2, <1>3, <1>4, <2>2
  <2>4. QED BY <1>1, <1>4, <2>3, MemorySize
<1>6. (x + 1) % 2 = 1
  <2>1. ((2 * k) + 1) % 2 = 1
    BY <1>2, Quotient
  <2>2. QED BY <1>3, <2>1
<1>7. m \in Nat /\ c \in 0 .. size - 1 /\ x = (size * m) + c
  BY <1>0, <1>1, Divide
<1> HIDE DEF m, c
<1>8. PICK i \in Nat : c = 2 * i
  <2>1. c = 2 * (k - (Colours * m))
    BY <1>1, <1>2, <1>3, <1>7
  <2>2. k - (Colours * m) >= 0
    BY <1>1, <1>2, <1>7, <2>1
  <2>3. k - (Colours * m) \in Nat
    BY <1>1, <1>2, <1>7, <2>2
  <2>4. QED BY <2>1, <2>3
<1>9. c % 2 = 0
  <2>1. ((2 * i) + 0) % 2 = 0
    BY <1>8, Quotient
  <2>2. QED BY <1>8, <2>1
<1>10. c + 1 \in 0 .. size - 1
  <2>1. 2 * i < 2 * Colours
    BY <1>1, <1>7, <1>8
  <2>2. i + 1 <= Colours
    BY <1>1, <1>8, <2>1
  <2>3. QED BY <1>1, <1>8, <2>2
<1>11. (x + 1) % size = c + 1
  <2>1. x + 1 = (size * m) + (c + 1)
    BY <1>1, <1>7
  <2>2. ((size * m) + (c + 1)) % size = c + 1
    BY <1>0, <1>7, <1>10, Quotient
  <2>3. QED BY <2>1, <2>2
<1>12. QED BY <1>0, <1>5, <1>6, <1>7, <1>9, <1>10, <1>11 DEF size, c

\* A program that moves data is where it means to be.
LEMMA Place ==
  ASSUME Inv, NEW p \in Programs, Moving(p)
  PROVE  LET j == job[p]
             a == (j.base + j.done) % VramSize
         IN
         /\ j \in Job /\ j.kind \in Moved /\ j.base \in Cells /\ j.done \in {0, 1}
         /\ a \in Cells /\ Bump(a) = (j.base + j.done + 1) % VramSize
         /\ vdp.code = Codes[j.kind]
         /\ j.kind # "read" => vdp.addr = a
         /\ j.kind = "read" => vdp.addr = Bump(a) /\ vdp.readbuf = vdp.vram[a]
<1> DEFINE j == job[p]
           a == (j.base + j.done) % VramSize
<1>1. j \in Job /\ j.stage = 3
  BY DEF Inv, Typed, Moving
<1>2. j.kind \in Moved
  BY <1>1 DEF Job
<1>3. j.base \in Cells
  BY <1>1, <1>2 DEF Job, Moved, Sounds
<1>4. j.done \in {0, 1}
  BY <1>1, JobFacts
<1>5. j.base + j.done \in Nat /\ j.base + j.done + 1 = (j.base + j.done) + 1
  BY <1>3, <1>4, MemorySize
<1>6. a \in Cells
  BY <1>5, MemorySize, Divide
<1>7. Bump(a) = (j.base + j.done + 1) % VramSize
  BY <1>5, MemorySize, Wraps DEF Bump
<1>8. Addressed(p)
  BY DEF Inv, Ready
<1> HIDE DEF a
<1>9. /\ vdp.code = Codes[j.kind]
      /\ j.kind # "read" => vdp.addr = a
      /\ j.kind = "read" => /\ vdp.addr = (j.base + j.done + 1) % VramSize
                            /\ vdp.readbuf = vdp.vram[a]
  BY <1>8 DEF Addressed, a
<1>10. QED BY <1>1, <1>2, <1>3, <1>4, <1>6, <1>7, <1>9 DEF a

\* What a write changes, and that the VDP and the history agree on where.
LEMMA WriteFacts ==
  ASSUME Inv, NEW p \in Programs, NEW v \in Data, Write(p, v)
  PROVE  LET j == job[p]
             a == (j.base + j.done) % VramSize
             c == a % CramSize(vdp.gg)
         IN
         /\ Moving(p) /\ j.kind \in {"write", "cram"} /\ a \in Cells
         /\ vdp'.second = FALSE /\ vdp'.code = vdp.code /\ vdp'.addr = Bump(a)
         /\ vdp'.reg = vdp.reg /\ meant'.reg = meant.reg /\ meant'.read = meant.read
         /\ j.kind = "write" =>
              /\ vdp'.vram = [vdp.vram EXCEPT ![a] = v]
              /\ meant'.vram = [meant.vram EXCEPT ![a] = v]
              /\ vdp'.cram = vdp.cram /\ meant'.cram = meant.cram
         /\ j.kind = "cram" =>
              /\ vdp'.vram = vdp.vram /\ meant'.vram = meant.vram
              /\ ~vdp.gg => /\ vdp'.cram = [vdp.cram EXCEPT ![c] = v]
                            /\ meant'.cram = [meant.cram EXCEPT ![c] = v]
              /\ vdp.gg /\ a % 2 = 0 =>
                   /\ vdp'.colour = v /\ vdp'.cram = vdp.cram
                   /\ meant'.cram = [meant.cram EXCEPT ![c] = v]
              /\ vdp.gg /\ a % 2 = 1 =>
                   /\ vdp'.cram = [vdp.cram EXCEPT ![c - 1] = vdp.colour, ![c] = v % 16]
                   /\ meant'.cram = [meant.cram EXCEPT ![c] = v % 16]
<1> DEFINE j == job[p]
           a == (j.base + j.done) % VramSize
           c == a % CramSize(vdp.gg)
           next == [vdp EXCEPT !.second = FALSE, !.readbuf = v, !.addr = Bump(a)]
<1>1. j.kind \in {"write", "cram"} /\ Moving(p)
  BY DEF Write, Moving
<1>2. a \in Cells /\ vdp.addr = a /\ vdp.code = Codes[j.kind]
  BY <1>1, Place
<1>3. (vdp.code = 3) <=> (j.kind = "cram")
  BY <1>1, <1>2, CodeFacts
<1>4. vdp \in VdpType(vdp.gg) /\ meant \in MeantType(vdp.gg)
  BY DEF Inv, Typed
<1>5. vdp' = DataWrite(vdp, v)
  BY DEF Write
<1>6. meant' = IF j.kind = "write" THEN [meant EXCEPT !.vram[a] = v]
               ELSE [meant EXCEPT !.cram[c] = IF vdp.gg /\ a % 2 = 1 THEN v % 16 ELSE v]
  BY DEF Write
<1> HIDE DEF a
<1>7. vdp' = IF vdp.code # 3 THEN [next EXCEPT !.vram[a] = v]
             ELSE IF ~vdp.gg THEN [next EXCEPT !.cram[c] = v]
             ELSE IF a % 2 = 0 THEN [next EXCEPT !.colour = v]
             ELSE [next EXCEPT !.cram[c - 1] = vdp.colour, !.cram[c] = v % 16]
  BY <1>2, <1>5 DEF DataWrite
<1> HIDE DEF c
<1>8. next \in [gg : {vdp.gg}, second : BOOLEAN, latch : Value, addr : {Bump(a)}, code : 0 .. 3,
                readbuf : {v}, colour : Value, vram : {vdp.vram}, cram : {vdp.cram},
                reg : {vdp.reg}]
      /\ next.second = FALSE /\ next.code = vdp.code
  BY <1>4 DEF VdpType
<1> HIDE DEF next
<1>9. CASE j.kind = "write"
  <2>1. vdp' = [next EXCEPT !.vram = [vdp.vram EXCEPT ![a] = v]]
    BY <1>3, <1>7, <1>8, <1>9
  <2>2. meant' = [meant EXCEPT !.vram = [meant.vram EXCEPT ![a] = v]]
    BY <1>6, <1>9
  <2>3. /\ vdp'.vram = [vdp.vram EXCEPT ![a] = v] /\ vdp'.cram = vdp.cram
        /\ vdp'.second = FALSE /\ vdp'.code = vdp.code /\ vdp'.addr = Bump(a)
        /\ vdp'.reg = vdp.reg
    BY <1>8, <2>1
  <2>4. /\ meant'.vram = [meant.vram EXCEPT ![a] = v] /\ meant'.cram = meant.cram
        /\ meant'.reg = meant.reg /\ meant'.read = meant.read
    BY <1>4, <2>2 DEF MeantType
  <2>5. QED BY <1>1, <1>2, <1>9, <2>3, <2>4 DEF a
<1>10. CASE j.kind = "cram"
  <2> DEFINE w == IF vdp.gg /\ a % 2 = 1 THEN v % 16 ELSE v
  <2>1. meant' = [meant EXCEPT !.cram = [meant.cram EXCEPT ![c] = w]]
    BY <1>6, <1>10
  <2> HIDE DEF w
  <2>2. /\ meant'.cram = [meant.cram EXCEPT ![c] = w] /\ meant'.vram = meant.vram
        /\ meant'.reg = meant.reg /\ meant'.read = meant.read
    BY <1>4, <2>1 DEF MeantType
  <2>3. CASE ~vdp.gg
    <3>1. vdp' = [next EXCEPT !.cram = [vdp.cram EXCEPT ![c] = v]]
      BY <1>3, <1>7, <1>8, <1>10, <2>3
    <3>2. /\ vdp'.vram = vdp.vram /\ vdp'.cram = [vdp.cram EXCEPT ![c] = v]
          /\ vdp'.second = FALSE /\ vdp'.code = vdp.code /\ vdp'.addr = Bump(a)
          /\ vdp'.reg = vdp.reg
      BY <1>8, <3>1
    <3>3. w = v
      BY <2>3 DEF w
    <3>4. QED BY <1>1, <1>2, <1>10, <2>2, <2>3, <3>2, <3>3 DEF a, c
  <2>4. CASE vdp.gg /\ a % 2 = 0
    <3>1. vdp' = [next EXCEPT !.colour = v]
      BY <1>3, <1>7, <1>8, <1>10, <2>4
    <3>2. /\ vdp'.vram = vdp.vram /\ vdp'.cram = vdp.cram /\ vdp'.colour = v
          /\ vdp'.second = FALSE /\ vdp'.code = vdp.code /\ vdp'.addr = Bump(a)
          /\ vdp'.reg = vdp.reg
      BY <1>8, <3>1
    <3>3. w = v /\ a % 2 # 1
      BY <2>4 DEF w
    <3>4. QED BY <1>1, <1>2, <1>10, <2>2, <2>4, <3>2, <3>3 DEF a, c
  <2>5. CASE vdp.gg /\ a % 2 = 1
    <3>0. a % 2 # 0
      BY <2>5
    <3>a. vdp' = [next EXCEPT !.cram[c - 1] = vdp.colour, !.cram[c] = v % 16]
      BY <1>3, <1>7, <1>10, <2>5, <3>0
    <3>1. vdp' = [next EXCEPT !.cram = [vdp.cram EXCEPT ![c - 1] = vdp.colour, ![c] = v % 16]]
      BY <1>8, <3>a
    <3>2. /\ vdp'.vram = vdp.vram
          /\ vdp'.cram = [vdp.cram EXCEPT ![c - 1] = vdp.colour, ![c] = v % 16]
          /\ vdp'.second = FALSE /\ vdp'.code = vdp.code /\ vdp'.addr = Bump(a)
          /\ vdp'.reg = vdp.reg
      BY <1>8, <3>1
    <3>3. w = v % 16 /\ a % 2 # 0
      BY <2>5 DEF w
    <3>4. QED BY <1>1, <1>2, <1>10, <2>2, <2>5, <3>2, <3>3 DEF a, c
  <2>6. a % 2 \in {0, 1}
    <3>1. a \in Nat
      BY <1>2, MemorySize
    <3>2. QED BY <3>1
  <2>7. QED BY <2>3, <2>4, <2>5, <2>6
<1>11. QED BY <1>1, <1>9, <1>10

LEMMA InvWrite ==
  ASSUME Inv, NEW p \in Programs, NEW v \in Data, Write(p, v)
  PROVE  Inv'
<1> DEFINE j == job[p]
           n == [j EXCEPT !.done = @ + 1]
           a == (j.base + j.done) % VramSize
<1>1. /\ running = p /\ j # Idle /\ j.stage = 3 /\ j.kind \in {"write", "cram"}
      /\ running' = running /\ manner' = manner /\ Step(p, n)
  BY DEF Write
<1>2. Typed' /\ vdp.gg' = vdp.gg
  BY TypedWrite
<1>3. /\ j \in Job /\ j.kind \in Moved /\ j.base \in Cells /\ j.done \in {0, 1}
      /\ a \in Cells /\ Bump(a) = (j.base + j.done + 1) % VramSize
      /\ vdp.code = Codes[j.kind]
  BY <1>1, Place DEF Moving
<1>4. /\ n \in Job \/ Finished(n)
      /\ Finished(n) <=> (j.done = 1)
      /\ n.kind = j.kind /\ n.base = j.base /\ n.stage = 3 /\ n.done = j.done + 1
  BY <1>1, <1>3, NextCell
<1> HIDE DEF n
<1>5. /\ job'[p] = IF Finished(n) THEN Idle ELSE n
      /\ \A q \in Programs \ {p} : job'[q] = job[q]
  BY <1>1, <1>4, StepFacts DEF Inv
<1>6. vdp'.second = FALSE /\ vdp'.code = vdp.code /\ vdp'.addr = Bump(a)
  BY WriteFacts
<1>7. (vdp'.second <=> Selecting(p)') /\ Ready(p)'
  <2>1. CASE j.done = 1
    <3>1. job'[p] = Idle
      BY <1>4, <1>5, <2>1
    <3>2. QED BY <1>6, <3>1, RestingNext
  <2>2. CASE j.done = 0
    <3>1. job'[p] = n /\ n.done = 1
      BY <1>3, <1>4, <1>5, <2>2
    <3>2. ~Selecting(p)' /\ ~Naming(p)'
      BY <1>4, <3>1 DEF Selecting, Naming
    <3>3. Addressed(p)'
      <4>1. vdp'.code = Codes[n.kind] /\ n.kind # "read"
        BY <1>1, <1>3, <1>4, <1>6
      <4>2. n.base + n.done = j.base + j.done + 1
        BY <1>3, <1>4, <2>2, MemorySize
      <4>3. vdp'.addr = (n.base + n.done) % VramSize
        BY <1>3, <1>6, <4>2
      <4>4. QED BY <3>1, <4>1, <4>3 DEF Addressed
    <3>4. Coloured(p)'
      <4>1. SUFFICES ASSUME j.kind = "cram", vdp.gg
                     PROVE  vdp'.colour = meant'.cram[j.base % CramSize(TRUE)]
        BY <1>2, <1>4, <3>1 DEF Coloured
      <4>2. j.base % 2 = 0
        BY <4>1 DEF Inv, Typed
      <4>3. a = j.base
        <5>1. j.base \in 0 .. VramSize - 1 /\ j.base + j.done = j.base
          BY <1>3, <2>2, MemorySize
        <5>2. QED BY <5>1, MemorySize, Below
      <4>4. /\ vdp'.colour = v
            /\ meant'.cram = [meant.cram EXCEPT ![a % CramSize(vdp.gg)] = v]
        <5>1. a % 2 = 0
          BY <4>2, <4>3
        <5>2. QED BY <4>1, <5>1, WriteFacts, Zenon
      <4>5. meant.cram \in [0 .. CramSize(vdp.gg) - 1 -> Value]
        BY DEF Inv, Typed, MeantType
      <4>6. CramSize(vdp.gg) = CramSize(TRUE)
        BY <4>1 DEF CramSize
      <4>7. j.base % CramSize(TRUE) \in 0 .. CramSize(TRUE) - 1
        <5>1. PICK x \in Cells : x = j.base
          BY <1>3
        <5>2. x % 2 = 0
          BY <4>2, <5>1
        <5>3. x % CramSize(TRUE) \in 0 .. CramSize(TRUE) - 1
          BY <5>2, Entry
        <5>4. QED BY <5>1, <5>3
      <4>8. meant'.cram = [meant.cram EXCEPT ![j.base % CramSize(TRUE)] = v]
        BY <4>3, <4>4, <4>6
      <4>9. QED BY <4>4, <4>5, <4>6, <4>7, <4>8
    <3>5. QED BY <1>6, <3>2, <3>3, <3>4 DEF Ready, Latched, Named
  <2>3. QED BY <1>3, <2>1, <2>2
<1>8. QED BY <1>1, <1>2, <1>5, <1>7, OwnStep

LEMMA InvRead ==
  ASSUME Inv, NEW p \in Programs, Read(p)
  PROVE  Inv'
<1> DEFINE j == job[p]
           n == [j EXCEPT !.done = @ + 1]
           a == (j.base + j.done) % VramSize
<1>1. /\ running = p /\ j # Idle /\ j.stage = 3 /\ j.kind = "read"
      /\ running' = running /\ manner' = manner /\ Step(p, n)
  BY DEF Read
<1>2. Typed' /\ vdp.gg' = vdp.gg
  BY TypedRead
<1>3. /\ j \in Job /\ j.kind \in Moved /\ j.base \in Cells /\ j.done \in {0, 1}
      /\ a \in Cells /\ Bump(a) = (j.base + j.done + 1) % VramSize
      /\ vdp.code = Codes[j.kind] /\ vdp.addr = Bump(a)
  BY <1>1, Place DEF Moving
<1>4. /\ n \in Job \/ Finished(n)
      /\ Finished(n) <=> (j.done = 1)
      /\ n.kind = j.kind /\ n.base = j.base /\ n.stage = 3 /\ n.done = j.done + 1
  BY <1>1, <1>3, NextCell
<1> HIDE DEF n
<1>5. /\ job'[p] = IF Finished(n) THEN Idle ELSE n
      /\ \A q \in Programs \ {p} : job'[q] = job[q]
  BY <1>1, <1>4, StepFacts DEF Inv
<1>6. /\ vdp'.second = FALSE /\ vdp'.code = vdp.code /\ vdp'.addr = Bump(vdp.addr)
      /\ vdp'.vram = vdp.vram /\ vdp'.readbuf = vdp.vram[vdp.addr]
  <2>1. vdp \in VdpType(vdp.gg) /\ vdp' = DataRead(vdp)
    BY DEF Inv, Typed, Read
  <2>2. vdp' = [vdp EXCEPT !.second = FALSE, !.readbuf = vdp.vram[vdp.addr],
                           !.addr = Bump(vdp.addr)]
    BY <2>1 DEF DataRead
  <2>3. QED BY <2>1, <2>2 DEF VdpType
<1>7. (vdp'.second <=> Selecting(p)') /\ Ready(p)'
  <2>1. CASE j.done = 1
    <3>1. job'[p] = Idle
      BY <1>4, <1>5, <2>1
    <3>2. QED BY <1>6, <3>1, RestingNext
  <2>2. CASE j.done = 0
    <3>1. job'[p] = n /\ n.done = 1
      BY <1>3, <1>4, <1>5, <2>2
    <3>2. ~Selecting(p)' /\ ~Naming(p)'
      BY <1>4, <3>1 DEF Selecting, Naming
    <3>3. Addressed(p)'
      <4>1. vdp'.code = Codes[n.kind] /\ n.kind = "read"
        BY <1>1, <1>3, <1>4, <1>6
      <4>2. n.base + n.done = j.base + j.done + 1 /\ n.base + n.done \in Nat
        BY <1>3, <1>4, <2>2, MemorySize
      <4>3. Bump(a) = (n.base + n.done) % VramSize
        BY <1>3, <4>2
      <4>4. vdp'.readbuf = vdp'.vram[(n.base + n.done) % VramSize]
        BY <1>3, <1>6, <4>3
      <4>5. vdp'.addr = (n.base + n.done + 1) % VramSize
        <5>1. Bump(Bump(a)) = (((n.base + n.done) % VramSize) + 1) % VramSize
          BY <4>3 DEF Bump
        <5>2. QED BY <1>3, <1>6, <4>2, <5>1, MemorySize, Wraps
      <4>6. QED BY <3>1, <4>1, <4>4, <4>5 DEF Addressed
    <3>4. Coloured(p)'
      BY <1>1, <1>4, <3>1 DEF Coloured
    <3>5. QED BY <1>6, <3>2, <3>3, <3>4 DEF Ready, Latched, Named
  <2>3. QED BY <1>3, <2>1, <2>2
<1>8. QED BY <1>1, <1>2, <1>5, <1>7, OwnStep

LEMMA InvSound ==
  ASSUME Inv, NEW p \in Programs, NEW v \in Data, SoundWrite(p, v)
  PROVE  Inv'
<1> DEFINE j == job[p]
           n == [j EXCEPT !.stage = @ + 1]
           t == IF j.kind = "vol" THEN "vol" ELSE "tone"
<1>1. /\ running = p /\ j # Idle /\ Sound(j) /\ j.stage < 3 /\ Step(p, n)
      /\ running' = running /\ manner' = manner /\ vdp' = vdp
  BY DEF SoundWrite
<1>2. /\ j \in Job /\ j.kind \in Sounds /\ j.stage \in {1, 2} /\ v \in Nat
      /\ j.base \in 0 .. 3 /\ t \in {"tone", "vol"}
      /\ j.stage = 1 =>
              psg' = [PsgSet(psg, <<j.base, t>>, TRUE, v) EXCEPT !.latch = <<j.base, t>>]
  BY SoundBytes
<1>3. /\ n \in Job \/ Finished(n)
      /\ Finished(n) <=> (j.stage = 2 /\ j.kind \notin Moved)
      /\ n.kind = j.kind /\ n.base = j.base /\ n.stage = j.stage + 1
  BY <1>1, <1>2, NextByte
<1> HIDE DEF n, t
<1>4. /\ job'[p] = IF Finished(n) THEN Idle ELSE n
      /\ \A q \in Programs \ {p} : job'[q] = job[q]
  BY <1>1, <1>3, StepFacts DEF Inv
<1>5. Typed'
  BY TypedSound
<1>6. ~vdp'.second
  <2>1. ~Selecting(p)
    BY <1>1 DEF Selecting
  <2>2. QED BY <1>1, <2>1, SecondFacts DEF Inv
<1>7. ~Selecting(p)' /\ Ready(p)'
  <2>1. CASE j.stage = 1
    <3>1. job'[p] = n /\ Sound(n) /\ n.stage = 2
      BY <1>1, <1>3, <1>4, <2>1 DEF Sound
    <3>2. ~Selecting(p)' /\ ~Moving(p)'
      BY <3>1 DEF Selecting, Moving
    <3>3. Named(p)'
      <4>1. PsgSet(psg, <<j.base, t>>, TRUE, v) \in PsgType
        BY <1>2, PsgSetTyped DEF Inv, Typed
      <4>2. psg'.latch = <<j.base, t>>
        BY <1>2, <2>1, <4>1 DEF PsgType
      <4>3. psg'.latch = <<n.base, IF n.kind = "vol" THEN "vol" ELSE "tone">>
        BY <1>3, <4>2 DEF t
      <4>4. QED BY <3>1, <4>3 DEF Named
    <3>4. QED BY <3>2, <3>3 DEF Ready, Latched, Addressed, Coloured
  <2>2. CASE j.stage = 2
    <3>1. j.kind \notin Moved
      BY <1>2 DEF Sounds, Moved
    <3>2. job'[p] = Idle
      BY <1>3, <1>4, <2>2, <3>1
    <3>3. QED BY <3>2, RestingNext
  <2>3. QED BY <1>2, <2>1, <2>2
<1>8. vdp'.second <=> Selecting(p)'
  BY <1>6, <1>7
<1>9. QED BY <1>1, <1>4, <1>5, <1>7, <1>8, OwnStep

LEMMA InvBegin ==
  ASSUME Inv, NEW p \in Programs, Begin(p)
  PROVE  Inv'
<1>1. /\ running = p /\ job[p] = Idle /\ jobs < MaxJobs
      /\ p = "handler" => manner = "job"
      /\ jobs' = jobs + 1
      /\ UNCHANGED <<vdp, psg, running, manner, meant>>
  BY DEF Begin
<1>2. PICK j \in Transfers(p) : job' = [job EXCEPT ![p] = j]
  BY DEF Begin
<1>3. /\ j \in Job /\ j.stage = 1
      /\ j.kind = "cram" /\ vdp.gg => j.base % 2 = 0
  BY BeginFacts DEF Inv
<1>4. job \in [Programs -> Job \union {Idle}]
  BY DEF Inv, Typed
<1>5. job'[p] = j /\ \A q \in Programs \ {p} : job'[q] = job[q]
  BY <1>2, <1>4
<1>6. job' \in [Programs -> Job \union {Idle}]
  BY <1>2, <1>3, <1>4
<1>7. Typed'
  <2>1. \A q \in Programs : job'[q].kind = "cram" /\ vdp'.gg => job'[q].base % 2 = 0
    <3>1. \A q \in Programs : job[q].kind = "cram" /\ vdp.gg => job[q].base % 2 = 0
      BY DEF Inv, Typed
    <3>2. QED BY <1>1, <1>3, <1>5, <3>1
  <2>2. jobs' \in 0 .. MaxJobs
    <3>1. jobs \in 0 .. MaxJobs
      BY DEF Inv, Typed
    <3>2. QED BY <1>1, <3>1, PortsAssumption
  <2>3. QED BY <1>1, <1>6, <2>1, <2>2 DEF Inv, Typed
<1>8. Ready(p)' /\ ~Selecting(p)'
  BY <1>3, <1>5, RestingNext
<1>9. \A q \in Programs \ {p} : Ready(q)' /\ (Selecting(q)' <=> Selecting(q))
  <2>1. SUFFICES ASSUME NEW q \in Programs \ {p}
                 PROVE  Ready(q)' /\ (Selecting(q)' <=> Selecting(q))
    OBVIOUS
  <2>2. job'[q] = job[q] /\ vdp' = vdp /\ psg' = psg /\ meant' = meant
    BY <1>1, <1>5
  <2>3. /\ Selecting(q)' <=> Selecting(q)
        /\ Naming(q)' <=> Naming(q)
        /\ Moving(q)' <=> Moving(q)
    BY <2>2 DEF Selecting, Naming, Moving
  <2>4. Ready(q)
    BY DEF Inv
  <2>5. Latched(q)' /\ Named(q)'
    BY <2>2, <2>3, <2>4 DEF Ready, Latched, Named
  <2>6. Addressed(q)' /\ Coloured(q)'
    BY <2>2, <2>3, <2>4 DEF Ready, Addressed, Coloured
  <2>7. QED BY <2>3, <2>5, <2>6 DEF Ready
<1>10. ~Selecting(p)
  BY <1>1 DEF Selecting
<1>11. Second'
  BY <1>1, <1>8, <1>9, <1>10 DEF Inv, Second
<1>12. Exclusive'
  <2>1. CASE p = "main"
    BY <1>1, <1>5, <2>1 DEF Inv, Exclusive, Programs
  <2>2. CASE p = "handler"
    <3>1. job'["main"] = job["main"] /\ ~Masked /\ manner' = "job" /\ running' = "handler"
          /\ manner = manner'
      BY <1>1, <1>5, <2>2 DEF Inv, Exclusive, Programs
    <3>2. ~Masked'
      BY <3>1 DEF Masked
    <3>3. QED BY <3>1, <3>2 DEF Exclusive
  <2>3. QED BY <2>1, <2>2 DEF Programs
<1>13. QED BY <1>7, <1>8, <1>9, <1>11, <1>12 DEF Inv

LEMMA InvInterrupt ==
  ASSUME Inv, Interrupt
  PROVE  Inv'
<1>1. /\ running = "main" /\ ~Masked /\ running' = "handler" /\ vdp' = StatusRead(vdp)
      /\ UNCHANGED <<psg, job, manner, jobs, meant>>
  BY DEF Interrupt
<1>2. job["handler"] = Idle
  BY <1>1 DEF Inv, Exclusive
<1>3. vdp \in VdpType(vdp.gg) /\ vdp.gg \in BOOLEAN
  BY DEF Inv, Typed
<1>4. /\ vdp'.second = FALSE /\ vdp'.gg = vdp.gg /\ vdp'.latch = vdp.latch
      /\ vdp'.addr = vdp.addr /\ vdp'.code = vdp.code /\ vdp'.readbuf = vdp.readbuf
      /\ vdp'.colour = vdp.colour /\ vdp'.vram = vdp.vram
  BY <1>1, <1>3 DEF StatusRead, VdpType
<1>5. Typed'
  <2>1. 0 \in Value
    BY PortsAssumption DEF Value
  <2>2. vdp' \in VdpType(vdp.gg)
    BY <1>1, <1>3, <2>1, DataTyped
  <2>3. QED BY <1>1, <1>4, <2>2 DEF Inv, Typed, Programs
<1>6. ~Selecting("main") /\ ~Selecting("handler")
  <2>1. ~Selecting("handler")
    BY <1>2 DEF Selecting
  <2>2. ASSUME Selecting("main") PROVE FALSE
    <3>1. job["main"] # Idle /\ job["main"].stage = 2
      BY <2>2 DEF Selecting
    <3>2. Masked
      BY <3>1 DEF Masked
    <3>3. QED BY <1>1, <3>2
  <2>3. QED BY <2>1, <2>2
<1>7. \A q \in Programs : ~Selecting(q)'
  BY <1>1, <1>6 DEF Selecting, Programs
<1>8. Second'
  BY <1>4, <1>7 DEF Second
<1>9. \A q \in Programs : Ready(q)'
  BY <1>1, <1>4, <1>7 DEF Inv, Ready, Latched, Named, Addressed, Coloured, Naming, Moving
<1>10. Exclusive'
  <2>1. ~Masked'
    BY <1>1 DEF Masked
  <2>2. QED BY <1>1, <1>2, <2>1 DEF Exclusive
<1>11. QED BY <1>5, <1>8, <1>9, <1>10 DEF Inv

LEMMA InvReturn ==
  ASSUME Inv, Return
  PROVE  Inv'
<1>1. /\ running = "handler" /\ job["handler"] = Idle /\ running' = "main"
      /\ UNCHANGED <<vdp, psg, job, manner, jobs, meant>>
  BY DEF Return
<1>2. Typed'
  BY <1>1 DEF Inv, Typed, Programs
<1>3. Second'
  BY <1>1 DEF Inv, Second, Selecting
<1>4. \A q \in Programs : Ready(q)'
  BY <1>1 DEF Inv, Ready, Latched, Named, Addressed, Coloured, Selecting, Naming, Moving
<1>5. Exclusive'
  BY <1>1 DEF Exclusive
<1>6. QED BY <1>2, <1>3, <1>4, <1>5 DEF Inv

LEMMA InvInit == ASSUME Init PROVE Inv
<1>1. Typed
  BY TypedInit
<1>2. /\ running = "main" /\ \A q \in Programs : job[q] = Idle
      /\ ~vdp.second
  <2>1. PICK gg \in Machines : vdp = VdpInit(gg)
    BY DEF Init
  <2>2. ~vdp.second
    BY <2>1 DEF VdpInit
  <2>3. QED BY <2>2 DEF Init
<1>3. Exclusive
  BY <1>2 DEF Exclusive, Programs
<1>4. \A q \in Programs : Ready(q) /\ ~Selecting(q)
  BY <1>2, Resting
<1>5. Second
  BY <1>2, <1>4 DEF Second
<1>6. QED BY <1>1, <1>3, <1>4, <1>5 DEF Inv

LEMMA InvStep == ASSUME Inv, [Next]_vars PROVE Inv'
<1>1. CASE UNCHANGED vars
  <2>1. UNCHANGED <<vdp, psg, job, running, manner, jobs, meant>>
    BY <1>1 DEF vars
  <2>2. Typed' /\ Exclusive' /\ Second'
    BY <2>1 DEF Inv, Typed, Exclusive, Masked, Second, Selecting
  <2>3. \A q \in Programs : Ready(q)'
    BY <2>1 DEF Inv, Ready, Latched, Named, Addressed, Coloured, Selecting, Naming, Moving
  <2>4. QED BY <2>2, <2>3 DEF Inv
<1>2. ASSUME NEW p \in Programs, Begin(p) \/ Control(p) \/ Read(p) PROVE Inv'
  BY <1>2, InvBegin, InvControl, InvRead
<1>3. ASSUME NEW p \in Programs, NEW v \in Data, Write(p, v) \/ SoundWrite(p, v) PROVE Inv'
  BY <1>3, InvWrite, InvSound
<1>4. QED BY <1>1, <1>2, <1>3, InvInterrupt, InvReturn DEF Next

LEMMA Invariant == Spec => []Inv
BY InvInit, InvStep, PTL DEF Spec

\* For memories of any size and any programs of the two manners, the devices and
\* the programs keep their types.
THEOREM TypeCorrect == Spec => []TypeOK
<1>1. Inv => TypeOK
  <2>1. SUFFICES ASSUME Inv PROVE TypeOK
    OBVIOUS
  <2>2. vdp \in VdpType(vdp.gg) /\ psg \in PsgType
        /\ running \in Programs /\ manner \in Manners /\ jobs \in 0 .. MaxJobs
    BY <2>1 DEF Inv, Typed
  <2>3. QED BY <2>2 DEF TypeOK, VdpType, PsgType, Value
<1>2. QED BY <1>1, Invariant, PTL

-----------------------------------------------------------------------------
(* What the devices hold.                                                   *)

Held == MemoriesAsMeant /\ ReadsAsMeant /\ SoundAsMeant

\* A program in the middle of a colour stays there.
KeepsColours ==
  \A q \in Programs : job[q] # Idle /\ job[q].kind = "cram" =>
    /\ job'[q] # Idle /\ job'[q].kind = "cram"
    /\ job'[q].base = job[q].base /\ job'[q].done = job[q].done

LEMMA HalfStays ==
  ASSUME vdp'.gg = vdp.gg, KeepsColours, NEW c, HalfWritten(c)
  PROVE  HalfWritten(c)'
<1>1. vdp'.gg /\ c % 2 = 0
  BY DEF HalfWritten
<1>2. PICK q \in Programs : /\ job[q] # Idle /\ job[q].kind = "cram"
                            /\ (job[q].base + job[q].done) % CramSize(TRUE) = c + 1
  BY DEF HalfWritten
<1>3. /\ job'[q] # Idle /\ job'[q].kind = "cram"
      /\ (job'[q].base + job'[q].done) % CramSize(TRUE) = c + 1
  BY <1>2 DEF KeepsColours
<1>4. QED BY <1>1, <1>3 DEF HalfWritten

LEMMA MemoriesStay ==
  ASSUME MemoriesAsMeant, vdp'.gg = vdp.gg, KeepsColours,
         vdp'.vram = vdp.vram, meant'.vram = meant.vram, vdp'.reg = meant'.reg,
         vdp'.cram = vdp.cram, meant'.cram = meant.cram
  PROVE  MemoriesAsMeant'
<1>1. \A c \in DOMAIN vdp'.cram : vdp'.cram[c] = meant'.cram[c] \/ HalfWritten(c)'
  BY HalfStays DEF MemoriesAsMeant
<1>2. QED BY <1>1 DEF MemoriesAsMeant

LEMMA HeldControl ==
  ASSUME Inv, Held, NEW p \in Programs, Control(p)
  PROVE  Held'
<1> DEFINE j == job[p]
           n == [j EXCEPT !.stage = @ + 1]
<1>1. /\ j \in Job /\ j.stage < 3 /\ Step(p, n) /\ j # Idle
      /\ psg' = psg
  BY DEF Inv, Typed, Control
<1>2. j.stage \in {1, 2} /\ j.done = 0
  BY <1>1, JobFacts DEF Job
<1>3. /\ n \in Job \/ Finished(n)
      /\ Finished(n) <=> (j.stage = 2 /\ j.kind \notin Moved)
      /\ n.kind = j.kind /\ n.base = j.base /\ n.done = 0
  BY <1>1, NextByte
<1> HIDE DEF n
<1>4. /\ job'[p] = IF Finished(n) THEN Idle ELSE n
      /\ \A q \in Programs \ {p} : job'[q] = job[q]
  BY <1>1, <1>3, StepFacts DEF Inv
<1>5. KeepsColours
  <2>1. SUFFICES ASSUME j.kind = "cram"
                 PROVE  /\ job'[p] # Idle /\ job'[p].kind = "cram"
                        /\ job'[p].base = j.base /\ job'[p].done = j.done
    BY <1>4 DEF KeepsColours
  <2>2. job'[p] = n /\ n \in Job
    BY <1>3, <1>4, <2>1 DEF Moved
  <2>3. n # Idle
    BY <2>2, JobFacts
  <2>4. QED BY <1>2, <1>3, <2>1, <2>2, <2>3
<1>6. vdp \in VdpType(vdp.gg) /\ meant \in MeantType(vdp.gg)
  BY DEF Inv, Typed
<1>7. vdp'.gg = vdp.gg
  BY TypedControl
<1>8. /\ vdp'.vram = vdp.vram /\ vdp'.cram = vdp.cram /\ vdp'.reg = meant'.reg
      /\ meant'.vram = meant.vram /\ meant'.cram = meant.cram /\ meant'.read = meant.read
      /\ meant'.tone = meant.tone /\ meant'.vol = meant.vol /\ meant'.noise = meant.noise
  <2>0. vdp.reg = meant.reg
    BY DEF Held, MemoriesAsMeant
  <2>1. CASE j.stage = 1
    <3>1. PICK a \in Cells : vdp' = [vdp EXCEPT !.latch = j.base % L, !.second = TRUE,
                                                !.addr = a]
      BY <2>1, FirstByte
    <3>2. meant' = meant
      BY <2>1, FirstByte
    <3>3. QED BY <1>6, <2>0, <3>1, <3>2 DEF VdpType
  <2>2. CASE j.stage = 2
    <3> DEFINE r == (j.base \div L) % NumRegs
               w == j.base % L
               g == IF j.kind = "reg" THEN [vdp.reg EXCEPT ![r] = w] ELSE vdp.reg
               a == IF j.kind = "read" THEN Bump(j.base) ELSE j.base
               b == IF j.kind = "read" THEN vdp.vram[j.base] ELSE vdp.readbuf
    <3>1. vdp' = [vdp EXCEPT !.second = FALSE, !.code = Codes[j.kind],
                             !.addr = a, !.readbuf = b, !.reg = g]
      BY <2>2, SecondByte
    <3>2. meant' = IF j.kind = "reg" THEN [meant EXCEPT !.reg[r] = w] ELSE meant
      BY <2>2, SecondByte
    <3> HIDE DEF r, w, a, b
    <3>3. meant' = [meant EXCEPT !.reg = IF j.kind = "reg" THEN [meant.reg EXCEPT ![r] = w]
                                         ELSE meant.reg]
      <4>1. CASE j.kind = "reg"
        BY <3>2, <4>1
      <4>2. CASE j.kind # "reg"
        BY <3>2, <4>2, <1>6 DEF MeantType
      <4>3. QED BY <4>1, <4>2
    <3>4. meant' = [meant EXCEPT !.reg = g]
      BY <2>0, <3>3
    <3> HIDE DEF g
    <3>5. /\ vdp'.vram = vdp.vram /\ vdp'.cram = vdp.cram /\ vdp'.reg = g
      BY <1>6, <3>1 DEF VdpType
    <3>6. /\ meant'.reg = g
          /\ meant'.vram = meant.vram /\ meant'.cram = meant.cram /\ meant'.read = meant.read
          /\ meant'.tone = meant.tone /\ meant'.vol = meant.vol /\ meant'.noise = meant.noise
      BY <1>6, <3>4 DEF MeantType
    <3>7. QED BY <3>5, <3>6
  <2>3. QED BY <1>2, <2>1, <2>2
<1>9. MemoriesAsMeant'
  BY <1>5, <1>7, <1>8, MemoriesStay DEF Held
<1>10. QED BY <1>1, <1>8, <1>9 DEF Held, ReadsAsMeant, SoundAsMeant

LEMMA HeldRead ==
  ASSUME Inv, Held, NEW p \in Programs, Read(p)
  PROVE  Held'
<1> DEFINE j == job[p]
           n == [j EXCEPT !.done = @ + 1]
           a == (j.base + j.done) % VramSize
<1>1. /\ running = p /\ j # Idle /\ j.stage = 3 /\ j.kind = "read" /\ Step(p, n)
      /\ psg' = psg
  BY DEF Read
<1>2. vdp'.gg = vdp.gg
  BY TypedRead
<1>3. j \in Job /\ vdp.readbuf = vdp.vram[a]
  BY <1>1, Place DEF Moving
<1>4. (n \in Job \/ Finished(n)) /\ n.kind = j.kind /\ n.base = j.base
  BY <1>1, <1>3, NextCell
<1> HIDE DEF n
<1>5. \A q \in Programs \ {p} : job'[q] = job[q]
  BY <1>1, <1>4, StepFacts DEF Inv
<1>6. KeepsColours
  BY <1>1, <1>5 DEF KeepsColours
<1>7. vdp \in VdpType(vdp.gg) /\ meant \in MeantType(vdp.gg)
  BY DEF Inv, Typed
<1>8. vdp'.vram = vdp.vram /\ vdp'.cram = vdp.cram /\ vdp'.reg = vdp.reg
  BY <1>7 DEF Read, DataRead, VdpType
<1> DEFINE same == vdp.readbuf = meant.vram[a]
<1>9. meant' = [meant EXCEPT !.read = same]
  BY DEF Read
<1>10. vdp.vram = meant.vram /\ vdp.reg = meant.reg
  BY DEF Held, MemoriesAsMeant
<1>11. same
  BY <1>3, <1>10
<1> HIDE DEF same
<1>12. /\ meant'.read = same
       /\ meant'.vram = meant.vram /\ meant'.cram = meant.cram /\ meant'.reg = meant.reg
       /\ meant'.tone = meant.tone /\ meant'.vol = meant.vol /\ meant'.noise = meant.noise
  BY <1>7, <1>9 DEF MeantType
<1>13. MemoriesAsMeant'
  BY <1>2, <1>6, <1>8, <1>10, <1>12, MemoriesStay DEF Held
<1>14. QED BY <1>1, <1>11, <1>12, <1>13 DEF Held, ReadsAsMeant, SoundAsMeant

LEMMA HeldSound ==
  ASSUME Inv, Held, NEW p \in Programs, NEW v \in Data, SoundWrite(p, v)
  PROVE  Held'
<1> DEFINE j == job[p]
           n == [j EXCEPT !.stage = @ + 1]
           t == IF j.kind = "vol" THEN "vol" ELSE "tone"
           r == <<j.base, t>>
<1>1. j # Idle /\ Sound(j) /\ j.stage < 3 /\ Step(p, n) /\ vdp' = vdp
  BY DEF SoundWrite
<1>2. /\ j \in Job /\ j.kind \in Sounds /\ j.stage \in {1, 2} /\ v \in Nat
      /\ j.base \in 0 .. 3 /\ t \in {"tone", "vol"}
      /\ j.stage = 1 => psg' = [PsgSet(psg, r, TRUE, v) EXCEPT !.latch = r]
      /\ j.stage = 2 => psg' = PsgSet(psg, r, FALSE, v)
  BY SoundBytes
<1>3. (n \in Job \/ Finished(n)) /\ n.kind = j.kind /\ n.base = j.base
  BY <1>1, <1>2, NextByte
<1> HIDE DEF n
<1>4. \A q \in Programs \ {p} : job'[q] = job[q]
  BY <1>1, <1>3, StepFacts DEF Inv
<1>5. KeepsColours
  BY <1>2, <1>4 DEF KeepsColours, Sounds
<1>6. psg \in PsgType /\ meant \in MeantType(vdp.gg)
  BY DEF Inv, Typed
<1>7. r[1] = j.base /\ r[2] = t
  OBVIOUS
<1> HIDE DEF r
\* The registers after the byte.
<1>8. ASSUME NEW first \in BOOLEAN
      PROVE  LET s == PsgSet(psg, r, first, v) IN
             /\ s.lo = IF j.kind = "tone" /\ first THEN [psg.lo EXCEPT ![j.base] = v] ELSE psg.lo
             /\ s.hi = IF j.kind = "tone" /\ ~first THEN [psg.hi EXCEPT ![j.base] = v] ELSE psg.hi
             /\ s.vol = IF j.kind = "vol" THEN [psg.vol EXCEPT ![j.base] = v] ELSE psg.vol
             /\ s.noise = IF j.kind = "noise" THEN v ELSE psg.noise
  <2>1. CASE j.kind = "vol"
    <3>1. PsgSet(psg, r, first, v) = [psg EXCEPT !.vol = [psg.vol EXCEPT ![j.base] = v]]
      BY <1>7, <2>1 DEF PsgSet
    <3>2. QED BY <1>6, <2>1, <3>1 DEF PsgType
  <2>2. CASE j.kind = "noise"
    <3>1. j.base = 3
      BY <1>2, <2>2 DEF Job
    <3>2. PsgSet(psg, r, first, v) = [psg EXCEPT !.noise = v]
      BY <1>7, <2>2, <3>1 DEF PsgSet
    <3>3. QED BY <1>6, <2>2, <3>2 DEF PsgType
  <2>3. CASE j.kind = "tone"
    <3>1. j.base # 3
      BY <1>2, <2>3 DEF Job
    <3>2. CASE first
      <4>1. PsgSet(psg, r, first, v) = [psg EXCEPT !.lo = [psg.lo EXCEPT ![j.base] = v]]
        BY <1>7, <2>3, <3>1, <3>2 DEF PsgSet
      <4>2. QED BY <1>6, <2>3, <3>2, <4>1 DEF PsgType
    <3>3. CASE ~first
      <4>1. PsgSet(psg, r, first, v) = [psg EXCEPT !.hi = [psg.hi EXCEPT ![j.base] = v]]
        BY <1>7, <2>3, <3>1, <3>3 DEF PsgSet
      <4>2. QED BY <1>6, <2>3, <3>3, <4>1 DEF PsgType
    <3>4. QED BY <3>2, <3>3
  <2>4. QED BY <1>2, <2>1, <2>2, <2>3 DEF Sounds
<1>9. LET first == j.stage = 1 IN
      /\ psg'.lo = IF j.kind = "tone" /\ first THEN [psg.lo EXCEPT ![j.base] = v] ELSE psg.lo
      /\ psg'.hi = IF j.kind = "tone" /\ ~first THEN [psg.hi EXCEPT ![j.base] = v] ELSE psg.hi
      /\ psg'.vol = IF j.kind = "vol" THEN [psg.vol EXCEPT ![j.base] = v] ELSE psg.vol
      /\ psg'.noise = IF j.kind = "noise" THEN v ELSE psg.noise
  <2>1. CASE j.stage = 1
    <3> DEFINE s == PsgSet(psg, r, TRUE, v)
    <3>1. s \in PsgType
      BY <1>2, <1>6, PsgSetTyped DEF r
    <3>2. psg' = [s EXCEPT !.latch = r]
      BY <1>2, <2>1
    <3>3. /\ s.lo = IF j.kind = "tone" THEN [psg.lo EXCEPT ![j.base] = v] ELSE psg.lo
          /\ s.hi = psg.hi
          /\ s.vol = IF j.kind = "vol" THEN [psg.vol EXCEPT ![j.base] = v] ELSE psg.vol
          /\ s.noise = IF j.kind = "noise" THEN v ELSE psg.noise
      BY <1>8
    <3> HIDE DEF s
    <3>4. psg'.lo = s.lo /\ psg'.hi = s.hi /\ psg'.vol = s.vol /\ psg'.noise = s.noise
      BY <3>1, <3>2 DEF PsgType
    <3>5. QED BY <2>1, <3>3, <3>4
  <2>2. CASE j.stage = 2
    <3> DEFINE s == PsgSet(psg, r, FALSE, v)
    <3>1. psg' = s
      BY <1>2, <2>2
    <3>2. /\ s.hi = IF j.kind = "tone" THEN [psg.hi EXCEPT ![j.base] = v] ELSE psg.hi
          /\ s.lo = psg.lo
          /\ s.vol = IF j.kind = "vol" THEN [psg.vol EXCEPT ![j.base] = v] ELSE psg.vol
          /\ s.noise = IF j.kind = "noise" THEN v ELSE psg.noise
      BY <1>8
    <3> HIDE DEF s
    <3>3. QED BY <2>2, <3>1, <3>2
  <2>3. QED BY <1>2, <2>1, <2>2
\* What was meant.
<1>10. /\ meant'.tone = IF j.kind = "tone" THEN [meant.tone EXCEPT ![j.base][j.stage] = v]
                        ELSE meant.tone
       /\ meant'.vol = IF j.kind = "vol" THEN [meant.vol EXCEPT ![j.base] = v] ELSE meant.vol
       /\ meant'.noise = IF j.kind = "noise" THEN v ELSE meant.noise
       /\ meant'.vram = meant.vram /\ meant'.cram = meant.cram /\ meant'.reg = meant.reg
       /\ meant'.read = meant.read
  <2>1. CASE j.kind = "tone"
    <3>1. meant' = [meant EXCEPT !.tone[j.base][j.stage] = v]
      BY <2>1 DEF SoundWrite
    <3>2. meant' = [meant EXCEPT !.tone = [meant.tone EXCEPT ![j.base][j.stage] = v]]
      BY <3>1
    <3>3. QED BY <1>6, <2>1, <3>2 DEF MeantType
  <2>2. CASE j.kind = "vol"
    <3>1. meant' = [meant EXCEPT !.vol = [meant.vol EXCEPT ![j.base] = v]]
      BY <2>2 DEF SoundWrite
    <3>2. QED BY <1>6, <2>2, <3>1 DEF MeantType
  <2>3. CASE j.kind = "noise"
    <3>1. meant' = [meant EXCEPT !.noise = v]
      BY <2>3 DEF SoundWrite
    <3>2. QED BY <1>6, <2>3, <3>1 DEF MeantType
  <2>4. QED BY <1>2, <2>1, <2>2, <2>3 DEF Sounds
<1>11. /\ \A c \in 0 .. 2 : meant.tone[c] = <<psg.lo[c], psg.hi[c]>>
       /\ psg.vol = meant.vol /\ psg.noise = meant.noise
  BY DEF Held, SoundAsMeant
<1>12. psg'.vol = meant'.vol /\ psg'.noise = meant'.noise
  BY <1>9, <1>10, <1>11
<1>13. \A c \in 0 .. 2 : meant'.tone[c] = <<psg'.lo[c], psg'.hi[c]>>
  <2>0. /\ meant.tone \in [0 .. 2 -> Nat \X Nat] /\ psg.lo \in [0 .. 2 -> Nat]
        /\ psg.hi \in [0 .. 2 -> Nat]
    BY <1>6 DEF MeantType, PsgType
  <2>1. CASE j.kind # "tone"
    BY <1>9, <1>10, <1>11, <2>1
  <2>2. CASE j.kind = "tone"
    <3>1. SUFFICES ASSUME NEW c \in 0 .. 2
                   PROVE  meant'.tone[c] = <<psg'.lo[c], psg'.hi[c]>>
      OBVIOUS
    <3>2. j.base \in 0 .. 2
      BY <1>2, <2>2 DEF Job
    <3>3. meant'.tone[c] = IF c = j.base THEN [meant.tone[c] EXCEPT ![j.stage] = v]
                           ELSE meant.tone[c]
      BY <1>10, <2>0, <2>2, <3>2
    <3>4. meant.tone[c] = <<psg.lo[c], psg.hi[c]>>
      BY <1>11
    <3>5. CASE c # j.base
      <4>1. psg'.lo[c] = psg.lo[c] /\ psg'.hi[c] = psg.hi[c]
        BY <1>9, <2>0, <3>5
      <4>2. QED BY <3>3, <3>4, <3>5, <4>1
    <3>6. CASE c = j.base /\ j.stage = 1
      <4>1. psg'.lo[c] = v /\ psg'.hi[c] = psg.hi[c]
        BY <1>9, <2>0, <2>2, <3>6
      <4>2. QED BY <3>3, <3>4, <3>6, <4>1
    <3>7. CASE c = j.base /\ j.stage = 2
      <4>1. psg'.lo[c] = psg.lo[c] /\ psg'.hi[c] = v
        BY <1>9, <2>0, <2>2, <3>7
      <4>2. QED BY <3>3, <3>4, <3>7, <4>1
    <3>8. QED BY <1>2, <3>5, <3>6, <3>7
  <2>3. QED BY <2>1, <2>2
<1>14. MemoriesAsMeant'
  <2>1. vdp.reg = meant.reg
    BY DEF Held, MemoriesAsMeant
  <2>2. QED BY <1>1, <1>5, <1>10, <2>1, MemoriesStay DEF Held
<1>15. QED BY <1>10, <1>12, <1>13, <1>14 DEF Held, ReadsAsMeant, SoundAsMeant

\* Steps that touch neither memories nor registers.
LEMMA HeldRest ==
  ASSUME Held, meant' = meant, psg' = psg, vdp'.gg = vdp.gg, vdp'.vram = vdp.vram,
         vdp'.cram = vdp.cram, vdp'.reg = vdp.reg, KeepsColours
  PROVE  Held'
<1>1. vdp.reg = meant.reg
  BY DEF Held, MemoriesAsMeant
<1>2. MemoriesAsMeant'
  BY <1>1, MemoriesStay DEF Held
<1>3. QED BY <1>2 DEF Held, ReadsAsMeant, SoundAsMeant

LEMMA HeldBegin ==
  ASSUME Inv, Held, NEW p \in Programs, Begin(p)
  PROVE  Held'
<1>1. job[p] = Idle /\ UNCHANGED <<vdp, psg, running, manner, meant>>
  BY DEF Begin
<1>2. PICK j : job' = [job EXCEPT ![p] = j]
  BY DEF Begin
<1>3. \A q \in Programs \ {p} : job'[q] = job[q]
  BY <1>2 DEF Inv, Typed
<1>4. KeepsColours
  BY <1>1, <1>3 DEF KeepsColours
<1>5. QED BY <1>1, <1>4, HeldRest

LEMMA HeldSwitch ==
  ASSUME Inv, Held, Interrupt \/ Return
  PROVE  Held'
<1>1. KeepsColours
  BY DEF KeepsColours, Interrupt, Return
<1>2. meant' = meant /\ psg' = psg
  BY DEF Interrupt, Return
<1>3. vdp \in VdpType(vdp.gg)
  BY DEF Inv, Typed
<1>4. vdp' = StatusRead(vdp) \/ vdp' = vdp
  BY DEF Interrupt, Return
<1>5. /\ vdp'.gg = vdp.gg /\ vdp'.vram = vdp.vram /\ vdp'.cram = vdp.cram
      /\ vdp'.reg = vdp.reg
  BY <1>3, <1>4 DEF StatusRead, VdpType
<1>6. QED BY <1>1, <1>2, <1>5, HeldRest

\* A write of a colour: a Game Gear's is half written after its even byte, and
\* whole after its odd one.
LEMMA ColoursWrite ==
  ASSUME Inv, Held, NEW p \in Programs, NEW v \in Data, Write(p, v), job[p].kind = "cram"
  PROVE  \A c \in DOMAIN vdp'.cram : vdp'.cram[c] = meant'.cram[c] \/ HalfWritten(c)'
<1> DEFINE j == job[p]
           n == [j EXCEPT !.done = @ + 1]
           a == (j.base + j.done) % VramSize
           e == a % CramSize(vdp.gg)
<1>1. j # Idle /\ j.stage = 3 /\ Step(p, n)
  BY DEF Write
<1>2. Moving(p)
  BY <1>1 DEF Moving
<1>3. j \in Job /\ j.base \in Cells /\ j.done \in {0, 1} /\ a \in Cells
  BY <1>2, Place
<1>4. /\ n \in Job \/ Finished(n)
      /\ Finished(n) <=> (j.done = 1)
      /\ n.kind = j.kind /\ n.base = j.base /\ n.stage = 3 /\ n.done = j.done + 1
  BY <1>1, <1>3, NextCell
<1> HIDE DEF n
<1>5. /\ job'[p] = IF Finished(n) THEN Idle ELSE n
      /\ \A q \in Programs \ {p} : job'[q] = job[q]
  BY <1>1, <1>4, StepFacts DEF Inv
<1>6. vdp'.gg = vdp.gg /\ vdp.gg \in BOOLEAN
  BY TypedWrite DEF Inv, Typed
<1>7. /\ vdp.cram \in [0 .. CramSize(vdp.gg) - 1 -> Value]
      /\ meant.cram \in [0 .. CramSize(vdp.gg) - 1 -> Value]
  BY DEF Inv, Typed, VdpType, MeantType
<1>8. \A c \in DOMAIN vdp.cram : vdp.cram[c] = meant.cram[c] \/ HalfWritten(c)
  BY DEF Held, MemoriesAsMeant
<1>9. CASE ~vdp.gg
  <2>1. /\ vdp'.cram = [vdp.cram EXCEPT ![e] = v]
        /\ meant'.cram = [meant.cram EXCEPT ![e] = v]
    BY <1>9, WriteFacts, Zenon
  <2>2. \A c : ~HalfWritten(c)
    BY <1>9 DEF HalfWritten
  <2> HIDE DEF e
  <2>3. QED BY <1>7, <1>8, <2>1, <2>2
<1>10. CASE vdp.gg
  <2> DEFINE size == CramSize(TRUE)
  <2>1. CramSize(vdp.gg) = size
    BY <1>10 DEF CramSize
  <2>2. j.base % 2 = 0
    BY <1>10 DEF Inv, Typed
  <2>3. PICK x \in Cells : x = j.base
    BY <1>3
  <2>4. /\ size \in Nat \ {0} /\ x + 1 \in Cells /\ (x + 1) % 2 = 1
        /\ x % size \in 0 .. size - 1 /\ (x % size) % 2 = 0
        /\ (x % size) + 1 \in 0 .. size - 1 /\ (x + 1) % size = (x % size) + 1
    <3>1. x % 2 = 0
      BY <2>2, <2>3
    <3>2. QED BY <3>1, Entry
  <2> DEFINE b == x % size
  <2>5. /\ size \in Nat \ {0} /\ j.base + 1 \in Cells /\ (j.base + 1) % 2 = 1
        /\ b \in 0 .. size - 1 /\ b % 2 = 0 /\ b + 1 \in 0 .. size - 1
        /\ (j.base + 1) % size = b + 1
    BY <2>3, <2>4
  <2>6. DOMAIN vdp.cram = 0 .. size - 1 /\ DOMAIN vdp'.cram = 0 .. size - 1
    <3>1. vdp' \in VdpType(vdp'.gg)
      BY TypedWrite DEF Typed
    <3>2. vdp'.cram \in [0 .. CramSize(vdp.gg) - 1 -> Value]
      BY <1>6, <3>1 DEF VdpType
    <3>3. QED BY <1>7, <2>1, <3>2
  <2>a. \A c \in 0 .. size - 1 : vdp.cram[c] = meant.cram[c] \/ HalfWritten(c)
    BY <1>8, <2>6
  \* Other half-written colours stay, and this program's is the one it writes.
  <2>7. ASSUME NEW c \in 0 .. size - 1, HalfWritten(c)
        PROVE  HalfWritten(c)' \/ (c = b /\ j.done = 1)
    <3>1. c % 2 = 0 /\ c \in Nat
      BY <2>5, <2>7 DEF HalfWritten
    <3>2. PICK q \in Programs : /\ job[q] # Idle /\ job[q].kind = "cram"
                                /\ (job[q].base + job[q].done) % size = c + 1
      BY <2>7 DEF HalfWritten
    <3>3. CASE q # p
      <4>1. job'[q] = job[q]
        BY <1>5, <3>3
      <4>2. QED BY <1>6, <1>10, <3>1, <3>2, <4>1 DEF HalfWritten
    <3>4. CASE q = p /\ j.done = 1
      <4>1. (j.base + 1) % size = c + 1
        BY <3>2, <3>4
      <4>2. b + 1 = c + 1
        BY <2>5, <4>1
      <4> HIDE DEF b
      <4>3. b \in Nat
        BY <2>5
      <4>4. QED BY <3>1, <3>4, <4>2, <4>3
    <3>5. CASE q = p /\ j.done = 0
      <4>1. (j.base + j.done) % size = c + 1
        BY <3>2, <3>5
      <4>2. j.base + j.done = j.base
        BY <1>3, <3>5, MemorySize
      <4>a. x % size = c + 1
        BY <2>3, <4>1, <4>2
      <4>3. b = c + 1 /\ b % 2 = 0
        BY <2>5, <4>a
      <4> HIDE DEF b
      <4>4. FALSE
        BY <3>1, <4>3
      <4>5. QED BY <4>4
    <3>6. QED BY <1>3, <3>3, <3>4, <3>5
  <2>8. CASE j.done = 0
    <3>1. a = j.base
      <4>1. j.base \in 0 .. VramSize - 1 /\ j.base + j.done = j.base
        BY <1>3, <2>8, MemorySize
      <4>2. QED BY <4>1, MemorySize, Below
    <3>2. a % 2 = 0
      BY <2>2, <3>1
    <3>3. vdp'.cram = vdp.cram /\ meant'.cram = [meant.cram EXCEPT ![e] = v]
      BY <1>10, <3>2, WriteFacts, Zenon
    <3>4. e = b
      BY <2>1, <2>3, <3>1
    <3>5. meant'.cram = [meant.cram EXCEPT ![b] = v]
      BY <3>3, <3>4
    <3>6. HalfWritten(b)'
      <4>1. job'[p] = n /\ n \in Job /\ n.kind = "cram"
        BY <1>4, <1>5, <2>8
      <4>2. n # Idle
        BY <4>1, JobFacts
      <4>3. n.base + n.done = j.base + 1
        BY <1>4, <2>8
      <4>4. (job'[p].base + job'[p].done) % size = b + 1
        BY <2>5, <4>1, <4>3
      <4>5. b % 2 = 0 /\ vdp'.gg
        BY <1>6, <1>10, <2>5
      <4> HIDE DEF b
      <4>6. QED BY <4>1, <4>2, <4>4, <4>5 DEF HalfWritten
    <3> HIDE DEF b
    <3>7. \A c \in 0 .. size - 1 : c # b => vdp.cram[c] = meant.cram[c] \/ HalfWritten(c)'
      BY <2>a, <2>7, Zenon
    <3>8. \A c \in 0 .. size - 1 : c # b => meant'.cram[c] = meant.cram[c]
      BY <1>7, <2>1, <3>5
    <3>9. ASSUME NEW c \in 0 .. size - 1
          PROVE  vdp'.cram[c] = meant'.cram[c] \/ HalfWritten(c)'
      <4>1. CASE c = b
        BY <3>6, <4>1
      <4>2. CASE c # b
        BY <3>3, <3>7, <3>8, <3>9, <4>2
      <4>3. QED BY <4>1, <4>2
    <3>10. QED BY <2>6, <3>9
  <2>9. CASE j.done = 1
    <3>1. a = j.base + 1
      <4>1. j.base + 1 \in 0 .. VramSize - 1 /\ j.base + j.done = j.base + 1
        BY <1>3, <2>5, <2>9, MemorySize
      <4>2. QED BY <4>1, MemorySize, Below
    <3>2. a % 2 = 1
      BY <2>5, <3>1
    <3>3. /\ vdp'.cram = [vdp.cram EXCEPT ![e - 1] = vdp.colour, ![e] = v % 16]
          /\ meant'.cram = [meant.cram EXCEPT ![e] = v % 16]
      BY <1>10, <3>2, WriteFacts, ZenonT(40)
    <3>4. e = b + 1
      BY <2>1, <2>5, <3>1
    <3>5. vdp.colour = meant.cram[b]
      BY <1>2, <1>10, <2>3, <2>9 DEF Inv, Ready, Coloured
    <3>6. b \in 0 .. size - 1 /\ b + 1 \in 0 .. size - 1 /\ size \in Nat
      BY <2>5
    <3> HIDE DEF b, e
    <3>7. /\ vdp'.cram = [vdp.cram EXCEPT ![b] = meant.cram[b], ![b + 1] = v % 16]
          /\ meant'.cram = [meant.cram EXCEPT ![b + 1] = v % 16]
      <4>1. e - 1 = b
        BY <3>4, <3>6
      <4>2. QED BY <3>3, <3>4, <3>5, <4>1
    <3>8. b # b + 1
      BY <3>6
    <3>9. \A c \in 0 .. size - 1 : c # b => vdp.cram[c] = meant.cram[c] \/ HalfWritten(c)'
      BY <2>a, <2>7, Zenon
    <3> DEFINE o == b + 1
    <3>10. /\ vdp'.cram = [vdp.cram EXCEPT ![b] = meant.cram[b], ![o] = v % 16]
           /\ meant'.cram = [meant.cram EXCEPT ![o] = v % 16]
           /\ b # o /\ b \in 0 .. size - 1 /\ o \in 0 .. size - 1
      BY <3>6, <3>7, <3>8
    <3> HIDE DEF o
    <3>11. /\ vdp'.cram[b] = meant'.cram[b] /\ vdp'.cram[o] = meant'.cram[o]
           /\ \A c \in 0 .. size - 1 : c # b /\ c # o =>
                vdp'.cram[c] = vdp.cram[c] /\ meant'.cram[c] = meant.cram[c]
      BY <1>7, <2>1, <3>10
    <3>12. QED BY <2>6, <3>9, <3>11
  <2>10. QED BY <1>3, <2>8, <2>9
<1>11. QED BY <1>9, <1>10

LEMMA HeldWrite ==
  ASSUME Inv, Held, NEW p \in Programs, NEW v \in Data, Write(p, v)
  PROVE  Held'
<1> DEFINE j == job[p]
           n == [j EXCEPT !.done = @ + 1]
           a == (j.base + j.done) % VramSize
<1>1. /\ j # Idle /\ j.stage = 3 /\ j.kind \in {"write", "cram"} /\ Step(p, n)
      /\ psg' = psg
  BY DEF Write
<1>2. j \in Job
  BY <1>1, Place DEF Moving
<1>3. (n \in Job \/ Finished(n)) /\ n.kind = j.kind /\ n.base = j.base
  BY <1>1, <1>2, NextCell
<1> HIDE DEF n
<1>4. \A q \in Programs \ {p} : job'[q] = job[q]
  BY <1>1, <1>3, StepFacts DEF Inv
<1>5. vdp'.gg = vdp.gg
  BY TypedWrite
<1>6. /\ vdp.vram = meant.vram /\ vdp.reg = meant.reg
      /\ \A c \in DOMAIN vdp.cram : vdp.cram[c] = meant.cram[c] \/ HalfWritten(c)
  BY DEF Held, MemoriesAsMeant
<1>7. vdp'.reg = meant'.reg /\ meant'.read = meant.read
  <2>1. vdp'.reg = vdp.reg /\ meant'.reg = meant.reg /\ meant'.read = meant.read
    BY WriteFacts, Zenon
  <2>2. QED BY <1>6, <2>1
<1>8. /\ vdp'.vram = meant'.vram
      /\ \A c \in DOMAIN vdp'.cram : vdp'.cram[c] = meant'.cram[c] \/ HalfWritten(c)'
  <2>1. CASE j.kind = "write"
    <3>1. /\ vdp'.vram = [vdp.vram EXCEPT ![a] = v]
          /\ meant'.vram = [meant.vram EXCEPT ![a] = v]
          /\ vdp'.cram = vdp.cram /\ meant'.cram = meant.cram
      BY <2>1, WriteFacts, Zenon
    <3>2. KeepsColours
      BY <1>4, <2>1 DEF KeepsColours
    <3>3. \A c \in DOMAIN vdp'.cram : vdp'.cram[c] = meant'.cram[c] \/ HalfWritten(c)'
      BY <1>5, <1>6, <3>1, <3>2, HalfStays
    <3>4. QED BY <1>6, <3>1, <3>3
  <2>2. CASE j.kind = "cram"
    <3>1. vdp'.vram = vdp.vram /\ meant'.vram = meant.vram
      BY <2>2, WriteFacts, Zenon
    <3>2. QED BY <1>6, <2>2, <3>1, ColoursWrite
  <2>3. QED BY <1>1, <2>1, <2>2
<1>9. /\ meant'.tone = meant.tone /\ meant'.vol = meant.vol /\ meant'.noise = meant.noise
  <2>1. meant \in MeantType(vdp.gg)
    BY DEF Inv, Typed
  <2>2. \/ \E f : meant' = [meant EXCEPT !.vram = f]
        \/ \E f : meant' = [meant EXCEPT !.cram = f]
    BY DEF Write
  <2>3. QED BY <2>1, <2>2 DEF MeantType
<1>10. MemoriesAsMeant'
  BY <1>7, <1>8 DEF MemoriesAsMeant
<1>11. QED BY <1>1, <1>7, <1>9, <1>10 DEF Held, ReadsAsMeant, SoundAsMeant

LEMMA HeldInit == ASSUME Init PROVE Held
<1>1. meant = [vram |-> vdp.vram, cram |-> vdp.cram, reg |-> vdp.reg,
               tone |-> [c \in 0 .. 2 |-> <<1, 0>>], vol |-> PsgInit.vol,
               noise |-> 0, read |-> TRUE]
      /\ psg = PsgInit
  BY DEF Init
<1>2. MemoriesAsMeant /\ ReadsAsMeant
  BY <1>1 DEF MemoriesAsMeant, ReadsAsMeant
<1>3. SoundAsMeant
  BY <1>1 DEF SoundAsMeant, PsgInit
<1>4. QED BY <1>2, <1>3 DEF Held

LEMMA HeldStep == ASSUME Inv, Held, [Next]_vars PROVE Held'
<1>1. CASE UNCHANGED vars
  <2>1. UNCHANGED <<vdp, psg, job, running, manner, jobs, meant>>
    BY <1>1 DEF vars
  <2>2. KeepsColours
    BY <2>1 DEF KeepsColours
  <2>3. QED BY <2>1, <2>2, HeldRest
<1>2. ASSUME NEW p \in Programs, Begin(p) \/ Control(p) \/ Read(p) PROVE Held'
  BY <1>2, HeldBegin, HeldControl, HeldRead
<1>3. ASSUME NEW p \in Programs, NEW v \in Data, Write(p, v) \/ SoundWrite(p, v) PROVE Held'
  BY <1>3, HeldWrite, HeldSound
<1>4. QED BY <1>1, <1>2, <1>3, HeldSwitch DEF Next

LEMMA AlwaysHeld == Spec => []Held
<1>1. Init => Inv /\ Held
  BY InvInit, HeldInit
<1>2. Inv /\ Held /\ [Next]_vars => (Inv /\ Held)'
  BY InvStep, HeldStep
<1>3. QED BY <1>1, <1>2, PTL DEF Spec

\* For memories of any size: what two programs of the modelled manners write
\* lands where they mean it, whenever the handler cuts in, and a Game Gear shows
\* no colour but those of completed writes and the one under way.
THEOREM WritesLand == Spec => []MemoriesAsMeant
<1>1. Held => MemoriesAsMeant
  BY DEF Held
<1>2. QED BY <1>1, AlwaysHeld, PTL

\* For memories of any size: every byte read is the one its cell held.
THEOREM ReadsTrue == Spec => []ReadsAsMeant
<1>1. Held => ReadsAsMeant
  BY DEF Held
<1>2. QED BY <1>1, AlwaysHeld, PTL

\* The PSG's registers hold what was last sent to each, in both manners.
THEOREM SoundLands == Spec => []SoundAsMeant
<1>1. Held => SoundAsMeant
  BY DEF Held
<1>2. QED BY <1>1, AlwaysHeld, PTL

=============================================================================
