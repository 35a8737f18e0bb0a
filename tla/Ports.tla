-------------------------------- MODULE Ports --------------------------------
(***************************************************************************)
(* The two devices behind the Z80's ports, the VDP's memories and the PSG's *)
(* registers, and two programs that share them: the main program and the    *)
(* interrupt handler, which may run between any two of main's accesses.     *)
(* Both devices take their commands one byte at a time through a latch that *)
(* the other program's accesses move.                                       *)
(*                                                                          *)
(* A program's transfers are jobs: it selects a cell and a direction with   *)
(* two control bytes, then moves the data, one cell after another.          *)
(***************************************************************************)
EXTENDS Integers, Sequences

CONSTANTS
  L,         \* values of a byte, the low part of an address (256)
  H,         \* values of the high part of an address (64)
  Colours,   \* entries of colour memory (32)
  Machines,  \* the values of is_gg: whether the machine is a Game Gear
  NumRegs,   \* registers a control word can name (16)
  Bases,     \* the cells at which the programs' transfers start
  Data,      \* the bytes they write
  Manners,   \* how main shares the ports with the handler
  MaxJobs    \* bound: transfers of a behaviour

(* Manners: "pair": interrupts are masked between the two bytes of a        *)
(* command, and the handler only reads the status; "job": they are masked   *)
(* during a whole transfer, and the handler makes transfers of its own.     *)

VramSize == L * H

ASSUME PortsAssumption ==
  /\ L \in Nat \ {0} /\ H \in Nat \ {0} /\ VramSize % 2 = 0
  /\ Colours \in Nat \ {0}
  /\ Machines \subseteq BOOLEAN
  /\ NumRegs \in Nat \ {0}
  /\ Bases \subseteq 0 .. VramSize - 1
  /\ Data \subseteq 0 .. L - 1
  /\ Manners \subseteq {"pair", "job"}
  /\ MaxJobs \in Nat

VARIABLES
  vdp,     \* g_vdp: its memories and the state of its ports
  psg,     \* s_sn: the registers programs write
  job,     \* the transfer each program is in
  running, \* the program that executes
  manner,  \* how main behaves in this behaviour
  jobs,    \* transfers begun
  meant    \* history: what the memories should hold, and the last read

vars == <<vdp, psg, job, running, manner, jobs, meant>>

-----------------------------------------------------------------------------
(* The VDP.                                                                 *)

Cells == 0 .. VramSize - 1

\* vdp_reset; on a Game Gear a colour takes two bytes.
CramSize(gg) == IF gg THEN 2 * Colours ELSE Colours

VdpInit(gg) ==
           [gg |-> gg, second |-> FALSE, latch |-> 0, addr |-> 0, code |-> 0,
            readbuf |-> 0, colour |-> 0,
            vram |-> [a \in Cells |-> 0],
            cram |-> [a \in 0 .. CramSize(gg) - 1 |-> 0],
            reg  |-> [r \in 0 .. NumRegs - 1 |-> 0]]

Bump(a) == (a + 1) % VramSize

\* vdp_control_write: the second byte selects, and for a read prefetches.
ControlWrite(d, v) ==
  IF ~d.second
    THEN [d EXCEPT !.latch = v, !.second = TRUE,
                   !.addr = (d.addr \div L) * L + v]
    ELSE LET a    == d.latch + (v % H) * L
             code == v \div H
         IN  [d EXCEPT !.second = FALSE, !.code = code,
                       !.addr = IF code = 0 THEN Bump(a) ELSE a,
                       !.readbuf = IF code = 0 THEN d.vram[a] ELSE @,
                       !.reg = IF code = 2
                                 THEN [@ EXCEPT ![(v % H) % NumRegs] = d.latch]
                                 ELSE @]

\* Mistake: which byte of a colour is next is a toggle, as for a command.
DataWriteToggle(d, v) ==
  LET c    == d.addr % CramSize(d.gg)
      next == [d EXCEPT !.second = FALSE, !.readbuf = v, !.addr = Bump(d.addr)]
  IN  IF d.code # 3 THEN [next EXCEPT !.vram[d.addr] = v]
      ELSE IF ~d.gg THEN [next EXCEPT !.cram[c] = v]
      ELSE IF ~d.second THEN [next EXCEPT !.colour = v, !.second = TRUE]
      ELSE [next EXCEPT !.cram[c - (c % 2)] = d.colour, !.cram[c] = v % 16]

\* vdp_data_write: VRAM, or CRAM, where a Game Gear takes a colour in two bytes.
DataWrite(d, v) ==
  LET c    == d.addr % CramSize(d.gg)
      next == [d EXCEPT !.second = FALSE, !.readbuf = v, !.addr = Bump(d.addr)]
  IN  IF d.code # 3 THEN [next EXCEPT !.vram[d.addr] = v]
      ELSE IF ~d.gg THEN [next EXCEPT !.cram[c] = v]
      ELSE IF d.addr % 2 = 0 THEN [next EXCEPT !.colour = v]
      ELSE [next EXCEPT !.cram[c - 1] = d.colour, !.cram[c] = v % 16]

\* Mistake: the prefetch is not renewed.
DataReadStale(d) == [d EXCEPT !.second = FALSE, !.addr = Bump(d.addr)]

\* vdp_data_read returns readbuf, and reads ahead.
DataRead(d) ==
  [d EXCEPT !.second = FALSE, !.readbuf = d.vram[d.addr], !.addr = Bump(d.addr)]

\* vdp_status_read, without its interrupt flags (VdpTiming).
StatusRead(d) == [d EXCEPT !.second = FALSE]

-----------------------------------------------------------------------------
(* The PSG: tone periods of two halves (4 and 6 bits), volumes, noise.      *)

PsgInit == [latch |-> <<0, "tone">>,
            lo  |-> [c \in 0 .. 2 |-> 1], hi |-> [c \in 0 .. 2 |-> 0],
            vol |-> [c \in 0 .. 3 |-> 15], noise |-> 0]

\* The register a latch byte names, or a data byte inherits.
PsgSet(p, r, first, v) ==
  IF r[2] = "vol" THEN [p EXCEPT !.vol[r[1]] = v]
  ELSE IF r[1] = 3 THEN [p EXCEPT !.noise = v]
  ELSE IF first THEN [p EXCEPT !.lo[r[1]] = v]
  ELSE [p EXCEPT !.hi[r[1]] = v]

\* sn_write: a latch byte names its register, a data byte goes to the last named.
LatchByte(p, c, t, v) == [PsgSet(p, <<c, t>>, TRUE, v) EXCEPT !.latch = <<c, t>>]

\* Mistake: a data byte goes to the tone of its channel, whatever was named.
DataByteTone(p, v) == PsgSet(p, <<p.latch[1], "tone">>, FALSE, v)

DataByte(p, v)        == PsgSet(p, p.latch, FALSE, v)

-----------------------------------------------------------------------------
(* The programs.                                                            *)

Programs == {"main", "handler"}
Idle     == [kind |-> "none"]

Codes == [read |-> 0, write |-> 1, reg |-> 2, cram |-> 3]

\* A transfer: what it moves, where it starts, how much, how far it is.
Transfers(p) ==
  LET Job(k, base, n) == [kind |-> k, base |-> base, len |-> n, stage |-> 1, done |-> 0]
      whole == {b \in Bases : b % 2 = 0}     \* a colour is written whole
  IN  {Job(k, b, 2) : k \in {"read", "write"}, b \in Bases}
        \union {Job("cram", b, 2) : b \in IF vdp.gg THEN whole ELSE Bases}
        \union {Job("reg", b, 0) : b \in Bases}
        \union {Job("tone", c, 0) : c \in {0, 2}}
        \union {Job("vol", c, 0) : c \in {1, 3}}
        \union {Job("noise", 3, 0)}

Sound(j) == j.kind \in {"tone", "vol", "noise"}

Init == /\ vdp \in {VdpInit(gg) : gg \in Machines}
        /\ psg = PsgInit
        /\ job = [p \in Programs |-> Idle]
        /\ running = "main"
        /\ manner \in Manners
        /\ jobs = 0
        /\ meant = [vram |-> vdp.vram, cram |-> vdp.cram, reg |-> vdp.reg,
                    tone |-> [c \in 0 .. 2 |-> <<1, 0>>], vol |-> PsgInit.vol,
                    noise |-> 0, read |-> TRUE]

Begin(p) ==
  /\ running = p /\ job[p] = Idle /\ jobs < MaxJobs
  /\ p = "handler" => manner = "job"
  /\ \E j \in Transfers(p) : job' = [job EXCEPT ![p] = j]
  /\ jobs' = jobs + 1
  /\ UNCHANGED <<vdp, psg, running, manner, meant>>

Finished(j) == j.stage = 3 /\ j.done = j.len

Step(p, j) == job' = [job EXCEPT ![p] = IF Finished(j) THEN Idle ELSE j]

\* The two control bytes of a VDP command: first the low part of the address, or
\* a register's value; then the code with the high part, or the register.
Control(p) ==
  LET j == job[p] IN
  /\ running = p /\ j # Idle /\ ~Sound(j) /\ j.stage < 3
  /\ vdp' = ControlWrite(vdp, IF j.stage = 1 THEN j.base % L
                              ELSE Codes[j.kind] * H + j.base \div L)
  /\ meant' = IF j.stage = 2 /\ j.kind = "reg"
                THEN [meant EXCEPT !.reg[(j.base \div L) % NumRegs] = j.base % L]
                ELSE meant
  /\ Step(p, [j EXCEPT !.stage = @ + 1])
  /\ UNCHANGED <<psg, running, manner, jobs>>

Write(p, v) ==
  LET j == job[p]
      a == (j.base + j.done) % VramSize
  IN
  /\ running = p /\ j # Idle /\ j.kind \in {"write", "cram"} /\ j.stage = 3
  /\ vdp' = DataWrite(vdp, v)
  /\ meant' = IF j.kind = "write" THEN [meant EXCEPT !.vram[a] = v]
              ELSE [meant EXCEPT !.cram[a % CramSize(vdp.gg)] =
                       IF vdp.gg /\ a % 2 = 1 THEN v % 16 ELSE v]
  /\ Step(p, [j EXCEPT !.done = @ + 1])
  /\ UNCHANGED <<psg, running, manner, jobs>>

Read(p) ==
  LET j == job[p]
      a == (j.base + j.done) % VramSize
  IN
  /\ running = p /\ j # Idle /\ j.kind = "read" /\ j.stage = 3
  /\ vdp' = DataRead(vdp)
  /\ meant' = [meant EXCEPT !.read = (vdp.readbuf = meant.vram[a])]
  /\ Step(p, [j EXCEPT !.done = @ + 1])
  /\ UNCHANGED <<psg, running, manner, jobs>>

\* A tone takes a latch byte and a data byte; the others are also sent as two,
\* the value of the second staying.
SoundWrite(p, v) ==
  LET j == job[p]
      type == IF j.kind = "vol" THEN "vol" ELSE "tone"
  IN
  /\ running = p /\ j # Idle /\ Sound(j) /\ j.stage < 3
  /\ psg' = IF j.stage = 1 THEN LatchByte(psg, j.base, type, v) ELSE DataByte(psg, v)
  /\ meant' = CASE j.kind = "tone"  -> [meant EXCEPT !.tone[j.base][j.stage] = v]
                [] j.kind = "vol"   -> [meant EXCEPT !.vol[j.base] = v]
                [] j.kind = "noise" -> [meant EXCEPT !.noise = v]
  /\ Step(p, [j EXCEPT !.stage = @ + 1])
  /\ UNCHANGED <<vdp, running, manner, jobs>>

\* Main has masked interrupts.
Masked == /\ job["main"] # Idle
          /\ IF manner = "pair" THEN job["main"].stage = 2
             ELSE job["main"].stage > 1

\* The handler acknowledges the interrupt first.
Interrupt ==
  /\ running = "main" /\ ~Masked
  /\ running' = "handler"
  /\ vdp' = StatusRead(vdp)
  /\ UNCHANGED <<psg, job, manner, jobs, meant>>

Return ==
  /\ running = "handler" /\ job["handler"] = Idle
  /\ running' = "main"
  /\ UNCHANGED <<vdp, psg, job, manner, jobs, meant>>

Next == \/ \E p \in Programs : Begin(p) \/ Control(p) \/ Read(p)
        \/ \E p \in Programs, v \in Data : Write(p, v) \/ SoundWrite(p, v)
        \/ Interrupt
        \/ Return

Spec == Init /\ [][Next]_vars

-----------------------------------------------------------------------------
(* Properties.                                                              *)

\* Every variable has its type.
TypeOK ==
  /\ vdp.addr \in Cells /\ vdp.code \in 0 .. 3 /\ vdp.second \in BOOLEAN
  /\ vdp.vram \in [Cells -> 0 .. L - 1]
  /\ vdp.cram \in [0 .. CramSize(vdp.gg) - 1 -> 0 .. L - 1]
  /\ vdp.reg \in [0 .. NumRegs - 1 -> 0 .. L - 1]
  /\ psg.latch \in (0 .. 3) \X {"tone", "vol"}
  /\ running \in Programs /\ manner \in Manners /\ jobs \in 0 .. MaxJobs

\* The odd byte of this colour is still to come.
HalfWritten(c) ==
  /\ vdp.gg /\ c % 2 = 0
  /\ \E p \in Programs :
       /\ job[p] # Idle /\ job[p].kind = "cram"
       /\ (job[p].base + job[p].done) % CramSize(TRUE) = c + 1

\* What the programs wrote is in the cells they meant, however the handler cuts
\* into main's transfers: VRAM across a carry and the end of memory, registers,
\* and colours, of which a Game Gear shows no half-written one.
MemoriesAsMeant ==
  /\ vdp.vram = meant.vram
  /\ vdp.reg = meant.reg
  /\ \A c \in DOMAIN vdp.cram : vdp.cram[c] = meant.cram[c] \/ HalfWritten(c)

\* Each byte of a read transfer is the one its cell holds: the prefetch is never
\* stale, whatever the handler does between two reads.
ReadsAsMeant == meant.read

\* The PSG's registers hold what their programs last sent to them.
SoundAsMeant ==
  /\ \A c \in 0 .. 2 : meant.tone[c] = <<psg.lo[c], psg.hi[c]>>
  /\ psg.vol = meant.vol
  /\ psg.noise = meant.noise
=============================================================================
