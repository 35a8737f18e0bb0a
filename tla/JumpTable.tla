------------------------------ MODULE JumpTable ------------------------------
(***************************************************************************)
(* The recognition of jump tables (detect_jump_table).  A dispatch adds a   *)
(* scaled index to a base and jumps through the word HL then points at; the *)
(* compiler simulates the block before the jp (hl) with every register      *)
(* unknown and A taken for an index, and claims a table: a base, a scale    *)
(* and, when the index is bounded, a proven number of entries.              *)
(*                                                                          *)
(* The block is written one instruction a step, the simulation beside a Z80 *)
(* that executes it on the path to the jump; so the state after any steps   *)
(* is that of every block of so many instructions.                          *)
(***************************************************************************)
EXTENDS Integers

CONSTANTS
  B,       \* values of a byte (256)
  Bytes,   \* the byte operands of the blocks
  Words,   \* the word operands: bases of tables
  MaxLen,  \* bound: instructions of a block before the pointer load (64)
  Idioms   \* what blocks may do besides: see below

(* Idioms: "wrap": the index arithmetic leaves the byte; "stale": A changes *)
(* after the index was copied from it; "reload": a register the address is  *)
(* made of is loaded twice; "flags": an instruction between a compare and   *)
(* its branch.  Nothing jumps into the middle of a block.                   *)

W        == B * B   \* values of a word
Stride   == 2       \* JT_STRIDE
MinCount == 2       \* JT_MIN_ENTRIES
HardCap  == B       \* JT_HARDCAP (256)

ASSUME JumpTableAssumption ==
  /\ B \in Nat \ {0, 1}
  /\ Bytes \subseteq 0 .. B - 1 /\ Words \subseteq 0 .. W - 1
  /\ MaxLen \in Nat
  /\ Idioms \subseteq {"wrap", "stale", "reload", "flags"}

VARIABLES
  sim,   \* what detect_jump_table knows
  cpu,   \* the Z80: A and A', the carry, BC, DE and HL as halves
  len,   \* instructions so far
  used   \* history: the registers written, and whether a compare came last

blockVars == <<sim, cpu, len, used>>

Index(lo, hi, bounded) == [idx |-> TRUE, lo |-> lo, hi |-> hi, bounded |-> bounded]
NoIndex == [idx |-> FALSE, lo |-> 0, hi |-> B - 1, bounded |-> FALSE]

NoHl == [known |-> FALSE, has |-> FALSE, scale |-> 0, base |-> 0]

Start ==
  [a |-> Index(0, B - 1, FALSE), ap |-> NoIndex, cp |-> -1, hl |-> NoHl,
   bc |-> -1, de |-> -1, c |-> FALSE, b0 |-> FALSE, e |-> FALSE, d0 |-> FALSE,
   h0 |-> FALSE]

Byte == 0 .. B - 1

\* Registers the block has not written hold anything; one value stands for it.
Junk == B - 1

BlockInit ==
  /\ sim = Start
  /\ cpu \in [a : Byte, ap : Byte, carry : BOOLEAN, b : {Junk}, c : {Junk},
              d : {Junk}, e : {Junk}, hl : {W - 1}]
  /\ len = 0
  /\ used = [regs |-> {}, compare |-> FALSE]

-----------------------------------------------------------------------------
(* Blocks.  An instruction writes registers and, with "flags" or not, comes  *)
(* between a compare and its branch.                                         *)

Instruction(regs, copied, compare) ==
  /\ len < MaxLen /\ len' = len + 1
  /\ used.compare => "flags" \in Idioms
  /\ regs \cap used.regs # {} =>
       \/ "reload" \in Idioms
       \/ "stale" \in Idioms /\ regs = {"a"}
  /\ used' = [regs |-> used.regs \cup (regs \ {"a"}) \cup copied, compare |-> compare]

Writes(regs) == Instruction(regs, {}, FALSE)

\* Arithmetic on HL, which is then not loaded again.
MovesHl == Instruction({}, {"h", "l"}, FALSE)

\* A's value is copied: from here on A is not to change.
Copies(reg) == Instruction({reg}, {"a"}, FALSE)

\* A comes from memory, an index; or from an immediate.
LoadA(v) ==
  /\ Writes({"a"})
  /\ cpu' = [cpu EXCEPT !.a = v]
  /\ sim' = [sim EXCEPT !.a = Index(0, B - 1, FALSE), !.cp = -1]

LoadImmediate(v) ==
  /\ Writes({"a"})
  /\ cpu' = [cpu EXCEPT !.a = v]
  /\ sim' = [sim EXCEPT !.a.idx = FALSE, !.cp = -1]

\* ex af,af'
Exchange ==
  /\ Writes({"a"})
  /\ cpu' = [cpu EXCEPT !.a = cpu.ap, !.ap = cpu.a]
  /\ sim' = [sim EXCEPT !.a = sim.ap, !.ap = sim.a, !.cp = -1]

Compare(n) ==
  /\ Instruction({}, {}, TRUE)
  /\ cpu' = [cpu EXCEPT !.carry = cpu.a < n]
  /\ sim' = [sim EXCEPT !.cp = n]

\* Not taken, jr nc leaves A below the bound, jr c leaves it at least the bound.
Below(s, n)   == [s EXCEPT !.hi = IF n - 1 < @ THEN n - 1 ELSE @, !.bounded = TRUE]
AtLeast(s, n) == [s EXCEPT !.lo = IF n > @ THEN n ELSE @]

\* A branch on the carry, not taken.
Branch(nc) ==
  /\ len < MaxLen /\ len' = len + 1
  /\ used' = [used EXCEPT !.compare = FALSE]
  /\ cpu.carry = nc /\ UNCHANGED cpu
  /\ sim' = [sim EXCEPT !.cp = -1,
               !.a = IF sim.cp = -1 \/ ~@.idx THEN @
                     ELSE IF nc THEN Below(@, sim.cp) ELSE AtLeast(@, sim.cp)]

\* The simulation's arithmetic on the range of the index.
AtZero(n) == IF n < 0 THEN 0 ELSE n
Cut(n)    == IF n > B - 1 THEN B - 1 ELSE n

Down(s, n)  == [s EXCEPT !.lo = AtZero(@ - n), !.hi = @ - n]
Up(s)       == [s EXCEPT !.lo = @ + 1, !.hi = @ + 1]

\* Mistake: only the lower bound is doubled.
DoubleLow(s) == [s EXCEPT !.lo = Cut(2 * @)]

Double(s)   == [s EXCEPT !.lo = Cut(2 * @), !.hi = Cut(2 * @)]
Mask(s, n)  == [s EXCEPT !.lo = 0, !.hi = n, !.bounded = TRUE]

\* The bits two bytes share.
And[x \in Byte] ==
  [y \in Byte |-> IF x = 0 THEN 0
                  ELSE 2 * And[x \div 2][y \div 2] + (x % 2) * (y % 2)]

\* sub n, dec a, inc a, add a,a and and n.
Arithmetic(result, carry, range, cp) ==
  /\ Writes({"a"})
  /\ result \in Byte \/ "wrap" \in Idioms
  /\ cpu' = [cpu EXCEPT !.a = result % B, !.carry = carry]
  /\ sim' = [sim EXCEPT !.a = IF @.idx THEN range ELSE @, !.cp = cp]

Sub(n) == Arithmetic(cpu.a - n, cpu.a < n, Down(sim.a, n), sim.cp)
Dec    == Arithmetic(cpu.a - 1, cpu.carry, Down(sim.a, 1), sim.cp)
Inc    == Arithmetic(cpu.a + 1, cpu.carry, Up(sim.a), sim.cp)
Twice  == Arithmetic(2 * cpu.a, 2 * cpu.a >= B, Double(sim.a), -1)
Masks(n) == Arithmetic(And[cpu.a][n], FALSE, Mask(sim.a, n), sim.cp)

\* ld c,a and ld e,a; the other halves; ld l,a and ld l,c.
CopyToC == /\ Copies("c") /\ cpu' = [cpu EXCEPT !.c = cpu.a]
           /\ sim' = [sim EXCEPT !.c = sim.a.idx]
CopyToE == /\ Copies("e") /\ cpu' = [cpu EXCEPT !.e = cpu.a]
           /\ sim' = [sim EXCEPT !.e = sim.a.idx]
LoadB(n) == /\ Writes({"b"}) /\ cpu' = [cpu EXCEPT !.b = n]
            /\ sim' = [sim EXCEPT !.b0 = (n = 0)]
LoadD(n) == /\ Writes({"d"}) /\ cpu' = [cpu EXCEPT !.d = n]
            /\ sim' = [sim EXCEPT !.d0 = (n = 0)]
LoadH(n) == /\ Writes({"h"}) /\ cpu' = [cpu EXCEPT !.hl = n * B + (@ % B)]
            /\ sim' = [sim EXCEPT !.h0 = (n = 0)]

FromL(isIndex) ==
  IF sim.h0 /\ isIndex
    THEN [known |-> TRUE, has |-> TRUE, scale |-> 1, base |-> 0]
    ELSE [sim.hl EXCEPT !.known = FALSE]

CopyToL == /\ Copies("l") /\ cpu' = [cpu EXCEPT !.hl = @ - (@ % B) + cpu.a]
           /\ sim' = [sim EXCEPT !.hl = FromL(sim.a.idx)]
CToL    == /\ Writes({"l"}) /\ cpu' = [cpu EXCEPT !.hl = @ - (@ % B) + cpu.c]
           /\ sim' = [sim EXCEPT !.hl = FromL(sim.c)]

\* ld hl,nn, ld de,nn and ld bc,nn.
LoadHl(nn) ==
  /\ Writes({"h", "l"}) /\ cpu' = [cpu EXCEPT !.hl = nn]
  /\ sim' = [sim EXCEPT !.hl = [known |-> TRUE, has |-> FALSE, scale |-> 0, base |-> nn]]
LoadDe(nn) ==
  /\ Writes({"d", "e"}) /\ cpu' = [cpu EXCEPT !.d = nn \div B, !.e = nn % B]
  /\ sim' = [sim EXCEPT !.de = nn, !.e = FALSE]
LoadBc(nn) ==
  /\ Writes({"b", "c"}) /\ cpu' = [cpu EXCEPT !.b = nn \div B, !.c = nn % B]
  /\ sim' = [sim EXCEPT !.bc = nn, !.c = FALSE, !.b0 = (nn \div B = 0)]

\* Mistake: a constant added to HL is not part of the base.
AddedNothing(hl, isIndex, const) ==
  IF ~hl.known THEN hl
  ELSE IF isIndex THEN [hl EXCEPT !.has = TRUE, !.scale = @ + 1]
  ELSE IF const # -1 THEN hl
  ELSE [hl EXCEPT !.known = FALSE]

\* add hl,de and add hl,bc: an index of one byte, or a constant.
Added(hl, isIndex, const) ==
  IF ~hl.known THEN hl
  ELSE IF isIndex THEN [hl EXCEPT !.has = TRUE, !.scale = @ + 1]
  ELSE IF const # -1 THEN [hl EXCEPT !.base = (@ + const) % W]
  ELSE [hl EXCEPT !.known = FALSE]

Add(pair, hl) ==
  /\ MovesHl
  /\ cpu' = [cpu EXCEPT !.hl = (@ + pair) % W, !.carry = (cpu.hl + pair >= W)]
  /\ sim' = [sim EXCEPT !.hl = hl]

AddDe == Add(cpu.d * B + cpu.e, Added(sim.hl, sim.e /\ sim.d0, sim.de))
AddBc == Add(cpu.b * B + cpu.c, Added(sim.hl, sim.c /\ sim.b0, sim.bc))
AddHl == Add(cpu.hl, IF sim.hl.known
                       THEN [sim.hl EXCEPT !.base = (2 * @) % W, !.scale = 2 * @]
                       ELSE sim.hl)

\* inc hl and dec hl.
Move(by) ==
  /\ MovesHl
  /\ cpu' = [cpu EXCEPT !.hl = (@ + by) % W]
  /\ sim' = [sim EXCEPT !.hl.base = IF sim.hl.known THEN (@ + by) % W ELSE @]

Done == len = MaxLen /\ UNCHANGED blockVars

BlockNext ==
  \/ \E v \in Byte : LoadA(v)
  \/ \E v \in Bytes : \/ LoadImmediate(v) \/ Compare(v) \/ Sub(v) \/ Masks(v)
                      \/ LoadB(v) \/ LoadD(v) \/ LoadH(v)
  \/ Exchange \/ Branch(TRUE) \/ Branch(FALSE)
  \/ Dec \/ Inc \/ Twice
  \/ CopyToC \/ CopyToE \/ CopyToL \/ CToL
  \/ \E nn \in Words : LoadHl(nn) \/ LoadDe(nn) \/ LoadBc(nn)
  \/ AddDe \/ AddBc \/ AddHl \/ Move(1) \/ Move(-1)
  \/ Done

BlockSpec == BlockInit /\ [][BlockNext]_blockVars

-----------------------------------------------------------------------------
(* The claim, and what it promises.                                         *)

Matched == sim.hl.known /\ sim.hl.has /\ sim.hl.scale >= 1

Span  == (sim.a.hi - sim.a.lo) * sim.hl.scale
Count == Span \div Stride + 1

Proven == /\ Matched
          /\ sim.a.bounded /\ sim.a.hi >= sim.a.lo /\ sim.a.hi < B
          /\ Span % Stride = 0
          /\ Count \in MinCount .. HardCap

TableBase == (sim.hl.base + sim.a.lo * sim.hl.scale) % W

\* A table whose size is proven holds every pointer the dispatch can read, for
\* whatever index it is entered with ("we ... read exactly the number of entries
\* the index range PROVES").
ProvenCovers == Proven => (cpu.hl - TableBase) % W <= Stride * (Count - 1)

\* A dispatch without arithmetic on the address other than an index times a scale
\* reads from the base it is matched with.
MatchedFromBase ==
  Matched => \E i \in Byte : (cpu.hl - sim.hl.base) % W = (i * sim.hl.scale) % W
==============================================================================
