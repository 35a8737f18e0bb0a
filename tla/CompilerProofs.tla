--------------------------- MODULE CompilerProofs ---------------------------
(***************************************************************************)
(* What the compiler makes of bytes.  Of one instruction: it is measured,   *)
(* classified and costed as the interpreter executes it, and the flat code   *)
(* compiled from images executes exactly the live one.  Of a block: for      *)
(* bytes of any size, blocks of any length and tables anywhere, a jump table  *)
(* is matched with the base its dispatch reads from, and one of proven size  *)
(* holds every pointer the dispatch can read.                                *)
(***************************************************************************)
EXTENDS FlatStep, JumpTable, DataLemmas

-----------------------------------------------------------------------------
(* The decoder: tables, and what the first bytes of a stream decide.        *)

\* Opcodes that are no prefix; and those the compiler does not ignore a prefix before.
Ordinary == Opcode \ {\hCB, \hED, \hDD, \hFD}
Unread   == {\h10, \h20, \h28, \h30, \h38, \h76}
\* The instructions of Streams without the oddities, with anything behind them.
Formed(p) ==
  /\ p \in Seq(Opcode) /\ Len(p) \in Nat /\ Len(p) >= 4
  /\ \/ p[1] \in Ordinary
     \/ p[1] = \hCB
     \/ p[1] = \hED /\ p[2] \notin {\hBB, \h5D, \h6D, \h7D}
     \/ p[1] \in Prefix /\ p[2] \in Ordinary \ Unread
     \/ p[1] \in Prefix /\ p[2] = \hCB

\* The lengths and cycles of the opcode tables; the two cycle tables are one.
LEMMA Tables ==
  /\ base_cyc = cyc_00
  /\ \A o \in Opcode : cyc_00[o + 1] \in Nat
  /\ \A o \in Opcode : base_len[o + 1] \in 0 .. 3
  /\ \A o \in Ordinary : base_len[o + 1] \in 1 .. 3
<1>1. base_cyc = cyc_00
  BY DEF base_cyc, cyc_00
<1>2. \A o \in Opcode : cyc_00[o + 1] \in Nat
  BY DEF cyc_00, Opcode
<1>3. \A o \in Opcode : base_len[o + 1] \in 0 .. 3
  BY DEF base_len, Opcode
<1>4. \A o \in Ordinary : base_len[o + 1] \in 1 .. 3
  BY DEF base_len, Opcode, Ordinary
<1>5. QED BY <1>1, <1>2, <1>3, <1>4

\* The prefixes in front end at the first byte that is none.
LEMMA Counted ==
  ASSUME NEW p, Len(p) \in Nat, NEW n \in 1 .. Len(p), p[n] \notin Prefix
  PROVE  /\ PrefixCount(p) \in 0 .. Len(p) - 1
         /\ \A j \in 1 .. PrefixCount(p) : p[j] \in Prefix
         /\ p[PrefixCount(p) + 1] \notin Prefix
<1> DEFINE Here(i) == (\A j \in 1 .. i : p[j] \in Prefix) /\ p[i + 1] \notin Prefix
           T == {m \in 1 .. Len(p) : p[m] \notin Prefix}
<1>1. PICK m \in T : \A k \in T : m <= k
  <2>1. T \subseteq Nat /\ T # {}
    OBVIOUS
  <2>2. QED BY <2>1, Least
<1>2. m - 1 \in 0 .. Len(p) - 1 /\ m - 1 + 1 = m
  BY <1>1
<1>3. \A j \in 1 .. m - 1 : p[j] \in Prefix
  <2>1. TAKE j \in 1 .. m - 1
  <2>2. j \in 1 .. Len(p) /\ ~ (m <= j)
    BY <1>1
  <2>3. QED BY <1>1, <2>2
<1>4. Here(m - 1)
  BY <1>1, <1>2, <1>3
<1> HIDE DEF Here
<1>5. \E i \in 0 .. Len(p) - 1 : Here(i)
  BY <1>2, <1>4
<1>6. PrefixCount(p) = CHOOSE i \in 0 .. Len(p) - 1 : Here(i)
  BY Zenon DEF PrefixCount, Here
<1>7. PrefixCount(p) \in 0 .. Len(p) - 1 /\ Here(PrefixCount(p))
  BY <1>5, <1>6, Zenon
<1>8. QED BY <1>7 DEF Here

\* No prefix in front.
LEMMA NoPrefix ==
  ASSUME NEW p, Len(p) \in Nat, Len(p) >= 1, p[1] \notin Prefix
  PROVE  PrefixCount(p) = 0
<1>1. 1 \in 1 .. Len(p)
  OBVIOUS
<1>2. /\ PrefixCount(p) \in 0 .. Len(p) - 1
      /\ \A j \in 1 .. PrefixCount(p) : p[j] \in Prefix
  BY <1>1, Counted
<1>3. QED BY <1>2

\* One prefix in front.
LEMMA OnePrefix ==
  ASSUME NEW p, Len(p) \in Nat, Len(p) >= 2, p[1] \in Prefix, p[2] \notin Prefix
  PROVE  PrefixCount(p) = 1
<1>1. 2 \in 1 .. Len(p)
  OBVIOUS
<1>2. /\ PrefixCount(p) \in 0 .. Len(p) - 1
      /\ \A j \in 1 .. PrefixCount(p) : p[j] \in Prefix
      /\ p[PrefixCount(p) + 1] \notin Prefix
  BY <1>1, Counted
<1>3. QED BY <1>2

\* The decoder's reading by the bytes in front.
PrefixName(b) == IF b = \hDD THEN "dd" ELSE "fd"
Displacement(o) == IF op_uses_hl_mem(o) THEN 1 ELSE 0

\* What the decoder makes of a stream, by its first bytes.
LEMMA Decoded ==
  ASSUME NEW p, Len(p) \in Nat, Len(p) >= 4
  PROVE  /\ p[1] \in Ordinary =>
              z80_decode(p) = Insn("none", p[1], FALSE, base_len[p[1] + 1],
                                   classify_base(p[1]), p[1] = \h76)
         /\ p[1] = \hCB => z80_decode(p) = Insn("cb", p[2], FALSE, 2, Plain, FALSE)
         /\ p[1] = \hED => z80_decode(p) = DecodeEd(p, 0)
         /\ p[1] \in Prefix /\ p[2] \in Ordinary =>
              z80_decode(p) = Insn(PrefixName(p[1]), p[2], op_uses_hl_mem(p[2]),
                                   1 + Displacement(p[2]) + base_len[p[2] + 1],
                                   classify_base(p[2]), FALSE)
         /\ p[1] \in Prefix /\ p[2] = \hCB =>
              z80_decode(p) = Insn("ddcb", p[4], TRUE, 4, Plain, FALSE)
<1>1. p[1] \notin Prefix => PrefixCount(p) = 0
  BY NoPrefix
<1>2. p[1] \in Prefix /\ p[2] \notin Prefix => PrefixCount(p) = 1
  BY OnePrefix
<1>3. ASSUME p[1] \in Ordinary
      PROVE  z80_decode(p) = Insn("none", p[1], FALSE, base_len[p[1] + 1],
                                  classify_base(p[1]), p[1] = \h76)
  <2>1. PrefixCount(p) = 0 /\ 0 + 1 = 1 /\ p[1] \notin {\hCB, \hED}
    BY <1>1, <1>3 DEF Ordinary, Prefix
  <2>2. base_len[p[1] + 1] \in 1 .. 3
    BY <1>3, Tables
  <2>3. z80_decode(p) = DecodePlain(p, 0, "none")
    BY <2>1 DEF z80_decode
  <2>4. /\ ("none" # "none" /\ op_uses_hl_mem(p[1])) = FALSE
        /\ (p[1] = \h76 /\ "none" = "none") = (p[1] = \h76)
    OBVIOUS
  <2>5. 0 + 0 + base_len[p[1] + 1] = base_len[p[1] + 1] /\ 0 + 1 = 1
    BY <2>2
  <2>6. DecodePlain(p, 0, "none")
          = Insn("none", p[1], FALSE, 0 + 0 + base_len[p[1] + 1],
                 classify_base(p[1]), p[1] = \h76)
    BY <2>4, <2>5, Zenon DEF DecodePlain
  <2>7. QED BY <2>3, <2>5, <2>6
<1>4. ASSUME p[1] = \hCB PROVE z80_decode(p) = Insn("cb", p[2], FALSE, 2, Plain, FALSE)
  <2>1. PrefixCount(p) = 0 /\ 0 + 1 = 1 /\ 0 + 2 = 2
    BY <1>1, <1>4 DEF Prefix
  <2>2. z80_decode(p) = DecodeCb(p, 0, "none")
    BY <1>4, <2>1 DEF z80_decode
  <2>3. QED BY <2>1, <2>2, Zenon DEF DecodeCb
<1>5. ASSUME p[1] = \hED PROVE z80_decode(p) = DecodeEd(p, 0)
  <2>1. PrefixCount(p) = 0 /\ 0 + 1 = 1
    BY <1>1, <1>5 DEF Prefix
  <2>2. QED BY <1>5, <2>1 DEF z80_decode
<1>6. ASSUME p[1] \in Prefix, p[2] \in Ordinary
      PROVE  z80_decode(p) = Insn(PrefixName(p[1]), p[2], op_uses_hl_mem(p[2]),
                                  1 + Displacement(p[2]) + base_len[p[2] + 1],
                                  classify_base(p[2]), FALSE)
  <2>1. PrefixCount(p) = 1 /\ 1 + 1 = 2 /\ p[2] \notin {\hCB, \hED} /\ 1 # 0
    BY <1>2, <1>6 DEF Ordinary, Prefix
  <2>3. z80_decode(p) = DecodePlain(p, 1, PrefixName(p[1]))
    BY <2>1 DEF z80_decode, PrefixName
  <2>4. PrefixName(p[1]) # "none"
    BY DEF PrefixName
  <2>5. /\ (PrefixName(p[1]) # "none" /\ op_uses_hl_mem(p[2])) = op_uses_hl_mem(p[2])
        /\ (p[2] = \h76 /\ PrefixName(p[1]) = "none") = FALSE
    <3>1. op_uses_hl_mem(p[2]) \in BOOLEAN
      BY DEF op_uses_hl_mem
    <3>2. QED BY <2>4, <3>1, Zenon
  <2> DEFINE pfx == PrefixName(p[1])
             b    == p[2]
             disp == pfx # "none" /\ op_uses_hl_mem(b)
             halt == b = \h76 /\ pfx = "none"
  <2>6. p[1 + 1] = b
    BY <2>1
  <2>7. z80_decode(p) = Insn(pfx, b, disp, 1 + (IF disp THEN 1 ELSE 0) + base_len[b + 1],
                             classify_base(b), halt)
    BY <2>3, <2>6, Zenon DEF DecodePlain
  <2>8. disp = op_uses_hl_mem(b) /\ halt = FALSE
    BY <2>5
  <2> HIDE DEF pfx, b, disp, halt
  <2>9. z80_decode(p) = Insn(pfx, b, op_uses_hl_mem(b), 1 + Displacement(b) + base_len[b + 1],
                             classify_base(b), FALSE)
    BY <2>7, <2>8, Zenon DEF Displacement
  <2>10. QED BY <2>9 DEF pfx, b
<1>7. ASSUME p[1] \in Prefix, p[2] = \hCB
      PROVE  z80_decode(p) = Insn("ddcb", p[4], TRUE, 4, Plain, FALSE)
  <2>1. PrefixCount(p) = 1 /\ 1 + 1 = 2 /\ 1 # 0 /\ 1 + 3 = 4
    BY <1>2, <1>7 DEF Prefix
  <2>3. z80_decode(p) = DecodeCb(p, 1, PrefixName(p[1]))
    BY <1>7, <2>1 DEF z80_decode, PrefixName
  <2>4. PrefixName(p[1]) # "none"
    BY DEF PrefixName
  <2>5. QED BY <2>1, <2>3, <2>4 DEF DecodeCb
<1>8. QED BY <1>3, <1>4, <1>5, <1>6, <1>7
-----------------------------------------------------------------------------
(* The interpreter between two bytes.                                       *)

Repeats == stream[1] = \hED /\ stream[2] \in RepeatOps

\* Before each round of a block instruction as many are charged as are done.
Spent(cycles, refreshes) ==
  cyc = 21 * (rounds - left) + cycles /\ r = 2 * (rounds - left) + refreshes

Unindexed == Opcode \ (Displaced \cup Halves \cup Whole \cup {\hCB})

Register(b) == IF b = \hDD THEN "ix" ELSE "iy"

AtStep == pc = 0 /\ iz = "hl" /\ Spent(0, 0)
AtBase == \/ pc = 1 /\ op = stream[1] /\ iz = "hl" /\ Spent(0, 0)
          \/ /\ pc = 2 /\ op = stream[2] /\ stream[1] \in Prefix /\ iz = Register(stream[1])
             /\ op \in Unindexed /\ Spent(4, 1)
AtDdfd == pc = 2 /\ op = stream[2] /\ stream[1] \in Prefix /\ iz = Register(stream[1])
          /\ Spent(0, 1)
AtCb   == pc = 2 /\ op = stream[2] /\ stream[1] = \hCB /\ Spent(0, 1)
AtEd   == pc = 2 /\ op = stream[2] /\ stream[1] = \hED /\ iz = "hl" /\ Spent(0, 1)
AtDcb  == pc = 4 /\ op = stream[4] /\ stream[1] \in Prefix /\ stream[2] = \hCB /\ Spent(0, 2)

\* What the two readings of an instruction agree on in the end.
Agree == LET in == z80_decode(stream)
         IN  /\ in.length = pc
             /\ Emitted(in, flags, rounds).flow = flow
             /\ Emitted(in, flags, rounds).cyc = cyc
             /\ r = Refresh(in) * (IF Repeats THEN rounds ELSE 1)

ReadInv ==
  /\ Formed(stream)
  /\ rounds \in Nat \ {0} /\ left \in 1 .. rounds /\ (left # rounds => Repeats)
  /\ stage \in {"step", "base", "ddfd", "cb", "ed", "dcb", "done", "compiled"}
  /\ stage \in {"done", "compiled"} \/ flow = Next_insn
  /\ stage = "step" => AtStep
  /\ stage = "base" => AtBase
  /\ stage = "ddfd" => AtDdfd
  /\ stage = "cb" => AtCb
  /\ stage = "ed" => AtEd
  /\ stage = "dcb" => AtDcb
  /\ stage \in {"done", "compiled"} => Agree

\* How exec_opcode's opcodes are classified by the decoder, and their operands counted.
LEMMA Classified ==
  /\ \A o \in Opcode \ Control :
       /\ classify_base(o) = Plain /\ o # \h76 /\ o \in Ordinary
       /\ base_len[o + 1] = 1 + (CASE o \in ImmediateB -> 1 [] o \in ImmediateW -> 2 [] OTHER -> 0)
  /\ classify_base(\h76) = Plain /\ base_len[\h76 + 1] = 1
  /\ classify_base(\hC3) = Cf("jump", "nn") /\ base_len[\hC3 + 1] = 3
  /\ classify_base(\h18) = Cf("jump", "e") /\ base_len[\h18 + 1] = 2
  /\ classify_base(\hE9) = Cf("jump", "none") /\ base_len[\hE9 + 1] = 1
  /\ classify_base(\hCD) = Cf("call", "nn") /\ base_len[\hCD + 1] = 3
  /\ classify_base(\hC9) = Cf("ret", "none") /\ base_len[\hC9 + 1] = 1
  /\ classify_base(\h10) = Cf("jump_cond", "e") /\ base_len[\h10 + 1] = 2
  /\ \A o \in Rst : classify_base(o) = Cf("call", "rst") /\ base_len[o + 1] = 1
  /\ \A o \in CondJump : classify_base(o) = Cf("jump_cond", "nn") /\ base_len[o + 1] = 3
  /\ \A o \in CondJr : /\ classify_base(o) = Cf("jump_cond", "e") /\ base_len[o + 1] = 2
                       /\ Y(o) - 4 = Y(o) % 4
  /\ \A o \in CondCall : classify_base(o) = Cf("call_cond", "nn") /\ base_len[o + 1] = 3
  /\ \A o \in CondRet : classify_base(o) = Cf("ret_cond", "none") /\ base_len[o + 1] = 1
<1>1. /\ \A o \in Rst : X(o) = 3 /\ Z(o) = 7
      /\ \A o \in CondJump : X(o) = 3 /\ Z(o) = 2
      /\ \A o \in CondJr : Y(o) - 4 = Y(o) % 4 
      /\ \A o \in CondCall : X(o) = 3 /\ Z(o) = 4
      /\ \A o \in CondRet : X(o) = 3 /\ Z(o) = 0
  BY DEF Rst, CondJump, CondJr, CondCall, CondRet, X, Y, Z
<1>2. \A o \in Opcode : (X(o) = 3 /\ Z(o) \in {0, 2, 4, 7}) => o \in Control
  BY DEF Control, Rst, CondJump, CondJr, CondCall, CondRet, X, Z, Opcode
<1>3. \A o \in Opcode \ Control :
        base_len[o + 1] = 1 + (CASE o \in ImmediateB -> 1 [] o \in ImmediateW -> 2 [] OTHER -> 0)
  BY DEF base_len, Control, Rst, CondJump, CondJr, CondCall, CondRet, Opcode, ImmediateB, ImmediateW
<1>4. \A o \in Opcode \ Control : o \in Ordinary /\ o # \h76 /\ classify_base(o) = Plain
  BY <1>2 DEF Control, CondJr, Ordinary, classify_base
<1>5. QED
  BY <1>1, <1>3, <1>4 DEF classify_base, base_len, Rst, CondJump, CondJr, CondCall, CondRet, X, Z

\* What emit_cf makes of each kind of control flow.
LEMMA EmitsPlain ==
  ASSUME NEW in, NEW f, NEW n, in.prefix # "ed", cyc_base(in) \in Nat, in.cf = Plain
  PROVE  /\ in.is_halt = TRUE =>
              Emitted(in, f, n) = [flow |-> To("halt", "none"), cyc |-> cyc_base(in)]
         /\ in.is_halt = FALSE =>
              Emitted(in, f, n) = [flow |-> Next_insn, cyc |-> cyc_base(in)]
<1>1. TakenExtra(in) = 0
  BY DEF TakenExtra, Plain, Cf
<1>2. ASSUME in.is_halt = TRUE
      PROVE  Emitted(in, f, n) = [flow |-> To("halt", "none"), cyc |-> cyc_base(in)]
  BY <1>1, <1>2 DEF Emitted
<1>3. ASSUME in.is_halt = FALSE
      PROVE  Emitted(in, f, n) = [flow |-> Next_insn, cyc |-> cyc_base(in)]
  BY <1>1, <1>3 DEF Emitted, Plain, Cf
<1>4. QED BY <1>2, <1>3

\* An unconditional jump, call or return.
LEMMA EmitsAlways ==
  ASSUME NEW in, NEW f, NEW n, in.prefix # "ed", cyc_base(in) \in Nat, in.is_halt = FALSE,
         NEW k \in {"jump", "call", "ret"}, NEW t, in.cf = Cf(k, t), k = "jump" => t # "none"
  PROVE  Emitted(in, f, n) = [flow |-> To(k, t), cyc |-> cyc_base(in)]
BY DEF Emitted, Cf, TakenExtra, EmittedCondition

\* A jump through HL or an index register.
LEMMA EmitsIndex ==
  ASSUME NEW in, NEW f, NEW n, in.prefix # "ed", cyc_base(in) \in Nat, in.is_halt = FALSE,
         in.cf = Cf("jump", "none")
  PROVE  Emitted(in, f, n)
           = [flow |-> To("jump", CASE in.prefix = "dd" -> "ix" [] in.prefix = "fd" -> "iy"
                                    [] OTHER -> "hl"),
              cyc |-> cyc_base(in)]
BY DEF Emitted, Cf, TakenExtra, EmittedCondition

\* A conditional jump, call or return.
LEMMA EmitsIf ==
  ASSUME NEW in, NEW f, NEW n, in.prefix # "ed", cyc_base(in) \in Nat, in.is_halt = FALSE,
         NEW k, NEW c, NEW t, in.cf = Cf(c, t),
         \/ k = "jump" /\ c = "jump_cond" /\ t # "none"
         \/ k = "call" /\ c = "call_cond"
         \/ k = "ret" /\ c = "ret_cond"
  PROVE  Emitted(in, f, n)
           = [flow |-> IF EmittedCondition(in, f, n) THEN To(k, t) ELSE Next_insn,
              cyc |-> cyc_base(in)
                      + (IF EmittedCondition(in, f, n) THEN TakenExtra(in) ELSE 0)]
<1>1. TakenExtra(in) \in Nat
  BY DEF TakenExtra
<1>2. in.cf.cf = c /\ in.cf.target = t
  BY DEF Cf
<1>3. CASE EmittedCondition(in, f, n)
  BY <1>1, <1>2, <1>3 DEF Emitted
<1>4. CASE ~ EmittedCondition(in, f, n)
  BY <1>1, <1>2, <1>4 DEF Emitted
<1>5. QED BY <1>3, <1>4

\* A handler that returns leaves the invariant's last part to be shown.
LEMMA Finishes ==
  ASSUME ReadInv, UNCHANGED <<inputs, left>>, stage' \in {"done", "compiled"}, Agree'
  PROVE  ReadInv'
<1>1. Repeats' = Repeats
  BY DEF inputs, Repeats
<1>2. QED BY <1>1 DEF ReadInv, inputs

\* What the decoder makes of an opcode that reached exec_opcode, prefixed or not.
AsBase(in) ==
  /\ in.opcode = op /\ in.cf = classify_base(op)
  /\ in.is_halt = (op = \h76)
  /\ in.length = pc - 1 + base_len[op + 1] /\ pc \in Nat
  /\ cyc_base(in) = cyc + cyc_00[op + 1] /\ cyc \in Nat
  /\ in.prefix # "ed" /\ ~ Repeats /\ r + 1 = Refresh(in)
  /\ in.prefix = "none" \/ op \notin Unread \cup {\hE9}
  /\ in.prefix = "none" => iz = "hl"

\* An opcode that exec_opcode_ddfd leaves alone takes no displacement.
LEMMA Unindexable == \A o \in Unindexed : ~ op_uses_hl_mem(o) /\ o # \h36 /\ o # \hE9 /\ o \in Opcode
<1>1. \A o \in Opcode \ Displaced : o # \h76 => ~ (X(o) \in {1, 2} /\ Z(o) = 6)
  BY DEF Displaced, X, Z, Opcode
<1>2. \A o \in Opcode \ Displaced : o # \h76 => o \notin {\h34, \h35, \h36} \cup (\h70 .. \h77)
  BY DEF Displaced, Opcode
<1>3. QED BY <1>1, <1>2 DEF Unindexed, op_uses_hl_mem, Whole

\* What exec_opcode is called with is what the decoder read, prefixed or not.
LEMMA BaseRead ==
  ASSUME ReadInv, stage = "base", op \in Ordinary
  PROVE  AsBase(z80_decode(stream))
<1>1. /\ Len(stream) \in Nat /\ Len(stream) >= 4 /\ rounds \in Nat /\ left \in Nat
      /\ (left # rounds => Repeats) /\ AtBase
  BY DEF ReadInv, Formed
<1>2. base_len[op + 1] \in 1 .. 3 /\ base_cyc = cyc_00 /\ cyc_00[op + 1] \in Nat /\ op \in Opcode
  BY Tables DEF Ordinary
<1>3. ~ Repeats /\ left = rounds
  BY <1>1 DEF Repeats, AtBase, Ordinary, Prefix
<1> DEFINE in == z80_decode(stream)
<1>4. CASE pc = 1
  <2>1. op = stream[1] /\ iz = "hl" /\ cyc = 0 /\ r = 0
    BY <1>1, <1>3, <1>4 DEF AtBase, Spent
  <2>2. in = Insn("none", op, FALSE, base_len[op + 1], classify_base(op), op = \h76)
    BY <1>1, <2>1, Decoded
  <2>3. /\ in.prefix = "none" /\ in.opcode = op /\ in.cf = classify_base(op)
        /\ in.is_halt = (op = \h76) /\ in.length = base_len[op + 1]
    <3> HIDE DEF in
    <3>1. QED BY <1>2, <2>2 DEF Insn
  <2> HIDE DEF in
  <2>4. cyc_base(in) = cyc_00[op + 1] /\ Refresh(in) = 1
    BY <1>2, <2>3 DEF cyc_base, Refresh
  <2>5. /\ in.length = pc - 1 + base_len[op + 1] /\ pc \in Nat
        /\ cyc_base(in) = cyc + cyc_00[op + 1] /\ cyc \in Nat
        /\ in.prefix # "ed" /\ r + 1 = Refresh(in)
    BY <1>2, <1>4, <2>1, <2>3, <2>4
  <2>6. AsBase(in)
    BY <1>3, <2>1, <2>3, <2>5, Zenon DEF AsBase
  <2>7. QED BY <2>6 DEF in
<1>5. CASE pc # 1
  <2>1. /\ pc = 2 /\ op = stream[2] /\ stream[1] \in Prefix /\ op \in Unindexed
        /\ cyc = 4 /\ r = 1
    BY <1>1, <1>3, <1>5 DEF AtBase, Spent
  <2>2. op \notin Unread
    BY <2>1 DEF ReadInv, Formed, Ordinary, Prefix, Unindexed
  <2>3. op_uses_hl_mem(op) = FALSE /\ Displacement(op) = 0 /\ op # \h36 /\ op # \hE9
    <3>1. op_uses_hl_mem(op) \in BOOLEAN
      BY DEF op_uses_hl_mem
    <3>2. QED BY <2>1, <3>1, Unindexable DEF Displacement
  <2>4. in = Insn(PrefixName(stream[1]), op, op_uses_hl_mem(op),
                  1 + Displacement(op) + base_len[op + 1], classify_base(op), FALSE)
    BY <1>1, <2>1, Decoded
  <2>5. in = Insn(PrefixName(stream[1]), op, FALSE, 1 + 0 + base_len[op + 1],
                  classify_base(op), FALSE)
    BY <2>3, <2>4, Zenon
  <2> HIDE DEF in
  <2>6. /\ in.prefix \in {"dd", "fd"} /\ in.opcode = op /\ in.cf = classify_base(op)
        /\ in.is_halt = FALSE /\ in.length = 1 + base_len[op + 1] /\ in.uses_disp = FALSE
    BY <1>2, <2>5 DEF Insn, PrefixName
  <2>7. cyc_base(in) = cyc_00[op + 1] + 4 /\ Refresh(in) = 2
    BY <1>2, <2>3, <2>6 DEF cyc_base, Refresh
  <2>8. in.is_halt = (op = \h76)
    BY <2>2, <2>6 DEF Unread
  <2>9. /\ in.length = pc - 1 + base_len[op + 1] /\ pc \in Nat
        /\ cyc_base(in) = cyc + cyc_00[op + 1] /\ cyc \in Nat
        /\ in.prefix # "ed" /\ r + 1 = Refresh(in) /\ in.prefix # "none"
        /\ op \notin Unread \cup {\hE9}
    BY <1>2, <2>1, <2>2, <2>3, <2>6, <2>7
  <2>10. AsBase(in)
    BY <1>3, <2>6, <2>8, <2>9, Zenon DEF AsBase
  <2>11. QED BY <2>10 DEF in
<1>6. QED BY <1>4, <1>5

\* The case of an opcode that exec_opcode returns from.
LEMMA BaseAgrees ==
  ASSUME ReadInv, NEW ops, NEW extra \in Nat, NEW operands \in Nat, NEW to,
         ops \subseteq Ordinary, Base(ops, extra), Return(operands, to),
         base_len[op + 1] = 1 + operands,
         AsBase(z80_decode(stream)) =>
           Emitted(z80_decode(stream), flags, rounds)
             = [flow |-> to, cyc |-> cyc_base(z80_decode(stream)) + extra]
  PROVE  ReadInv'
<1> DEFINE in == z80_decode(stream)
<1>1. stage = "base" /\ op \in Ordinary
  BY DEF Base
<1>2. AsBase(in)
  BY <1>1, BaseRead
<1>3. /\ cyc' = cyc + (cyc_00[op + 1] + extra) /\ r' = r + 1
      /\ pc' = pc + operands /\ flow' = to /\ stage' = "done"
      /\ UNCHANGED inputs /\ left' = left
  BY DEF Base, Counts, Return
<1>4. /\ stream' = stream /\ flags' = flags /\ rounds' = rounds /\ Repeats' = Repeats
      /\ z80_decode(stream)' = in
  BY <1>3 DEF inputs, Repeats
<1>5. cyc_00[op + 1] \in Nat
  BY <1>1, Tables DEF Ordinary
<1> DEFINE e == Emitted(in, flags, rounds)
<1>6. e = [flow |-> to, cyc |-> cyc_base(in) + extra]
  BY <1>2
<1>7. Emitted(in, flags, rounds)' = e
  BY <1>4
<1> HIDE DEF in, e
<1>8. e.flow = flow' /\ e.cyc = cyc'
  BY <1>2, <1>3, <1>5, <1>6 DEF AsBase
<1>9. in.length = pc' /\ r' = Refresh(in) /\ ~ Repeats /\ Refresh(in) \in Nat
  BY <1>2, <1>3 DEF AsBase, Refresh
<1>10. Agree'
  BY <1>4, <1>7, <1>8, <1>9 DEF Agree, in, e
<1>11. QED BY <1>3, <1>10, Finishes

\* Every opcode of exec_opcode that is no prefix.
LEMMA BaseSteps ==
  ASSUME ReadInv,
         Straight \/ Halt \/ jump \/ jr \/ jp_hl \/ call \/ rst \/ ret
         \/ cond_jump \/ cond_jr \/ djnz \/ cond_call \/ cond_ret
  PROVE  ReadInv'
<1> DEFINE in == z80_decode(stream)
           e  == Emitted(in, flags, rounds)
           taken == EmittedCondition(in, flags, rounds)
<1>i. /\ {\h76, \hC3, \h18, \hE9, \hCD, \hC9, \h10} \subseteq Ordinary
      /\ Rst \subseteq Ordinary /\ CondJump \subseteq Ordinary /\ CondJr \subseteq Ordinary
      /\ CondCall \subseteq Ordinary /\ CondRet \subseteq Ordinary
      /\ Opcode \ Control \subseteq Ordinary
  BY Classified DEF Ordinary, Opcode, Rst, CondJump, CondJr, CondCall, CondRet
<1>c. AsBase(in) => cyc_base(in) \in Nat /\ in.prefix # "ed"
  <2>1. op \in Opcode \/ ~ (stage = "base")
    BY DEF ReadInv, AtBase, Formed, Unindexed
  <2>2. op \in Opcode => cyc_00[op + 1] \in Nat
    BY Tables
  <2>3. stage = "base"
    BY DEF Straight, Halt, jump, jr, jp_hl, call, rst, ret, cond_jump, cond_jr, djnz,
           cond_call, cond_ret, Conditional, Base
  <2>4. QED BY <2>1, <2>2, <2>3 DEF AsBase
<1>1. CASE Straight
  <2> DEFINE operands == CASE op \in ImmediateB -> 1 [] op \in ImmediateW -> 2 [] OTHER -> 0
  <2>1. Base(Opcode \ Control, 0) /\ Return(operands, Next_insn) /\ op \in Opcode \ Control
    BY <1>1 DEF Straight, Base
  <2>2. /\ classify_base(op) = Plain /\ op # \h76 /\ base_len[op + 1] = 1 + operands
        /\ operands \in Nat
    BY <2>1, Classified
  <2>3. AsBase(in) => in.is_halt = FALSE /\ in.cf = Plain
    BY <2>2 DEF AsBase
  <2>4. AsBase(in) => e = [flow |-> Next_insn, cyc |-> cyc_base(in)]
    BY <1>c, <2>3, EmitsPlain
  <2>5. AsBase(in) => e = [flow |-> Next_insn, cyc |-> cyc_base(in) + 0]
    BY <1>c, <2>4
  <2> HIDE DEF operands
  <2>6. QED BY <1>i, <2>1, <2>2, <2>5, BaseAgrees
<1>2. CASE Halt
  <2>1. Base({\h76}, 0) /\ Return(0, To("halt", "none")) /\ op = \h76
    BY <1>2 DEF Halt, Base
  <2>2. AsBase(in) => in.is_halt = TRUE /\ in.cf = Plain
    BY <2>1, Classified DEF AsBase
  <2>3. AsBase(in) => e = [flow |-> To("halt", "none"), cyc |-> cyc_base(in)]
    BY <1>c, <2>2, EmitsPlain
  <2>4. AsBase(in) => e = [flow |-> To("halt", "none"), cyc |-> cyc_base(in) + 0]
    BY <1>c, <2>3
  <2>5. base_len[op + 1] = 1 + 0
    BY <2>1, Classified
  <2>6. QED BY <1>i, <2>1, <2>4, <2>5, BaseAgrees
<1>3. ASSUME NEW ops, NEW operands \in 0 .. 2, NEW k \in {"jump", "call", "ret"},
             NEW t \in {"e", "nn", "rst", "none"}, ops \subseteq Ordinary, \h76 \notin ops,
             Base(ops, 0), Return(operands, To(k, t)),
             classify_base(op) = Cf(k, t), k = "jump" => t # "none",
             base_len[op + 1] = 1 + operands
      PROVE  ReadInv'
  <2>1. op \in ops
    BY <1>3 DEF Base
  <2>2. AsBase(in) => in.is_halt = FALSE /\ in.cf = Cf(k, t)
    BY <1>3, <2>1 DEF AsBase
  <2>4. ASSUME AsBase(in) PROVE e = [flow |-> To(k, t), cyc |-> cyc_base(in) + 0]
    <3>1. in.is_halt = FALSE /\ in.cf = Cf(k, t) /\ cyc_base(in) \in Nat /\ in.prefix # "ed"
      BY <2>2, <2>4, <1>c
    <3> HIDE DEF in
    <3>2. k = "jump" => t # "none"
      BY <1>3
    <3>3. Emitted(in, flags, rounds) = [flow |-> To(k, t), cyc |-> cyc_base(in)]
      BY <3>1, <3>2, EmitsAlways
    <3>4. QED BY <3>1, <3>3
  <2>5. operands \in Nat /\ 0 \in Nat
    OBVIOUS
  <2>6. QED BY <1>3, <2>4, <2>5, BaseAgrees
<1>4. CASE jump
  <2>1. Base({\hC3}, 0) /\ Return(2, To("jump", "nn")) /\ op = \hC3
    BY <1>4 DEF jump, Base
  <2>2. QED BY <2>1, <1>i, <1>3, Classified
<1>5. CASE jr
  <2>1. Base({\h18}, 0) /\ Return(1, To("jump", "e")) /\ op = \h18
    BY <1>5 DEF jr, Base
  <2>2. QED BY <2>1, <1>i, <1>3, Classified
<1>6. CASE jp_hl
  <2>1. Base({\hE9}, 0) /\ Return(0, To("jump", "hl")) /\ op = \hE9
    BY <1>6 DEF jp_hl, Base
  <2>b. classify_base(op) = Cf("jump", "none") /\ op # \h76
    BY <2>1, Classified
  <2>2. AsBase(in) => in.is_halt = FALSE /\ in.cf = Cf("jump", "none")
    BY <2>b DEF AsBase
  <2>p. AsBase(in) => in.prefix = "none"
    BY <2>1 DEF AsBase
  <2>3. AsBase(in) => e = [flow |-> To("jump", "hl"), cyc |-> cyc_base(in)]
    BY <1>c, <2>2, <2>p, EmitsIndex
  <2>4. AsBase(in) => e = [flow |-> To("jump", "hl"), cyc |-> cyc_base(in) + 0]
    BY <1>c, <2>3
  <2>5. base_len[op + 1] = 1 + 0
    BY <2>1, Classified
  <2>6. QED BY <1>i, <2>1, <2>4, <2>5, BaseAgrees
<1>7. CASE call
  <2>1. Base({\hCD}, 0) /\ Return(2, To("call", "nn")) /\ op = \hCD
    BY <1>7 DEF call, Base
  <2>2. QED BY <2>1, <1>i, <1>3, Classified
<1>8. CASE rst
  <2>1. Base(Rst, 0) /\ Return(0, To("call", "rst")) /\ op \in Rst /\ \h76 \notin Rst
    BY <1>8 DEF rst, Base, Rst
  <2>2. QED BY <2>1, <1>i, <1>3, Classified
<1>9. CASE ret
  <2>1. Base({\hC9}, 0) /\ Return(0, To("ret", "none")) /\ op = \hC9
    BY <1>9 DEF ret, Base
  <2>2. QED BY <2>1, <1>i, <1>3, Classified
<1>10. ASSUME NEW ops, NEW operands \in 0 .. 2, NEW k \in {"jump", "call", "ret"},
              NEW c \in {"jump_cond", "call_cond", "ret_cond"},
              NEW t \in {"e", "nn", "none"}, NEW holds, NEW extra \in Nat,
              ops \subseteq Ordinary, \h76 \notin ops,
              Conditional(ops, holds, extra, operands, To(k, t)),
              classify_base(op) = Cf(c, t), base_len[op + 1] = 1 + operands,
              \/ k = "jump" /\ c = "jump_cond" /\ t # "none"
              \/ k = "call" /\ c = "call_cond"
              \/ k = "ret" /\ c = "ret_cond",
              AsBase(in) => (taken <=> holds) /\ TakenExtra(in) = extra
       PROVE  ReadInv'
  <2> DEFINE to == IF holds THEN To(k, t) ELSE Next_insn
             more == IF holds THEN extra ELSE 0
  <2>1. op \in ops /\ Base(ops, more) /\ Return(operands, to)
    BY <1>10 DEF Conditional, Base
  <2>2. AsBase(in) => in.is_halt = FALSE /\ in.cf = Cf(c, t)
    BY <1>10, <2>1 DEF AsBase
  <2>3. ASSUME AsBase(in) PROVE e = [flow |-> to, cyc |-> cyc_base(in) + more]
    <3>1. in.is_halt = FALSE /\ in.cf = Cf(c, t) /\ cyc_base(in) \in Nat /\ in.prefix # "ed"
          /\ (taken <=> holds) /\ TakenExtra(in) = extra
      BY <2>2, <2>3, <1>c, <1>10
    <3> HIDE DEF in
    <3>2. \/ k = "jump" /\ c = "jump_cond" /\ t # "none"
          \/ k = "call" /\ c = "call_cond"
          \/ k = "ret" /\ c = "ret_cond"
      BY <1>10
    <3>3. /\ EmittedCondition(in, flags, rounds) <=> holds
          /\ in.is_halt = FALSE /\ in.cf = Cf(c, t) /\ cyc_base(in) \in Nat /\ in.prefix # "ed"
      BY <3>1
    <3>4. Emitted(in, flags, rounds)
            = [flow |-> IF EmittedCondition(in, flags, rounds) THEN To(k, t) ELSE Next_insn,
               cyc |-> cyc_base(in)
                       + (IF EmittedCondition(in, flags, rounds) THEN TakenExtra(in) ELSE 0)]
      <4> HIDE DEF to, more, taken, e
      <4>1. QED BY <3>2, <3>3, EmitsIf
    <3>5. QED BY <3>1, <3>3, <3>4
  <2>5. operands \in Nat /\ more \in Nat
    BY <1>10
  <2> HIDE DEF to, more
  <2>6. QED BY <1>10, <2>1, <2>3, <2>5, BaseAgrees
<1>b. rounds \in Nat \ {0}
  BY DEF ReadInv
<1>11. CASE cond_jump
  <2>1. /\ Conditional(CondJump, Holds(Y(op), flags), 0, 2, To("jump", "nn"))
        /\ op \in CondJump /\ \h76 \notin CondJump
    BY <1>11 DEF cond_jump, Conditional, Base, CondJump
  <2>2. AsBase(in) => (taken <=> Holds(Y(op), flags)) /\ TakenExtra(in) = 0
    BY <2>1, Classified DEF EmittedCondition, TakenExtra, AsBase, Cf
  <2>3. QED BY <1>i, <2>1, <2>2, <1>10, Classified
<1>12. CASE cond_jr
  <2>1. /\ Conditional(CondJr, Holds(Y(op) - 4, flags), 5, 1, To("jump", "e"))
        /\ op \in CondJr /\ \h76 \notin CondJr
    BY <1>12 DEF cond_jr, Conditional, Base, CondJr
  <2>2. Holds(Y(op) - 4, flags) = Holds(Y(op) % 4, flags) /\ op # \h10 /\ op \in Unread
    BY <1>b, <2>1, Classified DEF CondJr, Unread
  <2>3. AsBase(in) => (taken <=> Holds(Y(op) - 4, flags)) /\ TakenExtra(in) = 5
    BY <2>1, <2>2, Classified DEF EmittedCondition, TakenExtra, AsBase, Cf
  <2>4. QED BY <1>i, <2>1, <2>3, <1>10, Classified
<1>13. CASE djnz
  <2>1. /\ Conditional({\h10}, rounds - 1 # 0, 5, 1, To("jump", "e")) /\ op = \h10
        /\ op \in Unread
    BY <1>13 DEF djnz, Conditional, Base, Unread
  <2>2. AsBase(in) => (taken <=> (rounds - 1 # 0)) /\ TakenExtra(in) = 5
    BY <1>b, <2>1, Classified DEF EmittedCondition, TakenExtra, AsBase, Cf
  <2> DEFINE holds == rounds - 1 # 0
  <2>3. \h76 \notin {\h10} /\ {\h10} \subseteq Ordinary
    BY <1>i
  <2>4. classify_base(op) = Cf("jump_cond", "e") /\ base_len[op + 1] = 1 + 1
    BY <2>1, Classified
  <2> HIDE DEF holds
  <2>5. /\ Conditional({\h10}, holds, 5, 1, To("jump", "e"))
        /\ AsBase(in) => (taken <=> holds) /\ TakenExtra(in) = 5
    BY <2>1, <2>2 DEF holds
  <2>6. QED BY <2>3, <2>4, <2>5, <1>10
<1>14. CASE cond_call
  <2>1. /\ Conditional(CondCall, Holds(Y(op), flags), 7, 2, To("call", "nn"))
        /\ op \in CondCall /\ \h76 \notin CondCall
    BY <1>14 DEF cond_call, Conditional, Base, CondCall
  <2>2. AsBase(in) => (taken <=> Holds(Y(op), flags)) /\ TakenExtra(in) = 7
    BY <2>1, Classified DEF EmittedCondition, TakenExtra, AsBase, Cf
  <2>3. QED BY <1>i, <2>1, <2>2, <1>10, Classified
<1>15. CASE cond_ret
  <2>1. /\ Conditional(CondRet, Holds(Y(op), flags), 6, 0, To("ret", "none"))
        /\ op \in CondRet /\ \h76 \notin CondRet
    BY <1>15 DEF cond_ret, Conditional, Base, CondRet
  <2>2. AsBase(in) => (taken <=> Holds(Y(op), flags)) /\ TakenExtra(in) = 6
    BY <2>1, Classified DEF EmittedCondition, TakenExtra, AsBase, Cf
  <2>3. QED BY <1>i, <2>1, <2>2, <1>10, Classified
<1>16. QED BY <1>1, <1>2, <1>4, <1>5, <1>6, <1>7, <1>8, <1>9, <1>11, <1>12, <1>13, <1>14, <1>15

\* A prefix costs nothing by itself.
LEMMA PrefixFacts ==
  /\ {\hCB, \hED, \hDD, \hFD} \cap Ordinary = {}
  /\ \A o \in {\hCB, \hED, \hDD, \hFD} : cyc_00[o + 1] = 0
BY DEF Ordinary, cyc_00

\* The bytes before the last opcode.
LEMMA FetchSteps ==
  ASSUME ReadInv, z80_step \/ PrefixByte
  PROVE  ReadInv'
<1>f. /\ Formed(stream) /\ Len(stream) \in Nat /\ Len(stream) >= 4 /\ stream \in Seq(Opcode)
      /\ rounds \in Nat /\ left \in Nat
  BY DEF ReadInv, Formed
<1>1. CASE z80_step
  <2>1. /\ stage = "step" /\ AtStep /\ flow = Next_insn
        /\ op' = stream[pc + 0 + 1] /\ pc' = pc + 0 + 1 /\ stage' = "base"
        /\ UNCHANGED <<inputs, left, flow, iz, cyc, r>>
    BY <1>1 DEF z80_step, NextOpcode, ReadInv
  <2>2. pc' = 1 /\ op' = stream[1]
    BY <2>1 DEF AtStep
  <2>3. AtBase'
    BY <2>1, <2>2 DEF AtStep, AtBase, Spent, inputs
  <2>4. Repeats' = Repeats
    BY <2>1 DEF Repeats, inputs
  <2>5. QED BY <2>1, <2>3, <2>4 DEF ReadInv, inputs
<1>2. CASE PrefixByte
  <2> DEFINE handler == CASE op = \hCB -> "cb" [] op = \hED -> "ed" [] OTHER -> "ddfd"
  <2>1. /\ stage = "base" /\ op \in {\hCB, \hED, \hDD, \hFD} /\ AtBase /\ flow = Next_insn
        /\ cyc' = cyc + (cyc_00[op + 1] + 0) /\ r' = r + 1
        /\ op' = stream[pc + 0 + 1] /\ pc' = pc + 0 + 1 /\ stage' = handler
        /\ UNCHANGED <<inputs, left, flow>>
        /\ iz' = CASE op = \hDD -> "ix" [] op = \hFD -> "iy" [] OTHER -> iz
    BY <1>2 DEF PrefixByte, Base, Counts, NextOpcode, ReadInv
  <2>2. pc = 1 /\ op = stream[1] /\ iz = "hl" /\ Spent(0, 0)
    <3>1. CASE pc = 1
      BY <2>1, <3>1 DEF AtBase
    <3>2. CASE pc # 1
      <4>1. op = stream[2] /\ stream[1] \in Prefix /\ op \in Unindexed
        BY <2>1, <3>2 DEF AtBase
      <4>2. op \in Ordinary
        BY <1>f, <4>1 DEF Formed, Ordinary, Prefix, Unindexed
      <4>3. QED BY <2>1, <4>2, PrefixFacts
    <3>3. QED BY <3>1, <3>2
  <2>3. pc' = 2 /\ op' = stream[2] /\ Spent(0, 1)'
    <3>1. cyc_00[op + 1] = 0
      BY <2>1, PrefixFacts
    <3>2. QED BY <1>f, <2>1, <2>2, <3>1 DEF Spent, inputs
  <2>4. Repeats' = Repeats
    BY <2>1 DEF Repeats, inputs
  <2>5. /\ handler = "cb" => AtCb'
        /\ handler = "ed" => AtEd'
        /\ handler = "ddfd" => AtDdfd'
    BY <2>1, <2>2, <2>3 DEF AtCb, AtEd, AtDdfd, Prefix, Register, inputs
  <2>6. handler \in {"cb", "ed", "ddfd"}
    OBVIOUS
  <2> HIDE DEF handler
  <2>7. QED BY <2>1, <2>4, <2>5, <2>6 DEF ReadInv, inputs
<1>3. QED BY <1>1, <1>2

\* The opcodes of exec_opcode_ddfd: their operands and cycles are the decoder's and
\* the generator's.
LEMMA IndexedFacts ==
  /\ \A o \in Displaced \cup Halves \cup Whole :
       /\ o \in Opcode /\ o # \hCB
       /\ 1 + Displacement(o) + base_len[o + 1]
            = 2 + (CASE o \in {\h21, \h22, \h2A, \h36} -> 2
                     [] o \in (Displaced \ {\h36}) \cup {\h26, \h2E} -> 1
                     [] OTHER -> 0)
       /\ cyc_ddfd(o) = IF o = \h36 THEN 19
                        ELSE base_cyc[o + 1] + 4 + (IF op_uses_hl_mem(o) THEN 8 ELSE 0)
       /\ o # \hE9 => classify_base(o) = Plain
  /\ classify_base(\hE9) = Cf("jump", "none")
  /\ \A o \in Unindexed : cyc_ddfd(o) = 4
  /\ cyc_ddfd(\hCB) = 0
<1> DEFINE All == Displaced \cup Halves \cup Whole
<1>1. \A o \in All : /\ o \in Opcode /\ o # \hCB
                     /\ op_uses_hl_mem(o) <=> o \in Displaced
  BY DEF Displaced, Halves, Whole, op_uses_hl_mem, X, Z, Opcode
<1>2. \A o \in All : (IF o \in Displaced THEN 1 ELSE 0) + base_len[o + 1]
            = 1 + (CASE o \in {\h21, \h22, \h2A, \h36} -> 2
                     [] o \in (Displaced \ {\h36}) \cup {\h26, \h2E} -> 1
                     [] OTHER -> 0)
  BY DEF Displaced, Halves, Whole, base_len
<1>3. \A o \in All : cyc_ddfd(o) = IF o = \h36 THEN 19
                        ELSE base_cyc[o + 1] + 4 + (IF o \in Displaced THEN 8 ELSE 0)
  BY DEF Displaced, Halves, Whole, base_cyc, cyc_ddfd
<1>4. \A o \in All : o # \hE9 => classify_base(o) = Plain
  BY DEF Displaced, Halves, Whole, classify_base, X, Z
<1>5. classify_base(\hE9) = Cf("jump", "none")
  BY Classified
<1>6. \A o \in Unindexed : cyc_ddfd(o) = 4
  BY DEF Unindexed, Displaced, Halves, Whole, cyc_ddfd, Opcode
<1>7. cyc_ddfd(\hCB) = 0
  BY DEF Displaced, Halves, cyc_ddfd
<1>8. \A o \in Opcode : base_len[o + 1] \in Nat
  BY Tables
<1>9. \A o \in All : 1 + Displacement(o) + base_len[o + 1]
            = 2 + (CASE o \in {\h21, \h22, \h2A, \h36} -> 2
                     [] o \in (Displaced \ {\h36}) \cup {\h26, \h2E} -> 1
                     [] OTHER -> 0)
  <2>1. \A o \in All : Displacement(o) = IF o \in Displaced THEN 1 ELSE 0
    BY <1>1 DEF Displacement
  <2> HIDE DEF All
  <2>2. QED BY <1>1, <1>2, <1>8, <2>1
<1>10. \A o \in All : cyc_ddfd(o) = IF o = \h36 THEN 19
                        ELSE base_cyc[o + 1] + 4 + (IF op_uses_hl_mem(o) THEN 8 ELSE 0)
  <2> HIDE DEF All
  <2>1. QED BY <1>1, <1>3
<1>11. QED BY <1>1, <1>4, <1>5, <1>6, <1>7, <1>9, <1>10

\* exec_opcode_ddfd.
LEMMA IndexedSteps ==
  ASSUME ReadInv, ddfd_indexed \/ ddfd_cb \/ ddfd_other
  PROVE  ReadInv'
<1> DEFINE in == z80_decode(stream)
           e  == Emitted(in, flags, rounds)
<1>1. /\ stage = "ddfd" /\ AtDdfd /\ flow = Next_insn /\ Formed(stream)
      /\ Len(stream) \in Nat /\ Len(stream) >= 4
  BY DEF ddfd_indexed, ddfd_cb, ddfd_other, Indexed, ReadInv, Formed
<1>2. /\ pc = 2 /\ op = stream[2] /\ stream[1] \in Prefix /\ iz = Register(stream[1])
      /\ op = \hCB \/ op \in Ordinary \ Unread
      /\ ~ Repeats /\ left = rounds /\ cyc = 0 /\ r = 1 /\ rounds \in Nat
  <2>1. ~ Repeats
    BY <1>1 DEF AtDdfd, Repeats, Prefix
  <2>2. left = rounds /\ rounds \in Nat
    BY <2>1 DEF ReadInv
  <2>3. QED BY <1>1, <2>1, <2>2 DEF AtDdfd, Spent, Formed, Ordinary, Prefix
<1>3. CASE ddfd_indexed
  <2> DEFINE operands == CASE op \in {\h21, \h22, \h2A, \h36} -> 2
                           [] op \in (Displaced \ {\h36}) \cup {\h26, \h2E} -> 1
                           [] OTHER -> 0
             to == IF op = \hE9 THEN To("jump", iz) ELSE Next_insn
  <2>1. /\ op \in Displaced \cup Halves \cup Whole
        /\ cyc' = cyc + cyc_ddfd(op) /\ r' = r + 1
        /\ pc' = pc + operands /\ flow' = to /\ stage' = "done"
        /\ UNCHANGED <<inputs, left>>
    BY <1>3 DEF ddfd_indexed, Indexed, Counts, Return
  <2>2. /\ op \in Ordinary /\ op \notin Unread /\ op \in Opcode /\ operands \in Nat
        /\ 1 + Displacement(op) + base_len[op + 1] = 2 + operands
        /\ cyc_ddfd(op) = IF op = \h36 THEN 19
                          ELSE base_cyc[op + 1] + 4 + (IF op_uses_hl_mem(op) THEN 8 ELSE 0)
        /\ op # \hE9 => classify_base(op) = Plain
        /\ op = \hE9 => classify_base(op) = Cf("jump", "none")
        /\ base_cyc[op + 1] \in Nat /\ operands <= 2
    BY <1>2, <2>1, IndexedFacts, Tables
  <2>3. in = Insn(PrefixName(stream[1]), op, op_uses_hl_mem(op),
                  1 + Displacement(op) + base_len[op + 1], classify_base(op), FALSE)
    BY <1>1, <1>2, <2>2, Decoded
  <2>4. in = Insn(PrefixName(stream[1]), op, op_uses_hl_mem(op), 2 + operands,
                  classify_base(op), FALSE)
    BY <2>2, <2>3, Zenon
  <2> HIDE DEF in, operands
  <2>5. /\ in.prefix = PrefixName(stream[1]) /\ in.opcode = op /\ in.cf = classify_base(op)
        /\ in.is_halt = FALSE /\ in.length = 2 + operands
        /\ in.uses_disp = op_uses_hl_mem(op)
    BY <2>2, <2>4 DEF Insn
  <2>6. in.prefix \in {"dd", "fd"}
    BY <2>5 DEF PrefixName
  <2>7. cyc_base(in) = cyc_ddfd(op) /\ cyc_base(in) \in Nat /\ Refresh(in) = 2
    BY <2>2, <2>5, <2>6 DEF cyc_base, Refresh
  <2>8. e = [flow |-> to, cyc |-> cyc_base(in)]
    <3>1. CASE op = \hE9
      <4>1. in.cf = Cf("jump", "none") /\ in.prefix # "ed" /\ in.is_halt = FALSE
        BY <2>2, <2>5, <2>6, <3>1
      <4>2. Emitted(in, flags, rounds)
              = [flow |-> To("jump", CASE in.prefix = "dd" -> "ix" [] in.prefix = "fd" -> "iy"
                                       [] OTHER -> "hl"),
                 cyc |-> cyc_base(in)]
        BY <2>7, <4>1, EmitsIndex
      <4>3. (CASE in.prefix = "dd" -> "ix" [] in.prefix = "fd" -> "iy" [] OTHER -> "hl") = iz
        BY <1>2, <2>5 DEF PrefixName, Register
      <4>4. QED BY <3>1, <4>2, <4>3
    <3>2. CASE op # \hE9
      <4>1. in.cf = Plain /\ in.prefix # "ed" /\ in.is_halt = FALSE
        BY <2>2, <2>5, <2>6, <3>2
      <4>2. Emitted(in, flags, rounds) = [flow |-> Next_insn, cyc |-> cyc_base(in)]
        BY <2>7, <4>1, EmitsPlain
      <4>3. QED BY <3>2, <4>2
    <3>3. QED BY <3>1, <3>2
  <2> HIDE DEF e, to
  <2>9. e.flow = flow' /\ e.cyc = cyc' /\ in.length = pc' /\ r' = Refresh(in) * 1
    BY <1>2, <2>1, <2>5, <2>7, <2>8
  <2>10. /\ stream' = stream /\ flags' = flags /\ rounds' = rounds /\ Repeats' = Repeats
    BY <2>1 DEF inputs, Repeats
  <2>11. Agree'
    BY <1>2, <2>9, <2>10 DEF Agree, in, e
  <2>12. QED BY <2>1, <2>11, Finishes
<1>4. CASE ddfd_cb
  <2>1. /\ op = \hCB /\ cyc' = cyc + cyc_ddfd(op) /\ r' = r + 1
        /\ op' = stream[pc + 1 + 1] /\ pc' = pc + 1 + 1 /\ stage' = "dcb"
        /\ UNCHANGED <<inputs, left, flow>>
    BY <1>4 DEF ddfd_cb, Indexed, Counts, NextOpcode
  <2>2. cyc' = 0 /\ r' = 2 /\ pc' = 4 /\ op' = stream[4]
    BY <1>2, <2>1, IndexedFacts
  <2>3. stream' = stream /\ stream'[1] \in Prefix /\ stream'[2] = \hCB
        /\ rounds' - left' = 0
    <3>1. stream' = stream /\ rounds' = rounds /\ left' = left
      BY <2>1 DEF inputs
    <3>2. stream[1] \in Prefix /\ stream[2] = \hCB /\ rounds = left /\ rounds \in Nat
      BY <1>2, <2>1
    <3>3. QED BY <3>1, <3>2
  <2>e. AtDcb'
    BY <2>2, <2>3 DEF AtDcb, Spent
  <2>4. QED BY <1>1, <1>2, <2>1, <2>3, <2>e DEF ReadInv, inputs
<1>5. CASE ddfd_other
  <2>1. /\ op \in Unindexed /\ cyc' = cyc + cyc_ddfd(op) /\ r' = r + (1 - 1)
        /\ stage' = "base" /\ UNCHANGED <<inputs, left, op, iz, pc, flow>>
    BY <1>5 DEF ddfd_other, Indexed, Counts, Unindexed
  <2>2. cyc' = 4 /\ r' = 1
    BY <1>2, <2>1, IndexedFacts
  <2>3. AtBase'
    BY <1>2, <2>1, <2>2 DEF AtBase, Spent, inputs
  <2>4. QED BY <1>1, <1>2, <2>1, <2>3 DEF ReadInv, inputs
<1>6. QED BY <1>3, <1>4, <1>5

\* exec_opcode_cb and exec_opcode_dcb.
LEMMA CbSteps ==
  ASSUME ReadInv, exec_opcode_cb \/ exec_opcode_dcb
  PROVE  ReadInv'
<1> DEFINE in == z80_decode(stream)
           e  == Emitted(in, flags, rounds)
<1>1. /\ Formed(stream) /\ Len(stream) \in Nat /\ Len(stream) >= 4 /\ flow = Next_insn
  BY DEF ReadInv, Formed, exec_opcode_cb, exec_opcode_dcb
<1>2. /\ stage' = "done" /\ flow' = Next_insn /\ pc' = pc + 0 /\ UNCHANGED <<inputs, left>>
  BY DEF exec_opcode_cb, exec_opcode_dcb, Return
<1>3. /\ stream' = stream /\ flags' = flags /\ rounds' = rounds /\ Repeats' = Repeats
  BY <1>2 DEF inputs, Repeats
<1>4. CASE exec_opcode_cb
  <2>1. /\ AtCb /\ stream[1] = \hCB /\ op = stream[2] /\ pc = 2
        /\ cyc' = cyc + (8 + (IF Z(op) # 6 THEN 0 ELSE IF X(op) = 1 THEN 4 ELSE 7))
        /\ r' = r + 1
    BY <1>4 DEF ReadInv, exec_opcode_cb, AtCb, Counts
  <2>2. ~ Repeats /\ cyc = 0 /\ r = 1
    BY <2>1 DEF AtCb, Spent, ReadInv, Repeats
  <2>3. in = Insn("cb", op, FALSE, 2, Plain, FALSE)
    BY <1>1, <2>1, Decoded
  <2> HIDE DEF in
  <2>4. /\ in.prefix = "cb" /\ in.opcode = op /\ in.cf = Plain /\ in.is_halt = FALSE
        /\ in.length = 2
    BY <2>3 DEF Insn
  <2>5. /\ cyc_base(in) = 8 + (IF Z(op) # 6 THEN 0 ELSE IF X(op) = 1 THEN 4 ELSE 7)
        /\ cyc_base(in) \in Nat /\ Refresh(in) = 2
    BY <2>4 DEF cyc_base, Refresh
  <2>6. e = [flow |-> Next_insn, cyc |-> cyc_base(in)]
    BY <2>4, <2>5, EmitsPlain
  <2> HIDE DEF e
  <2>7. e.flow = flow' /\ e.cyc = cyc' /\ in.length = pc' /\ r' = Refresh(in) * 1
    BY <1>2, <2>1, <2>2, <2>4, <2>5, <2>6
  <2>8. Agree'
    BY <1>3, <2>2, <2>7 DEF Agree, in, e
  <2>9. QED BY <1>2, <2>8, Finishes
<1>5. CASE exec_opcode_dcb
  <2>1. /\ AtDcb /\ stream[1] \in Prefix /\ stream[2] = \hCB /\ op = stream[4] /\ pc = 4
        /\ cyc' = cyc + (IF X(op) = 1 THEN 20 ELSE 23) /\ r' = r + 0
    BY <1>5 DEF ReadInv, exec_opcode_dcb, AtDcb, Counts
  <2>2. ~ Repeats /\ cyc = 0 /\ r = 2
    BY <2>1 DEF AtDcb, Spent, ReadInv, Repeats, Prefix
  <2>3. in = Insn("ddcb", op, TRUE, 4, Plain, FALSE)
    BY <1>1, <2>1, Decoded
  <2> HIDE DEF in
  <2>4. /\ in.prefix = "ddcb" /\ in.opcode = op /\ in.cf = Plain /\ in.is_halt = FALSE
        /\ in.length = 4
    BY <2>3 DEF Insn
  <2>5. /\ cyc_base(in) = IF X(op) = 1 THEN 20 ELSE 23
        /\ cyc_base(in) \in Nat /\ Refresh(in) = 2
    BY <2>4 DEF cyc_base, Refresh
  <2>6. e = [flow |-> Next_insn, cyc |-> cyc_base(in)]
    BY <2>4, <2>5, EmitsPlain
  <2> HIDE DEF e
  <2>7. e.flow = flow' /\ e.cyc = cyc' /\ in.length = pc' /\ r' = Refresh(in) * 1
    BY <1>2, <2>1, <2>2, <2>4, <2>5, <2>6
  <2>8. Agree'
    BY <1>3, <2>2, <2>7 DEF Agree, in, e
  <2>9. QED BY <1>2, <2>8, Finishes
<1>6. QED BY <1>4, <1>5

\* The opcodes of exec_opcode_ed: their cycles are the generator's.
LEMMA ExtendedFacts ==
  /\ \A o \in Opcode \ RepeatOps : cyc_ed(o) = ed_cyc(o) /\ ed_cyc(o) \in Nat
  /\ \A o \in RepeatOps : /\ cyc_ed(o) = 16 /\ ed_cyc(o) = 0 /\ o \in Opcode
                          /\ ~ (X(o) = 1) /\ o \notin EdRet
  /\ \A o \in Opcode : X(o) = 1 /\ Z(o) = 3 <=> o \in EdWords
  /\ EdRet \subseteq Opcode \ EdWords
<1>1. \A o \in Opcode \ RepeatOps : cyc_ed(o) = ed_cyc(o) /\ ed_cyc(o) \in Nat
  BY DEF cyc_ed, ed_cyc, Opcode, RepeatOps, BlockOps, X, Z
<1>2. \A o \in RepeatOps : /\ cyc_ed(o) = 16 /\ ed_cyc(o) = 0 /\ o \in Opcode
                           /\ ~ (X(o) = 1) /\ o \notin EdRet
  <2>1. \A o \in RepeatOps : /\ o \in Opcode /\ X(o) = 2 /\ Z(o) < 4 /\ o \in \hA0 .. \hBB
                             /\ o \notin EdRet
    BY DEF RepeatOps, Opcode, X, Z, EdRet
  <2>2. \A o \in RepeatOps : ed_cyc(o) = 0
    <3>1. \A o \in RepeatOps : /\ o \notin BlockOps /\ X(o) # 1
                               /\ o \notin {\h47, \h4F, \h57, \h5F, \h67, \h6F}
      BY <2>1 DEF BlockOps, RepeatOps
    <3>2. QED BY <3>1 DEF ed_cyc
  <2>3. \A o \in RepeatOps : cyc_ed(o) = 16
    <3>1. TAKE o \in RepeatOps
    <3>2. X(o) # 1 /\ Z(o) < 4 /\ o \in \hA0 .. \hBB
      BY <2>1
    <3>3. QED BY <3>2 DEF cyc_ed
  <2>4. QED BY <2>1, <2>2, <2>3
<1>3. \A o \in Opcode : X(o) = 1 /\ Z(o) = 3 <=> o \in EdWords
  BY DEF X, Z, Opcode, EdWords
<1>4. EdRet \subseteq Opcode \ EdWords
  BY DEF EdRet, EdWords, Opcode
<1>5. QED BY <1>1, <1>2, <1>3, <1>4

\* exec_opcode_ed.
LEMMA EdSteps ==
  ASSUME ReadInv, ed_ret \/ ed_straight \/ ed_again \/ ed_last
  PROVE  ReadInv'
<1> DEFINE in == z80_decode(stream)
           e  == Emitted(in, flags, rounds)
<1>1. /\ Formed(stream) /\ Len(stream) \in Nat /\ Len(stream) >= 4 /\ flow = Next_insn
      /\ rounds \in Nat \ {0} /\ left \in 1 .. rounds /\ (left # rounds => Repeats)
      /\ stage = "ed" /\ AtEd
  BY DEF ReadInv, Formed, ed_ret, ed_straight, ed_again, ed_last, Extended
<1>2. /\ pc = 2 /\ op = stream[2] /\ stream[1] = \hED /\ iz = "hl" /\ op \in Opcode
      /\ cyc = 21 * (rounds - left) /\ r = 2 * (rounds - left) + 1
      /\ op \notin {\hBB, \h5D, \h6D, \h7D} /\ (Repeats <=> op \in RepeatOps)
  <2>1. /\ pc = 2 /\ op = stream[2] /\ stream[1] = \hED /\ iz = "hl"
        /\ cyc = 21 * (rounds - left) + 0 /\ r = 2 * (rounds - left) + 1
    BY <1>1 DEF AtEd, Spent
  <2>2. op \in Opcode /\ op \notin {\hBB, \h5D, \h6D, \h7D}
    BY <1>1, <2>1 DEF Formed, Ordinary, Prefix
  <2>3. QED BY <1>1, <2>1, <2>2 DEF Repeats
<1>3. /\ in.prefix = "ed" /\ in.opcode = op /\ in.is_halt = FALSE
      /\ in.length = IF op \in EdWords THEN 4 ELSE 2
      /\ in.cf = IF op \in EdRet THEN Cf("ret", "none") ELSE Plain
  <2>1. in = DecodeEd(stream, 0)
    <3>1. stream[1] = \hED /\ Len(stream) \in Nat /\ Len(stream) >= 4
      BY <1>1, <1>2
    <3>2. QED BY <3>1, Decoded
  <2>2. in = Insn("ed", op, FALSE, 0 + (IF op \in EdWords THEN 4 ELSE 2),
                  IF op \in EdRet THEN Cf("ret", "none") ELSE Plain, FALSE)
    <3>1. op \in EdRet <=> op \in {\h4D, \h45, \h55, \h65, \h75}
      BY <1>2 DEF EdRet
    <3>2. op \in EdWords <=> X(op) = 1 /\ Z(op) = 3
      BY <1>2, ExtendedFacts
    <3>3. stream[0 + 2] = op
      BY <1>2
    <3>4. QED BY <2>1, <3>1, <3>2, <3>3 DEF DecodeEd
  <2> HIDE DEF in
  <2>3. QED BY <2>2 DEF Insn
<1>4. cyc_base(in) = ed_cyc(op) /\ Refresh(in) = 2
  <2> HIDE DEF in
  <2>1. QED BY <1>3 DEF cyc_base, Refresh
<1> HIDE DEF in
<1>5. e = [flow |-> IF op \in EdRet THEN To("ret", "none") ELSE Next_insn,
           cyc |-> ed_cyc(op) + 0 + emit_block(op, rounds)]
  <2>1. CASE op \in EdRet
    BY <1>3, <1>4, <2>1 DEF Emitted, EmittedCondition, TakenExtra, Cf
  <2>2. CASE op \notin EdRet
    BY <1>3, <1>4, <2>2 DEF Emitted, TakenExtra, Plain, Cf
  <2>3. QED BY <2>1, <2>2
<1> HIDE DEF e
<1>6. ASSUME NEW to, op \notin RepeatOps, Return(IF op \in EdWords THEN 2 ELSE 0, to),
             Counts(cyc_ed(op) + 0, 1),
             to = IF op \in EdRet THEN To("ret", "none") ELSE Next_insn
      PROVE  ReadInv'
  <2>1. /\ pc' = pc + (IF op \in EdWords THEN 2 ELSE 0) /\ flow' = to /\ stage' = "done"
        /\ cyc' = cyc + (cyc_ed(op) + 0) /\ r' = r + 1 /\ UNCHANGED <<inputs, left>>
    BY <1>6 DEF Return, Counts
  <2>2. /\ cyc_ed(op) = ed_cyc(op) /\ ed_cyc(op) \in Nat /\ ~ Repeats /\ left = rounds
    BY <1>1, <1>2, <1>6, ExtendedFacts
  <2>3. emit_block(op, rounds) = 0
    BY <1>6 DEF emit_block
  <2>4. e.flow = flow' /\ e.cyc = cyc' /\ in.length = pc' /\ r' = Refresh(in) * 1
    BY <1>1, <1>2, <1>3, <1>4, <1>5, <1>6, <2>1, <2>2, <2>3
  <2>5. /\ stream' = stream /\ flags' = flags /\ rounds' = rounds /\ Repeats' = Repeats
    BY <2>1 DEF inputs, Repeats
  <2>6. Agree'
    BY <2>2, <2>4, <2>5 DEF Agree, in, e
  <2>7. QED BY <2>1, <2>6, Finishes
<1>7. CASE ed_ret
  <2>1. op \in EdRet /\ Return(0, To("ret", "none")) /\ Counts(cyc_ed(op) + 0, 1)
    BY <1>7 DEF ed_ret, Extended
  <2>2. op \notin EdWords /\ op \notin RepeatOps
    BY <2>1, ExtendedFacts
  <2>3. QED BY <1>6, <2>1, <2>2
<1>8. CASE ed_straight
  <2>1. /\ op \notin EdRet /\ op \notin RepeatOps /\ Counts(cyc_ed(op) + 0, 1)
        /\ Return(IF op \in EdWords THEN 2 ELSE 0, Next_insn)
    BY <1>8 DEF ed_straight, Extended
  <2>2. QED BY <1>6, <2>1
<1>9. CASE ed_again
  <2>1. /\ left > 1 /\ left' = left - 1 /\ op \in RepeatOps
        /\ cyc' = cyc + (cyc_ed(op) + 5) /\ r' = r + 1
        /\ pc' = pc - 2 /\ stage' = "step" /\ UNCHANGED <<inputs, op, iz, flow>>
    BY <1>2, <1>9 DEF ed_again, Extended, Counts
  <2>2. cyc_ed(op) = 16 /\ Repeats
    BY <1>2, <2>1, ExtendedFacts
  <2>3. Repeats' = Repeats
    BY <2>1 DEF inputs, Repeats
  <2>4. AtStep'
    BY <1>1, <1>2, <2>1, <2>2 DEF AtStep, Spent, inputs
  <2>5. left' \in 1 .. rounds
    BY <1>1, <2>1
  <2>6. QED BY <1>1, <2>1, <2>2, <2>3, <2>4, <2>5 DEF ReadInv, inputs
<1>10. CASE ed_last
  <2>1. /\ left = 1 /\ op \in RepeatOps /\ cyc' = cyc + (cyc_ed(op) + 0) /\ r' = r + 1
        /\ pc' = pc + 0 /\ flow' = Next_insn /\ stage' = "done" /\ UNCHANGED <<inputs, left>>
    BY <1>10 DEF ed_last, Extended, Counts, Return
  <2>2. cyc_ed(op) = 16 /\ ed_cyc(op) = 0 /\ Repeats /\ op \notin EdRet /\ op \notin EdWords
    BY <1>2, <2>1, ExtendedFacts
  <2>3. emit_block(op, rounds) = 21 * (rounds - 1) + 16
    BY <2>1 DEF emit_block
  <2>4. e.flow = flow' /\ e.cyc = cyc' /\ in.length = pc' /\ r' = Refresh(in) * rounds
    BY <1>1, <1>2, <1>3, <1>4, <1>5, <2>1, <2>2, <2>3
  <2>5. /\ stream' = stream /\ flags' = flags /\ rounds' = rounds /\ Repeats' = Repeats
    BY <2>1 DEF inputs, Repeats
  <2>6. Agree'
    BY <2>2, <2>4, <2>5 DEF Agree, in, e
  <2>7. QED BY <2>1, <2>6, Finishes
<1>11. QED BY <1>7, <1>8, <1>9, <1>10

\* No encoding on which the two readers are known to differ.
Agreeing == Oddities = {}

\* A sequence of bytes with zeros behind it.
LEMMA ZerosBehind ==
  ASSUME NEW p \in Seq(Opcode), NEW zeros \in Seq({0})
  PROVE  /\ p \o zeros \in Seq(Opcode) /\ Len(p) \in Nat /\ Len(zeros) \in Nat
         /\ Len(p \o zeros) = Len(p) + Len(zeros)
         /\ \A i \in 1 .. Len(p) : (p \o zeros)[i] = p[i] /\ p[i] \in Opcode
         /\ \A i \in 1 .. Len(zeros) : (p \o zeros)[Len(p) + i] = 0
<1>1. zeros \in Seq(Opcode) /\ \A i \in 1 .. Len(zeros) : zeros[i] = 0
  BY DEF Opcode
<1>2. QED BY <1>1

\* Every stream the decoder is tried on is one of these.
LEMMA AllFormed ==
  ASSUME Agreeing, NEW p \in Streams
  PROVE  Formed(p \o <<0, 0, 0>>)
<1> DEFINE q == p \o <<0, 0, 0>>
<1>1. p \in Encodings /\ \A o \in DOMAIN Odd : p \notin Odd[o]
  BY DEF Streams, Agreeing
<1>2. /\ p \notin {<<\hED, \hBB>>} /\ p \notin {<<\hED, o>> : o \in {\h5D, \h6D, \h7D}}
      /\ p \notin {<<b, o>> : b \in Prefix, o \in {\h10, \h20, \h28, \h30, \h38}}
      /\ p \notin {<<b, \h76>> : b \in Prefix}
  <2>1. /\ "otdr" \in DOMAIN Odd /\ "retn" \in DOMAIN Odd
        /\ "prefixed_jr" \in DOMAIN Odd /\ "prefixed_halt" \in DOMAIN Odd
    BY DEF Odd
  <2>2. /\ Odd["otdr"] = {<<\hED, \hBB>>}
        /\ Odd["retn"] = {<<\hED, o>> : o \in {\h5D, \h6D, \h7D}}
        /\ Odd["prefixed_jr"] = {<<b, o>> : b \in Prefix, o \in {\h10, \h20, \h28, \h30, \h38}}
        /\ Odd["prefixed_halt"] = {<<b, \h76>> : b \in Prefix}
    BY DEF Odd
  <2>3. /\ p \notin Odd["otdr"] /\ p \notin Odd["retn"]
        /\ p \notin Odd["prefixed_jr"] /\ p \notin Odd["prefixed_halt"]
    BY <1>1, <2>1, Zenon
  <2> HIDE DEF Odd
  <2>4. p \notin {<<\hED, \hBB>>}
    BY <2>2, <2>3
  <2>5. p \notin {<<\hED, o>> : o \in {\h5D, \h6D, \h7D}}
    BY <2>2, <2>3
  <2>6. p \notin {<<b, o>> : b \in Prefix, o \in {\h10, \h20, \h28, \h30, \h38}}
    BY <2>2, <2>3
  <2>7. p \notin {<<b, \h76>> : b \in Prefix}
    BY <2>2, <2>3
  <2>8. QED BY <2>4, <2>5, <2>6, <2>7
<1>3. <<0, 0, 0>> \in Seq({0}) /\ Len(<<0, 0, 0>>) = 3
  OBVIOUS
<1>4. ASSUME p \in Seq(Opcode), Len(p) >= 1
      PROVE  /\ q \in Seq(Opcode) /\ Len(q) \in Nat /\ Len(q) >= 4
             /\ \A i \in 1 .. Len(p) : q[i] = p[i]
  <2> DEFINE zeros == <<0, 0, 0>>
  <2>1. zeros \in Seq({0}) /\ Len(zeros) = 3
    BY <1>3
  <2> HIDE DEF zeros
  <2>2. /\ p \o zeros \in Seq(Opcode) /\ Len(p) \in Nat
        /\ Len(p \o zeros) = Len(p) + Len(zeros)
        /\ \A i \in 1 .. Len(p) : (p \o zeros)[i] = p[i]
    BY <1>4, <2>1, ZerosBehind
  <2>3. Len(p \o zeros) \in Nat /\ Len(p \o zeros) >= 4
    BY <1>4, <2>1, <2>2
  <2>4. QED BY <2>2, <2>3 DEF zeros
<1> HIDE DEF q
<1>5. Prefix \subseteq Opcode /\ {\hCB, \hED, 0} \subseteq Opcode /\ Ordinary \subseteq Opcode
  BY DEF Prefix, Opcode, Ordinary
<1>6. ASSUME NEW o \in Ordinary, p = <<o>> PROVE Formed(q)
  <2>1. p \in Seq(Opcode) /\ Len(p) = 1 /\ p[1] = o
    BY <1>5, <1>6
  <2>2. q[1] \in Ordinary
    BY <1>4, <2>1
  <2>3. QED BY <1>4, <2>1, <2>2 DEF Formed
<1>7. ASSUME NEW o \in Opcode, p = <<\hCB, o>> PROVE Formed(q)
  <2>1. p \in Seq(Opcode) /\ Len(p) = 2 /\ p[1] = \hCB
    BY <1>5, <1>7
  <2>2. q[1] = \hCB
    BY <1>4, <2>1
  <2>3. QED BY <1>4, <2>1, <2>2 DEF Formed
<1>8. ASSUME NEW o \in Opcode, p = <<\hED, o>> PROVE Formed(q)
  <2>1. p \in Seq(Opcode) /\ Len(p) = 2 /\ p[1] = \hED /\ p[2] = o
    BY <1>5, <1>8
  <2>2. q[1] = \hED /\ q[2] = o /\ o \notin {\hBB, \h5D, \h6D, \h7D}
    BY <1>2, <1>4, <1>8, <2>1
  <2>3. QED BY <1>4, <2>1, <2>2 DEF Formed
<1>9. ASSUME NEW b \in Prefix, NEW o \in Ordinary, p = <<b, o>> PROVE Formed(q)
  <2>1. p \in Seq(Opcode) /\ Len(p) = 2 /\ p[1] = b /\ p[2] = o
    BY <1>5, <1>9
  <2>2. q[1] = b /\ q[2] = o /\ o \notin Unread
    BY <1>2, <1>4, <1>9, <2>1 DEF Unread
  <2>3. QED BY <1>4, <2>1, <2>2 DEF Formed
<1>10. ASSUME NEW b \in Prefix, NEW o \in Opcode, p = <<b, \hCB, 0, o>> PROVE Formed(q)
  <2>1. p \in Seq(Opcode) /\ Len(p) = 4 /\ p[1] = b /\ p[2] = \hCB
    BY <1>5, <1>10
  <2>2. q[1] = b /\ q[2] = \hCB
    BY <1>4, <2>1
  <2>3. QED BY <1>4, <2>1, <2>2 DEF Formed
<1>11. \/ \E o \in Ordinary : p = <<o>>
       \/ \E o \in Opcode : p = <<\hCB, o>>
       \/ \E o \in Opcode : p = <<\hED, o>>
       \/ \E b \in Prefix, o \in Ordinary : p = <<b, o>>
       \/ \E b \in Prefix, o \in Opcode : p = <<b, \hCB, 0, o>>
  <2>1. p \in {<<o>> : o \in Ordinary} \cup {<<\hCB, o>> : o \in Opcode}
             \cup {<<\hED, o>> : o \in Opcode} \cup {<<b, o>> : b \in Prefix, o \in Ordinary}
             \cup {<<b, \hCB, 0, o>> : b \in Prefix, o \in Opcode}
    BY <1>1 DEF Encodings, Ordinary
  <2>2. QED BY <2>1
<1>12. Formed(q)
  BY <1>6, <1>7, <1>8, <1>9, <1>10, <1>11
<1>13. QED BY <1>12 DEF q

\* The invariant holds at every byte.
LEMMA ReadInvariant == Agreeing => (FlatSpec => []ReadInv)
<1> SUFFICES ASSUME Agreeing PROVE FlatSpec => []ReadInv
  OBVIOUS
<1>1. FlatInit => ReadInv
  <2> SUFFICES ASSUME FlatInit PROVE ReadInv
    OBVIOUS
  <2>1. PICK p \in Streams : stream = p \o <<0, 0, 0>>
    BY DEF FlatInit, Init
  <2>2. Formed(stream)
    BY <2>1, AllFormed
  <2>3. /\ stage = "step" /\ iz = "hl" /\ pc = 0 /\ cyc = 0 /\ r = 0 /\ flow = Next_insn
        /\ rounds \in Nat \ {0} /\ left = rounds
    BY DecoderAssumption DEF FlatInit, Init
  <2>4. AtStep
    BY <2>3 DEF AtStep, Spent
  <2>5. left \in 1 .. rounds
    BY <2>3
  <2>6. QED BY <2>2, <2>3, <2>4, <2>5 DEF ReadInv
<1>2. ReadInv /\ [FlatNext]_flatVars => ReadInv'
  <2> SUFFICES ASSUME ReadInv, [FlatNext]_flatVars PROVE ReadInv'
    OBVIOUS
  <2>1. CASE Next
    BY <2>1, BaseSteps, FetchSteps, IndexedSteps, CbSteps, EdSteps DEF Next
  <2>2. ASSUME UNCHANGED <<stream, flags, rounds, left, op, iz, pc, cyc, r, flow>>,
               \/ stage' = stage
               \/ stage = "done" /\ stage' = "compiled"
        PROVE  ReadInv'
    <3>1. Repeats' = Repeats /\ Formed(stream)' = Formed(stream)
      BY <2>2 DEF Repeats
    <3>2. /\ AtStep' = AtStep /\ AtBase' = AtBase /\ AtDdfd' = AtDdfd /\ AtCb' = AtCb
          /\ AtEd' = AtEd /\ AtDcb' = AtDcb /\ Agree' = Agree
      BY <2>2, <3>1 DEF AtStep, AtBase, AtDdfd, AtCb, AtEd, AtDcb, Agree, Spent
    <3>3. QED BY <2>2, <3>1, <3>2 DEF ReadInv
  <2>3. CASE Compile
    BY <2>2, <2>3 DEF Compile, inputs
  <2>4. CASE UNCHANGED flatVars
    BY <2>2, <2>4 DEF flatVars, vars
  <2>5. QED BY <2>1, <2>3, <2>4 DEF FlatNext
<1>3. QED BY <1>1, <1>2, PTL DEF FlatSpec

\* The two readers agree on the bytes of an instruction and where it goes: every opcode,
\* under every prefix, on every setting of the flags and counters.
THEOREM ReadAlike == Agreeing => (FlatSpec => []SameStream)
<1>1. ReadInv => SameStream
  BY DEF ReadInv, SameStream, Agree
<1>2. QED BY <1>1, ReadInvariant, PTL

\* They agree on its cycles, however often it repeats, and on its refreshes.
THEOREM CostAlike == Agreeing => (FlatSpec => []SameCost)
<1>1. ReadInv => SameCost
  <2> SUFFICES ASSUME ReadInv, stage = "done" PROVE SameCost
    BY DEF SameCost
  <2> DEFINE in == z80_decode(stream)
  <2>1. Agree /\ Len(stream) \in Nat /\ Len(stream) >= 4 /\ rounds \in Nat
    BY DEF ReadInv, Formed
  <2>2. Repeats => in.prefix = "ed" /\ in.opcode \in RepeatOps
    <3>1. SUFFICES ASSUME Repeats PROVE in.prefix = "ed" /\ in.opcode \in RepeatOps
      OBVIOUS
    <3>r. stream[1] = \hED /\ stream[2] \in RepeatOps
      BY <3>1 DEF Repeats
    <3>2. in = DecodeEd(stream, 0) /\ stream[0 + 2] \in RepeatOps
      <4>1. in = DecodeEd(stream, 0)
        BY <2>1, <3>r, Decoded
      <4>2. 0 + 2 = 2
        OBVIOUS
      <4>3. QED BY <3>r, <4>1, <4>2
    <3>3. QED BY <3>2 DEF DecodeEd, Insn
  <2> DEFINE cycles == Emitted(in, flags, rounds).cyc
  <2>3. cycles = cyc /\ r = Refresh(in) * (IF Repeats THEN rounds ELSE 1)
    BY <2>1 DEF Agree
  <2> HIDE DEF in, cycles
  <2>4. Refresh(in) \in Nat
    BY DEF Refresh
  <2>5. rounds = 1 \/ in.prefix # "ed" \/ in.opcode \notin RepeatOps => r = Refresh(in)
    BY <2>2, <2>3, <2>4
  <2>6. QED BY <2>3, <2>5 DEF SameCost, in, cycles
<1>2. QED BY <1>1, ReadInvariant, PTL

-----------------------------------------------------------------------------
(* How far the decoder reads: the bytes of an instruction decide it, and     *)
(* what is compared decides whether to execute it.                          *)

\* A sequence the decoder reads to an opcode.
Readable(p) == /\ p \in Seq(Opcode) /\ Len(p) \in Nat /\ Len(p) >= 4
               /\ \E n \in 1 .. Len(p) : p[n] \notin Prefix

\* What is decoded after k prefixes, at the byte b.
Reaches(in, k, b) ==
  /\ in.length \in 1 .. 4
  /\ k >= 1 \/ b \in {\hCB, \hED} => in.length >= 2
  /\ k >= 1 /\ b = \hCB => in.length = 4
  /\ k >= 1 => in.prefix # "none"
  /\ k >= 2 => ~ (in.prefix \in {"dd", "fd"} /\ in.uses_disp /\ in.length = 3)
  /\ in.prefix = "none" <=> k = 0 /\ b \notin {\hCB, \hED}
  /\ in.prefix \in {"dd", "fd"} =>
       k >= 1 /\ b \notin {\hCB, \hED} /\ in.opcode = b /\ in.uses_disp = op_uses_hl_mem(b)

\* What of an instruction its prefixes and its opcode settle.
LEMMA Reach ==
  ASSUME NEW p, Readable(p)
  PROVE  /\ PrefixCount(p) \in 0 .. Len(p) - 1
         /\ \A j \in 1 .. PrefixCount(p) : p[j] \in Prefix
         /\ p[PrefixCount(p) + 1] \notin Prefix
         /\ Reaches(z80_decode(p), PrefixCount(p), p[PrefixCount(p) + 1])
<1> DEFINE in == z80_decode(p)
           k  == PrefixCount(p)
           b  == p[k + 1]
           pfx == IF k = 0 THEN "none" ELSE IF p[k] = \hDD THEN "dd" ELSE "fd"
<1>1. Len(p) \in Nat /\ Len(p) >= 4 /\ p \in Seq(Opcode)
  BY DEF Readable
<1>2. k \in 0 .. Len(p) - 1 /\ (\A j \in 1 .. k : p[j] \in Prefix) /\ b \notin Prefix
  BY <1>1, Counted DEF Readable
<1>3. b \in Opcode /\ k \in Nat
  BY <1>1, <1>2
<1>5. /\ b = \hCB => in = DecodeCb(p, k, pfx)
      /\ b = \hED => in = DecodeEd(p, k)
      /\ b \notin {\hCB, \hED} => in = DecodePlain(p, k, pfx)
  BY DEF z80_decode
<1>6. (pfx = "none" <=> k = 0) /\ pfx \in {"none", "dd", "fd"}
  OBVIOUS
<1>7. p[k + 1] = b
  OBVIOUS
<1> HIDE DEF in, k, b, pfx
<1>8. ASSUME b = \hCB PROVE Reaches(in, k, b)
  <2>1. ASSUME k = 0 PROVE Reaches(in, k, b)
    <3>1. in = Insn("cb", p[2], FALSE, 2, Plain, FALSE)
      BY <1>5, <1>6, <1>8, <2>1 DEF DecodeCb
    <3>2. in.length = 2 /\ in.prefix = "cb"
      BY <3>1 DEF Insn
    <3>3. QED BY <1>8, <2>1, <3>2 DEF Reaches
  <2>2. ASSUME k >= 1 PROVE Reaches(in, k, b)
    <3>1. in = Insn("ddcb", p[k + 3], TRUE, k + 3, Plain, FALSE)
      <4>1. pfx # "none"
        BY <1>3, <1>6, <2>2
      <4>2. QED BY <1>5, <1>8, <4>1, Zenon DEF DecodeCb
    <3>2. in.length = 4 /\ in.prefix = "ddcb"
      BY <1>3, <2>2, <3>1 DEF Insn
    <3>3. QED BY <1>3, <1>8, <2>2, <3>2 DEF Reaches
  <2>3. QED BY <1>3, <2>1, <2>2
<1>9. ASSUME b = \hED PROVE Reaches(in, k, b)
  <2>1. in.prefix = "ed" /\ in.length \in 2 .. 4
    BY <1>3, <1>5, <1>9 DEF DecodeEd, Insn
  <2>2. QED BY <1>9, <2>1 DEF Reaches
<1>10. ASSUME b \notin {\hCB, \hED} PROVE Reaches(in, k, b)
  <2>1. base_len[b + 1] \in 1 .. 3
    BY <1>2, <1>3, <1>10, Tables DEF Ordinary, Prefix
  <2> DEFINE disp == pfx # "none" /\ op_uses_hl_mem(b)
             size  == k + (IF disp THEN 1 ELSE 0) + base_len[b + 1]
  <2>2. in = Insn(pfx, b, disp, size, classify_base(b), b = \h76 /\ pfx = "none")
    BY <1>5, <1>7, <1>10, Zenon DEF DecodePlain
  <2>3. size \in Nat /\ size >= k + 1 /\ (disp => size >= k + 2) /\ (k = 0 => size <= 3)
    <3>1. k = 0 => ~ disp
      BY <1>6
    <3> HIDE DEF disp
    <3>2. QED BY <1>3, <2>1, <3>1
  <2> HIDE DEF disp, size
  <2>4. /\ in.prefix = pfx /\ in.uses_disp = disp /\ in.length = IF size > 4 THEN 4 ELSE size
        /\ in.opcode = b
    BY <2>2, Zenon DEF Insn
  <2>5. in.length \in 1 .. 4 /\ (k >= 1 => in.length >= 2)
    BY <1>3, <2>3, <2>4
  <2>6. k >= 2 => ~ (in.uses_disp /\ in.length = 3)
    <3>1. k >= 2 /\ disp => in.length # 3
      BY <1>3, <2>3, <2>4
    <3>2. QED BY <2>4, <3>1, Zenon
  <2>7. in.prefix = "none" <=> k = 0
    BY <1>6, <2>4
  <2>8. in.prefix \in {"dd", "fd"} => k >= 1 /\ in.opcode = b /\ in.uses_disp = op_uses_hl_mem(b)
    <3>1. in.prefix \in {"dd", "fd"} => k >= 1
      BY <1>3, <2>7
    <3>2. op_uses_hl_mem(b) \in BOOLEAN
      BY DEF op_uses_hl_mem
    <3>3. in.prefix \in {"dd", "fd"} => disp = op_uses_hl_mem(b)
      BY <2>4, <3>2, Zenon DEF disp
    <3>4. QED BY <2>4, <3>1, <3>3, Zenon
  <2>9. k >= 1 => in.prefix # "none"
    BY <2>7
  <2>10. QED BY <1>10, <2>5, <2>6, <2>7, <2>8, <2>9 DEF Reaches
<1>11. Reaches(in, k, b)
  BY <1>8, <1>9, <1>10
<1>12. QED BY <1>2, <1>11 DEF in, k, b

\* The same by the bytes in front.
LEMMA ReachBytes ==
  ASSUME NEW p, Readable(p)
  PROVE  /\ z80_decode(p).length \in 1 .. 4
         /\ p[1] \in Prefix \cup {\hCB, \hED} => z80_decode(p).length >= 2
         /\ p[1] \in Prefix /\ p[2] = \hCB => z80_decode(p).length = 4
<1> DEFINE in == z80_decode(p)
           k  == PrefixCount(p)
           b  == p[k + 1]
<1>1. /\ k \in 0 .. Len(p) - 1 /\ (\A j \in 1 .. k : p[j] \in Prefix) /\ b \notin Prefix
      /\ Reaches(in, k, b) /\ Len(p) \in Nat
  BY Reach DEF Readable
<1>2. b = p[k + 1]
  OBVIOUS
<1> HIDE DEF in, k, b
<1>3. p[1] \in Prefix => k >= 1
  <2>1. k = 0 => b = p[1]
    BY <1>2
  <2>2. QED BY <1>1, <2>1
<1>4. p[1] \notin Prefix => k = 0 /\ b = p[1]
  BY <1>1, <1>2
<1>5. \hCB \notin Prefix /\ \hED \notin Prefix
  BY DEF Prefix
<1>6. p[1] \in Prefix /\ p[2] = \hCB => k >= 1 /\ b = \hCB
  <2>1. p[2] = \hCB => ~ (k >= 2)
    BY <1>1, <1>5
  <2>2. k = 1 => b = p[2]
    BY <1>2
  <2>3. QED BY <1>1, <1>3, <2>1, <2>2
<1>7. QED BY <1>1, <1>3, <1>4, <1>6 DEF Reaches, in

\* Where no prefix or one is in front, the opcode behind it decides.
LEMMA HeadsAlike ==
  ASSUME NEW p, NEW q, Len(p) \in Nat, Len(p) >= 4, Len(q) \in Nat, Len(q) >= 4,
         \/ p[1] = q[1] /\ q[1] \in Ordinary
         \/ p[1] = q[1] /\ q[1] \in Prefix /\ p[2] = q[2] /\ q[2] \in Ordinary
  PROVE  z80_decode(p) = z80_decode(q)
<1>1. ASSUME p[1] = q[1], q[1] \in Ordinary PROVE z80_decode(p) = z80_decode(q)
  <2> DEFINE A(z) == Insn("none", z, FALSE, base_len[z + 1], classify_base(z), z = \h76)
  <2>1. p[1] \in Ordinary
    BY <1>1
  <2>2. z80_decode(p) = A(p[1])
    BY <2>1, Decoded
  <2>3. z80_decode(q) = A(q[1])
    BY <1>1, Decoded
  <2> HIDE DEF A
  <2>4. QED BY <1>1, <2>2, <2>3
<1>2. ASSUME p[1] = q[1], q[1] \in Prefix, p[2] = q[2], q[2] \in Ordinary
      PROVE  z80_decode(p) = z80_decode(q)
  <2> DEFINE A(y, z) == Insn(PrefixName(y), z, op_uses_hl_mem(z),
                             1 + Displacement(z) + base_len[z + 1], classify_base(z), FALSE)
  <2>1. p[1] = q[1] /\ p[2] = q[2] /\ p[1] \in Prefix /\ p[2] \in Ordinary
    BY <1>2
  <2>2. z80_decode(p) = A(p[1], p[2])
    BY <2>1, Decoded
  <2>3. z80_decode(q) = A(q[1], q[2])
    BY <1>2, Decoded
  <2> HIDE DEF A
  <2>4. QED BY <2>1, <2>2, <2>3
<1>3. QED BY <1>1, <1>2

\* Two sequences that agree on one's instruction hold the same instruction.
LEMMA HeadDecides ==
  ASSUME NEW p, NEW q, Readable(p), Formed(q), NEW x \in {p, q},
         \A i \in 1 .. z80_decode(x).length : p[i] = q[i]
  PROVE  z80_decode(p) = z80_decode(q)
<1>1. /\ Len(p) \in Nat /\ Len(p) >= 4 /\ Len(q) \in Nat /\ Len(q) >= 4
  BY DEF Readable, Formed
<1>2. Readable(q) /\ Readable(x)
  <2>1. q[1] \notin Prefix \/ q[2] \notin Prefix
    BY DEF Formed, Ordinary, Prefix
  <2>2. 1 \in 1 .. Len(q) /\ 2 \in 1 .. Len(q)
    BY <1>1
  <2>3. Readable(q)
    BY <2>1, <2>2 DEF Formed, Readable
  <2>4. QED BY <2>3
<1> DEFINE n == z80_decode(x).length
<1>3. /\ n \in 1 .. 4
      /\ x[1] \in Prefix \cup {\hCB, \hED} => n >= 2
      /\ x[1] \in Prefix /\ x[2] = \hCB => n = 4
  BY <1>2, ReachBytes
<1>4. \A i \in 1 .. n : p[i] = q[i] /\ x[i] = q[i]
  OBVIOUS
<1> HIDE DEF n
<1>5. p[1] = q[1] /\ x[1] = q[1]
  BY <1>3, <1>4
<1>6. q[1] \in Prefix \cup {\hCB, \hED} => p[2] = q[2] /\ x[2] = q[2]
  BY <1>3, <1>4, <1>5
<1>7. q[1] \in Prefix /\ q[2] = \hCB => p[4] = q[4]
  BY <1>3, <1>4, <1>5, <1>6
<1>8. ASSUME q[1] \in Ordinary PROVE z80_decode(p) = z80_decode(q)
  BY <1>1, <1>5, <1>8, HeadsAlike
<1>9. ASSUME q[1] = \hCB PROVE z80_decode(p) = z80_decode(q)
  <2>1. p[1] = \hCB /\ p[2] = q[2]
    BY <1>5, <1>6, <1>9
  <2>2. z80_decode(p) = Insn("cb", p[2], FALSE, 2, Plain, FALSE)
    BY <1>1, <2>1, Decoded
  <2>3. z80_decode(q) = Insn("cb", q[2], FALSE, 2, Plain, FALSE)
    BY <1>1, <1>9, Decoded
  <2>4. QED BY <2>1, <2>2, <2>3
<1>10. ASSUME q[1] = \hED PROVE z80_decode(p) = z80_decode(q)
  <2>1. p[1] = \hED /\ p[2] = q[2] /\ 0 + 2 = 2
    BY <1>5, <1>6, <1>10
  <2>2. z80_decode(p) = DecodeEd(p, 0)
    BY <1>1, <2>1, Decoded
  <2>3. z80_decode(q) = DecodeEd(q, 0)
    BY <1>1, <1>10, Decoded
  <2>4. p[0 + 2] = q[0 + 2]
    BY <2>1
  <2> DEFINE A(z) == Insn("ed", z, FALSE, 0 + (IF X(z) = 1 /\ Z(z) = 3 THEN 4 ELSE 2),
                          IF z \in {\h4D, \h45, \h55, \h65, \h75} THEN Cf("ret", "none") ELSE Plain,
                          FALSE)
  <2>5. DecodeEd(p, 0) = A(p[0 + 2]) /\ DecodeEd(q, 0) = A(q[0 + 2])
    BY Zenon DEF DecodeEd
  <2> HIDE DEF A
  <2>6. QED BY <2>2, <2>3, <2>4, <2>5
<1>11. ASSUME q[1] \in Prefix, q[2] \in Ordinary PROVE z80_decode(p) = z80_decode(q)
  BY <1>1, <1>5, <1>6, <1>11, HeadsAlike
<1>12. ASSUME q[1] \in Prefix, q[2] = \hCB PROVE z80_decode(p) = z80_decode(q)
  <2>1. p[1] \in Prefix /\ p[2] = \hCB /\ p[4] = q[4]
    BY <1>5, <1>6, <1>7, <1>12
  <2>2. z80_decode(p) = Insn("ddcb", p[4], TRUE, 4, Plain, FALSE)
    BY <1>1, <2>1, Decoded
  <2>3. z80_decode(q) = Insn("ddcb", q[4], TRUE, 4, Plain, FALSE)
    BY <1>1, <1>12, Decoded
  <2>4. QED BY <2>1, <2>2, <2>3
<1>13. QED BY <1>8, <1>9, <1>10, <1>11, <1>12 DEF Formed

\* The bytes read past the end of an image.
Six == <<0, 0, 0, 0, 0, 0>>

\* An image with zeros behind it has an end of its prefixes.
LEMMA PaddedReads ==
  ASSUME NEW s \in Seq(Opcode)
  PROVE  /\ Readable(Padded(s)) /\ Padded(s) \in Seq(Opcode)
         /\ Len(s) \in Nat /\ Len(Padded(s)) = Len(s) + 6
         /\ \A i \in 1 .. Len(s) : Padded(s)[i] = s[i]
<1>1. Six \in Seq({0}) /\ Len(Six) = 6
  BY DEF Six
<1>2. Padded(s) = s \o Six
  BY DEF Padded, Six
<1> HIDE DEF Six
<1>3. /\ s \o Six \in Seq(Opcode) /\ Len(s) \in Nat /\ Len(s \o Six) = Len(s) + 6
      /\ \A i \in 1 .. Len(s) : (s \o Six)[i] = s[i]
      /\ \A i \in 1 .. 6 : (s \o Six)[Len(s) + i] = 0
  <2>1. /\ s \o Six \in Seq(Opcode) /\ Len(s) \in Nat /\ Len(s \o Six) = Len(s) + Len(Six)
        /\ \A i \in 1 .. Len(s) : (s \o Six)[i] = s[i]
        /\ \A i \in 1 .. Len(Six) : (s \o Six)[Len(s) + i] = 0
    BY <1>1, ZerosBehind
  <2>2. QED BY <1>1, <2>1
<1>4. (s \o Six)[Len(s) + 1] \notin Prefix
  <2>1. (s \o Six)[Len(s) + 1] = 0
    BY <1>3
  <2>2. QED BY <2>1 DEF Prefix
<1>5. Len(s) + 1 \in 1 .. Len(s \o Six)
  BY <1>3
<1>6. QED BY <1>2, <1>3, <1>4, <1>5 DEF Readable

\* The bytes of an alternative are those of its image.
LEMMA RawReads ==
  ASSUME NEW s \in Seq(Opcode)
  PROVE  /\ Raw(s) \in Seq(Opcode) /\ Len(Raw(s)) = z80_decode(Padded(s)).length
         /\ Len(Raw(s)) \in 1 .. 4
         /\ \A i \in 1 .. Len(Raw(s)) : Raw(s)[i] = Padded(s)[i]
<1> DEFINE n == z80_decode(Padded(s)).length
           p == Padded(s)
<1>1. n \in 1 .. 4 /\ p \in Seq(Opcode) /\ Len(p) \in Nat /\ Len(p) >= 6
  BY PaddedReads, ReachBytes
<1>2. Raw(s) = SubSeq(p, 1, n)
  BY DEF Raw
<1> HIDE DEF n, p
<1>3. QED
  <2>1. 1 \in 1 .. Len(p) + 1 /\ n \in 0 .. Len(p)
    BY <1>1
  <2>2. /\ SubSeq(p, 1, n) \in Seq(Opcode) /\ Len(SubSeq(p, 1, n)) = n
        /\ \A i \in 1 .. n : SubSeq(p, 1, n)[i] = p[i]
    BY <1>1, SMT
  <2>3. QED BY <1>1, <1>2, <2>2 DEF n, p

\* The live bytes are the stream's.
LEMMA LiveReads ==
  ASSUME Formed(stream), NEW n \in 1 .. 4
  PROVE  /\ Live(n) \in Seq(Opcode) /\ Len(Live(n)) = n
         /\ \A i \in 1 .. n : Live(n)[i] = stream[i] /\ stream[i] \in Opcode
BY SMT DEF Live, Formed

\* The live instruction, cut out, is still that instruction.
LEMMA Guarded ==
  ASSUME Formed(stream), NEW n, n = z80_decode(stream).length
  PROVE  n \in 1 .. 4 /\ z80_decode(Padded(Live(n))) = z80_decode(stream)
<1>1. Readable(stream)
  <2>1. stream[1] \notin Prefix \/ stream[2] \notin Prefix
    BY DEF Formed, Ordinary, Prefix
  <2>2. 1 \in 1 .. Len(stream) /\ 2 \in 1 .. Len(stream)
    BY DEF Formed
  <2>3. QED BY <2>1, <2>2 DEF Formed, Readable
<1>2. n \in 1 .. 4
  BY <1>1, ReachBytes
<1> DEFINE p == Padded(Live(n))
<1>3. Readable(p) /\ \A i \in 1 .. n : p[i] = stream[i]
  BY <1>2, LiveReads, PaddedReads
<1> HIDE DEF p
<1>4. z80_decode(p) = z80_decode(stream)
  BY <1>3, HeadDecides
<1>5. QED BY <1>2, <1>4 DEF p

\* An alternative that equals the live bytes is the live instruction.
LEMMA Unmixed ==
  ASSUME Formed(stream), NEW s \in Seq(Opcode), Raw(s) = Live(Len(Raw(s)))
  PROVE  Raw(s) = Live(z80_decode(stream).length)
<1> DEFINE m == Len(Raw(s))
           p == Padded(s)
<1>1. /\ m \in 1 .. 4 /\ m = z80_decode(p).length /\ Readable(p)
      /\ \A i \in 1 .. m : Raw(s)[i] = p[i]
  BY RawReads, PaddedReads
<1>2. \A i \in 1 .. m : p[i] = stream[i]
  BY <1>1, LiveReads
<1> HIDE DEF m, p
<1>3. z80_decode(p) = z80_decode(stream)
  BY <1>1, <1>2, HeadDecides
<1>4. QED BY <1>1, <1>3 DEF m

\* An instruction whose operands are read live starts with the bytes compared.
LEMMA LiveHead ==
  ASSUME NEW p, Readable(p), NEW in, in = z80_decode(p)
  PROVE  /\ in.prefix = "none" => p[1] \in Ordinary /\ in.opcode = p[1]
         /\ LiveOperands(in) /\ in.prefix # "none" =>
              /\ p[1] \in Prefix /\ p[2] \in Ordinary
              /\ in.prefix = PrefixName(p[1]) /\ in.opcode = p[2]
              /\ in.uses_disp = op_uses_hl_mem(in.opcode)
<1> DEFINE k == PrefixCount(p)
           b == p[k + 1]
<1>1. /\ k \in 0 .. Len(p) - 1 /\ (\A j \in 1 .. k : p[j] \in Prefix) /\ b \notin Prefix
      /\ Reaches(in, k, b) /\ Len(p) \in Nat /\ Len(p) >= 4 /\ p \in Seq(Opcode)
  BY Reach DEF Readable
<1>2. b = p[k + 1]
  OBVIOUS
<1> HIDE DEF k, b
<1>3. b \in Opcode
  BY <1>1, <1>2
<1>4. ASSUME in.prefix = "none" PROVE p[1] \in Ordinary /\ in.opcode = p[1]
  <2>1. k = 0 /\ b \notin {\hCB, \hED}
    BY <1>1, <1>4 DEF Reaches
  <2>2. p[1] \in Ordinary
    BY <1>1, <1>2, <1>3, <2>1 DEF Ordinary, Prefix
  <2>3. in = Insn("none", p[1], FALSE, base_len[p[1] + 1], classify_base(p[1]), p[1] = \h76)
    BY <1>1, <2>2, Decoded
  <2>4. in.opcode = p[1]
    BY <2>3 DEF Insn
  <2>5. QED BY <2>2, <2>4
<1>5. ASSUME LiveOperands(in), in.prefix # "none"
      PROVE  /\ p[1] \in Prefix /\ p[2] \in Ordinary
             /\ in.prefix = PrefixName(p[1]) /\ in.opcode = p[2]
             /\ in.uses_disp = op_uses_hl_mem(in.opcode)
  <2>1. in.prefix \in {"dd", "fd"} /\ in.uses_disp /\ in.length = 3
    BY <1>5, Zenon DEF LiveOperands
  <2>2. k >= 1 /\ b \notin {\hCB, \hED} /\ ~ (k >= 2)
    BY <1>1, <2>1, Zenon DEF Reaches
  <2>3. k = 1
    BY <1>1, <2>2
  <2>4. p[1] \in Prefix /\ p[2] \in Ordinary
    BY <1>1, <1>2, <1>3, <2>2, <2>3 DEF Ordinary, Prefix
  <2>5. in = Insn(PrefixName(p[1]), p[2], op_uses_hl_mem(p[2]),
                  1 + Displacement(p[2]) + base_len[p[2] + 1], classify_base(p[2]), FALSE)
    BY <1>1, <2>4, Decoded
  <2>6. in.prefix = PrefixName(p[1]) /\ in.opcode = p[2]
    BY <2>5 DEF Insn
  <2>7. in.uses_disp = op_uses_hl_mem(p[2])
    BY <2>5 DEF Insn
  <2>8. QED BY <2>4, <2>6, <2>7, Zenon
<1>6. QED BY <1>4, <1>5

\* Which prefix a formed stream is decoded under.
LEMMA Prefixed ==
  ASSUME NEW p, Formed(p), NEW in, in = z80_decode(p)
  PROVE  /\ in.prefix = "ed" <=> p[1] = \hED
         /\ p[1] = \hED => in = DecodeEd(p, 0) /\ in.opcode = p[2]
         /\ in.prefix \in {"none", "cb", "dd", "fd", "ed", "ddcb"} /\ in.opcode \in Opcode
<1>1. Len(p) \in Nat /\ Len(p) >= 4 /\ p \in Seq(Opcode)
  BY DEF Formed
<1>2. p[1] \in Opcode /\ p[2] \in Opcode /\ p[4] \in Opcode
  BY <1>1
<1> DEFINE Claim == /\ in.prefix = "ed" <=> p[1] = \hED
                    /\ p[1] = \hED => in = DecodeEd(p, 0) /\ in.opcode = p[2]
                    /\ in.prefix \in {"none", "cb", "dd", "fd", "ed", "ddcb"} /\ in.opcode \in Opcode
<1>3. ASSUME p[1] \in Ordinary PROVE Claim
  <2>1. in = Insn("none", p[1], FALSE, base_len[p[1] + 1], classify_base(p[1]), p[1] = \h76)
    BY <1>1, <1>3, Decoded
  <2>2. in.prefix = "none" /\ in.opcode = p[1]
    BY <2>1 DEF Insn
  <2>3. p[1] # \hED
    BY <1>3 DEF Ordinary
  <2>4. QED BY <1>2, <2>2, <2>3
<1>4. ASSUME p[1] = \hCB PROVE Claim
  <2>1. in = Insn("cb", p[2], FALSE, 2, Plain, FALSE)
    BY <1>1, <1>4, Decoded
  <2>2. in.prefix = "cb" /\ in.opcode = p[2]
    BY <2>1 DEF Insn
  <2>3. QED BY <1>2, <1>4, <2>2
<1>5. ASSUME p[1] = \hED PROVE Claim
  <2>1. in = DecodeEd(p, 0) /\ 0 + 2 = 2
    <3>1. z80_decode(p) = DecodeEd(p, 0)
      BY <1>1, <1>5, Decoded
    <3>2. QED BY <3>1
  <2>2. in.prefix = "ed" /\ in.opcode = p[0 + 2]
    BY <2>1 DEF DecodeEd, Insn
  <2>3. in.opcode = p[2]
    BY <2>1, <2>2
  <2>4. QED BY <1>2, <1>5, <2>1, <2>2, <2>3
<1>6. ASSUME p[1] \in Prefix, p[2] \in Ordinary PROVE Claim
  <2>1. in = Insn(PrefixName(p[1]), p[2], op_uses_hl_mem(p[2]),
                  1 + Displacement(p[2]) + base_len[p[2] + 1], classify_base(p[2]), FALSE)
    BY <1>1, <1>6, Decoded
  <2>2. in.prefix = PrefixName(p[1]) /\ in.opcode = p[2]
    BY <2>1 DEF Insn
  <2>3. p[1] # \hED /\ in.prefix \in {"dd", "fd"}
    BY <1>6, <2>2 DEF Prefix, PrefixName
  <2>4. QED BY <1>2, <2>2, <2>3
<1>7. ASSUME p[1] \in Prefix, p[2] = \hCB PROVE Claim
  <2>1. in = Insn("ddcb", p[4], TRUE, 4, Plain, FALSE)
    BY <1>1, <1>7, Decoded
  <2>2. in.prefix = "ddcb" /\ in.opcode = p[4]
    BY <2>1 DEF Insn
  <2>3. p[1] # \hED
    BY <1>7 DEF Prefix
  <2>4. QED BY <1>2, <2>2, <2>3
<1>8. Claim
  BY <1>3, <1>4, <1>5, <1>6, <1>7 DEF Formed
<1>9. QED BY <1>8

\* An instruction's cycles are a number.
LEMMA Costs ==
  ASSUME NEW in, in.prefix \in {"none", "cb", "dd", "fd", "ed", "ddcb"}, in.opcode \in Opcode
  PROVE  cyc_base(in) \in Nat
<1>1. base_cyc[in.opcode + 1] \in Nat
  BY Tables
<1>2. ed_cyc(in.opcode) \in Nat
  BY DEF ed_cyc
<1>3. QED BY <1>1, <1>2 DEF cyc_base

\* The flat body does what the interpreter did.
LEMMA BodyRuns ==
  ASSUME Formed(stream), rounds \in Nat \ {0}, Agree
  PROVE  emit_flat_body(z80_decode(stream)) = [flow |-> flow, cyc |-> cyc, r |-> r]
<1> DEFINE in == z80_decode(stream)
           e == Emitted(in, flags, rounds)
           taken == EmittedCondition(in, flags, rounds)
           extra == IF taken THEN TakenExtra(in) ELSE 0
<1>1. /\ e.flow = flow /\ e.cyc = cyc
      /\ r = Refresh(in) * (IF Repeats THEN rounds ELSE 1)
  BY DEF Agree
<1>2. /\ in.prefix = "ed" <=> stream[1] = \hED
      /\ stream[1] = \hED => in = DecodeEd(stream, 0) /\ in.opcode = stream[2]
      /\ cyc_base(in) \in Nat
  BY Prefixed, Costs
<1>3. flat_is_repeat_block(in) <=> Repeats
  <2> HIDE DEF in
  <2>1. QED BY <1>2 DEF flat_is_repeat_block, Repeats
<1>4. e.cyc = cyc_base(in) + extra + (IF in.prefix = "ed" THEN emit_block(in.opcode, rounds) ELSE 0)
  <2> HIDE DEF in
  <2>1. QED BY DEF Emitted
<1>5. extra \in Nat
  <2> HIDE DEF in
  <2>1. TakenExtra(in) \in Nat
    BY DEF TakenExtra
  <2>2. QED BY <2>1
<1>6. Refresh(in) \in Nat
  BY DEF Refresh
<1>7. ASSUME Repeats PROVE /\ taken = TRUE /\ TakenExtra(in) = 0 /\ e.flow = Next_insn
                           /\ cyc_base(in) = 0 /\ in.prefix = "ed"
                           /\ emit_block(in.opcode, rounds) = 21 * (rounds - 1) + 16
  <2>1. in = DecodeEd(stream, 0) /\ in.opcode \in RepeatOps /\ 0 + 2 = 2 /\ in.prefix = "ed"
    BY <1>2, <1>7 DEF Repeats
  <2>2. stream[2] \in RepeatOps /\ stream[2] \notin {\h4D, \h45, \h55, \h65, \h75}
    BY <1>7 DEF Repeats, RepeatOps
  <2>3. stream[0 + 2] \notin {\h4D, \h45, \h55, \h65, \h75}
    BY <2>1, <2>2
  <2>4. in.cf = Plain /\ in.is_halt = FALSE
    BY <2>1, <2>3 DEF DecodeEd, Insn
  <2> HIDE DEF in
  <2>5. taken = TRUE /\ TakenExtra(in) = 0 /\ e.flow = Next_insn
    BY <2>4 DEF EmittedCondition, TakenExtra, Emitted, Plain, Cf
  <2>6. cyc_base(in) = 0
    <3>1. ed_cyc(in.opcode) = 0
      BY <2>1 DEF ed_cyc, RepeatOps, BlockOps, X
    <3>2. QED BY <2>1, <3>1 DEF cyc_base
  <2>7. emit_block(in.opcode, rounds) = 21 * (rounds - 1) + 16
    BY <2>1 DEF emit_block
  <2>8. QED BY <2>1, <2>5, <2>6, <2>7
<1>8. ASSUME ~ Repeats, in.prefix = "ed" PROVE emit_block(in.opcode, rounds) = 0
  <2> HIDE DEF in
  <2>1. in.opcode \notin RepeatOps
    BY <1>3, <1>8 DEF flat_is_repeat_block
  <2>2. QED BY <2>1 DEF emit_block
<1>9. emit_flat_cf(in) = [flow |-> e.flow, cyc |-> cyc_base(in) + extra, r |-> Refresh(in)]
  BY Zenon DEF emit_flat_cf
<1> HIDE DEF in, e, taken, extra
<1>10. CASE Repeats
  <2>1. 21 * (rounds - 1) + 16 = cyc
    BY <1>1, <1>4, <1>7, <1>10 DEF extra
  <2>2. emit_flat_body(in) = [flow |-> Next_insn, cyc |-> 21 * (rounds - 1) + 16,
                              r |-> Refresh(in) * rounds]
    BY <1>3, <1>10, Zenon DEF emit_flat_body, emit_flat_repeat
  <2>3. Refresh(in) * rounds = r /\ Next_insn = flow
    BY <1>1, <1>7, <1>10
  <2>4. QED BY <2>1, <2>2, <2>3 DEF in
<1>11. CASE ~ Repeats
  <2>1. cyc_base(in) + extra = cyc
    BY <1>1, <1>2, <1>4, <1>5, <1>8, <1>11
  <2>2. Refresh(in) = r /\ e.flow = flow
    BY <1>1, <1>6, <1>11
  <2>3. emit_flat_body(in) = emit_flat_cf(in)
    BY <1>3, <1>11, Zenon DEF emit_flat_body
  <2>4. QED BY <1>9, <2>1, <2>2, <2>3 DEF in
<1>12. QED BY <1>10, <1>11

\* The images compiled.
ImagesInv == /\ images \in Seq(Seq(Opcode))
             /\ stage = "compiled" => Len(images) > 0

\* No step of the interpreter compiles.
LEMMA NextRuns ==
  ASSUME ReadInv, Next PROVE stage' # "compiled"
BY DEF Next, z80_step, PrefixByte, Straight, Halt, jump, jr, jp_hl, call, rst, ret, cond_jump, cond_jr,
       djnz, cond_call, cond_ret, Conditional, ddfd_indexed, ddfd_cb, ddfd_other, exec_opcode_cb,
       exec_opcode_dcb, ed_ret, ed_straight, ed_again, ed_last, NextOpcode, Return

\* What is compiled is one image or more, of bytes.
LEMMA ImagesInvariant == Agreeing => (FlatSpec => []ImagesInv)
<1> SUFFICES ASSUME Agreeing PROVE FlatSpec => []ImagesInv
  OBVIOUS
<1>1. FlatInit => ImagesInv
  BY DEF FlatInit, Init, ImagesInv
<1>2. ReadInv /\ ImagesInv /\ [FlatNext]_flatVars => ImagesInv'
  <2> SUFFICES ASSUME ReadInv, ImagesInv, [FlatNext]_flatVars PROVE ImagesInv'
    OBVIOUS
  <2>1. CASE Next /\ UNCHANGED images
    BY <2>1, NextRuns DEF ImagesInv
  <2>2. CASE Compile
    <3>1. Formed(stream)
      BY DEF ReadInv
    <3>2. \A n \in 1 .. 4 : Live(n) \in Seq(Opcode) /\ Live(n) \in [1 .. n -> Opcode]
      <4>1. TAKE n \in 1 .. 4
      <4>2. Live(n) \in Seq(Opcode) /\ Len(Live(n)) = n
        BY <3>1, LiveReads
      <4>3. QED BY <4>2, LenProperties
    <3>3. Shortened \cup Altered \subseteq Seq(Opcode)
      <4>1. Shortened \subseteq Seq(Opcode)
        BY <3>2 DEF Shortened
      <4>2. ASSUME NEW i \in 1 .. 4, NEW b \in Strays PROVE [Live(4) EXCEPT ![i] = b] \in Seq(Opcode)
        <5>1. b \in Opcode /\ Live(4) \in [1 .. 4 -> Opcode]
          BY <3>2, FlatAssumption DEF Opcode
        <5>2. [Live(4) EXCEPT ![i] = b] \in [1 .. 4 -> Opcode]
          BY <5>1
        <5>3. QED
          <6> DEFINE f == [Live(4) EXCEPT ![i] = b]
          <6>1. f \in [1 .. 4 -> Opcode] /\ 4 \in Nat
            BY <5>2
          <6> HIDE DEF f
          <6>2. \A m \in Nat : \A g \in [1 .. m -> Opcode] : g \in Seq(Opcode)
            OBVIOUS
          <6>3. f \in Seq(Opcode)
            BY <6>1, <6>2, Zenon
          <6>4. QED BY <6>3 DEF f
      <4>3. QED BY <4>1, <4>2 DEF Altered
    <3>4. ASSUME NEW n \in 1 .. MaxImages, NEW f \in [1 .. n -> Shortened \cup Altered]
          PROVE  f \in Seq(Seq(Opcode)) /\ Len(f) > 0
      <4>1. n \in Nat /\ n > 0
        BY FlatAssumption
      <4>2. f \in [1 .. n -> Seq(Opcode)]
        BY <3>3, <3>4
      <4>3. QED BY <4>1, <4>2
    <3>5. Images \subseteq {f \in Seq(Seq(Opcode)) : Len(f) > 0}
      BY <3>4 DEF Images
    <3>6. <<stream>> \in Seq(Seq(Opcode)) /\ Len(<<stream>>) > 0
      BY <3>1 DEF Formed
    <3>7. images' \in Images \/ images' = <<stream>>
      BY <2>2 DEF Compile
    <3>8. QED BY <3>5, <3>6, <3>7 DEF ImagesInv
  <2>3. CASE UNCHANGED flatVars
    BY <2>3 DEF flatVars, vars, ImagesInv
  <2>4. QED BY <2>1, <2>2, <2>3 DEF FlatNext
<1>3. QED BY <1>1, <1>2, ReadInvariant, PTL DEF FlatSpec

\* The first alternative is the read of an image that is legal.
LEMMA FirstOf ==
  ASSUME ImagesInv, Legal # {}
  PROVE  \E c \in Legal : First = Raw(images[c]) /\ images[c] \in Seq(Opcode)
<1> DEFINE Lowest(i) == \A j \in Legal : i <= j
<1>1. Legal \subseteq Nat /\ \A i \in Legal : images[i] \in Seq(Opcode)
  BY DEF Legal, ImagesInv
<1>2. \E i \in Legal : Lowest(i)
  BY <1>1, Least
<1> DEFINE c == CHOOSE i \in Legal : Lowest(i)
<1>3. c \in Legal
  BY <1>2
<1>4. First = Raw(images[c])
  BY Zenon DEF First
<1> HIDE DEF c
<1>5. QED BY <1>1, <1>3, <1>4

\* What the comparison of a case with live operands starts from.
LEMMA FirstReads ==
  ASSUME NEW s \in Seq(Opcode), NEW f, f = Raw(s), NEW in, in = z80_decode(Padded(f)),
         LiveOperands(in)
  PROVE  /\ Compared(in) \in 1 .. 2 /\ Compared(in) <= Len(f) /\ Len(f) \in 1 .. 4
         /\ Compared(in) <= in.length /\ f \in Seq(Opcode)
         /\ in.prefix = "none" => f[1] \in Ordinary /\ in.opcode = f[1] /\ Compared(in) = 1
         /\ in.prefix # "none" =>
              /\ f[1] \in Prefix /\ f[2] \in Ordinary /\ Compared(in) = 2
              /\ in.prefix = PrefixName(f[1]) /\ in.opcode = f[2]
              /\ in.uses_disp = op_uses_hl_mem(in.opcode)
<1> DEFINE p == Padded(f)
           q == Padded(s)
<1>1. /\ f \in Seq(Opcode) /\ Len(f) = z80_decode(q).length /\ Len(f) \in 1 .. 4
      /\ \A i \in 1 .. Len(f) : f[i] = q[i]
  BY RawReads
<1>2. /\ Readable(p) /\ Readable(q)
      /\ \A i \in 1 .. Len(f) : p[i] = f[i]
  BY <1>1, PaddedReads
<1>3. 1 \in 1 .. Len(f) /\ p[1] = f[1] /\ q[1] = f[1]
  BY <1>1, <1>2
<1>4. f[1] \in Prefix => Len(f) >= 2
  BY <1>1, <1>2, <1>3, ReachBytes
<1>5. /\ in.prefix = "none" => p[1] \in Ordinary /\ in.opcode = p[1]
      /\ in.prefix # "none" =>
           /\ p[1] \in Prefix /\ p[2] \in Ordinary
           /\ in.prefix = PrefixName(p[1]) /\ in.opcode = p[2]
           /\ in.uses_disp = op_uses_hl_mem(in.opcode)
  BY <1>2, LiveHead
<1>6. in.length \in {2, 3}
  BY DEF LiveOperands
<1> HIDE DEF p, q
<1>7. CASE in.prefix = "none"
  <2>1. Compared(in) = 1
    BY <1>7 DEF Compared
  <2>2. QED BY <1>1, <1>3, <1>5, <1>6, <1>7, <2>1
<1>8. CASE in.prefix # "none"
  <2>1. Compared(in) = 2
    BY <1>8 DEF Compared
  <2>2. f[1] \in Prefix /\ Len(f) >= 2
    BY <1>3, <1>4, <1>5, <1>8
  <2>3. p[2] = f[2]
    BY <1>1, <1>2, <2>2
  <2>4. /\ f[2] \in Ordinary /\ in.prefix = PrefixName(f[1]) /\ in.opcode = f[2]
        /\ in.uses_disp = op_uses_hl_mem(in.opcode)
    BY <1>3, <1>5, <1>8, <2>3, Zenon
  <2>5. Compared(in) \in 1 .. 2 /\ Compared(in) <= Len(f) /\ Compared(in) <= in.length
    BY <1>1, <1>6, <2>1, <2>2
  <2>6. QED BY <1>1, <1>8, <2>1, <2>2, <2>4, <2>5, Zenon
<1>9. QED BY <1>7, <1>8

\* The first n bytes of two sequences are compared byte by byte.
LEMMA SameFront ==
  ASSUME NEW a \in Seq(Opcode), NEW b \in Seq(Opcode), NEW n \in 1 .. 2, n <= Len(a), n <= Len(b)
  PROVE  SubSeq(a, 1, n) = SubSeq(b, 1, n) <=> \A i \in 1 .. n : a[i] = b[i]
<1>1. /\ SubSeq(a, 1, n) \in Seq(Opcode) /\ Len(SubSeq(a, 1, n)) = n
      /\ \A i \in 1 .. n : SubSeq(a, 1, n)[i] = a[i]
  BY SMT
<1>2. /\ SubSeq(b, 1, n) \in Seq(Opcode) /\ Len(SubSeq(b, 1, n)) = n
      /\ \A i \in 1 .. n : SubSeq(b, 1, n)[i] = b[i]
  BY SMT
<1>3. ASSUME \A i \in 1 .. n : a[i] = b[i] PROVE SubSeq(a, 1, n) = SubSeq(b, 1, n)
  BY <1>1, <1>2, <1>3, SeqEqual
<1>4. ASSUME SubSeq(a, 1, n) = SubSeq(b, 1, n) PROVE \A i \in 1 .. n : a[i] = b[i]
  BY <1>1, <1>2, <1>4
<1>5. QED BY <1>3, <1>4

\* A sequence split in two.
LEMMA Split ==
  ASSUME NEW a \in Seq(Opcode), NEW n \in 1 .. 2, NEW m \in 1 .. 4, n <= m, m <= Len(a)
  PROVE  SubSeq(a, 1, n) \o SubSeq(a, n + 1, m) = SubSeq(a, 1, m)
<1> DEFINE u == SubSeq(a, 1, n)
           v == SubSeq(a, n + 1, m)
           w == SubSeq(a, 1, m)
<1>1. u \in Seq(Opcode) /\ Len(u) = n /\ \A i \in 1 .. n : u[i] = a[i]
  BY SMT
<1>2. v \in Seq(Opcode) /\ Len(v) = m - n /\ \A i \in 1 .. m - n : v[i] = a[n + i]
  BY SMT
<1>3. w \in Seq(Opcode) /\ Len(w) = m /\ \A i \in 1 .. m : w[i] = a[i]
  BY SMT
<1> HIDE DEF u, v, w
<1>4. u \o v \in Seq(Opcode) /\ Len(u \o v) = m
  BY <1>1, <1>2
<1>5. \A i \in 1 .. m : (u \o v)[i] = a[i]
  <2> TAKE i \in 1 .. m
  <2>2. CASE i <= n
    BY <1>1, <1>2, <2>2
  <2>3. CASE i > n
    <3>1. i - n \in 1 .. m - n /\ n + (i - n) = i
      BY <2>3
    <3>2. (u \o v)[i] = v[i - n]
      BY <1>1, <1>2, <2>3
    <3>3. v[i - n] = a[n + (i - n)]
      BY <1>2, <3>1
    <3>4. QED BY <3>1, <3>2, <3>3
  <2>4. i <= n \/ i > n
    OBVIOUS
  <2>5. QED BY <2>2, <2>3, <2>4, Zenon
<1>6. u \o v = w
  BY <1>3, <1>4, <1>5, SeqEqual
<1>7. QED BY <1>6 DEF u, v, w

\* The bytes that a case compares are those of the live instruction exactly if it
\* has its shape.
LEMMA LiveCase ==
  ASSUME Formed(stream), NEW s \in Seq(Opcode), NEW f, f = Raw(s),
         NEW in, in = z80_decode(Padded(f)), LiveOperands(in)
  PROVE  LET n == Compared(in)
         IN  /\ SubSeq(f, 1, n) = Live(n) =>
                  /\ in = z80_decode(stream)
                  /\ SubSeq(f, 1, n) \o SubSeq(stream, n + 1, in.length) = Live(in.length)
             /\ (/\ in.prefix = z80_decode(stream).prefix
                 /\ in.opcode = z80_decode(stream).opcode
                 /\ LiveOperands(z80_decode(stream))) => SubSeq(f, 1, n) = Live(n)
<1> DEFINE n == Compared(in)
           p == Padded(f)
           live == z80_decode(stream)
<1>1. /\ n \in 1 .. 2 /\ n <= Len(f) /\ Len(f) \in 1 .. 4 /\ n <= in.length /\ f \in Seq(Opcode)
      /\ in.prefix = "none" => f[1] \in Ordinary /\ in.opcode = f[1] /\ n = 1
      /\ in.prefix # "none" =>
           /\ f[1] \in Prefix /\ f[2] \in Ordinary /\ n = 2
           /\ in.prefix = PrefixName(f[1]) /\ in.opcode = f[2]
  BY FirstReads
<1>2. stream \in Seq(Opcode) /\ Len(stream) \in Nat /\ Len(stream) >= 4
  BY DEF Formed
<1>3. Readable(p) /\ Len(p) \in Nat /\ Len(p) >= 4 /\ \A i \in 1 .. Len(f) : p[i] = f[i]
  BY <1>1, PaddedReads DEF Readable
<1>4. in.length \in 2 .. 3
  BY DEF LiveOperands
<1>5. SubSeq(f, 1, n) = Live(n) <=> \A i \in 1 .. n : f[i] = stream[i]
  <2> HIDE DEF n
  <2>1. n <= Len(stream)
    BY <1>1, <1>2
  <2>2. QED BY <1>1, <1>2, <2>1, SameFront DEF Live
<1>6. Readable(stream)
  <2>1. stream[1] \notin Prefix \/ stream[2] \notin Prefix
    BY DEF Formed, Ordinary, Prefix
  <2>2. 1 \in 1 .. Len(stream) /\ 2 \in 1 .. Len(stream)
    BY <1>2
  <2>3. QED BY <1>2, <2>1, <2>2 DEF Readable
<1>7. /\ live.prefix = "none" => stream[1] \in Ordinary /\ live.opcode = stream[1]
      /\ LiveOperands(live) /\ live.prefix # "none" =>
           /\ stream[1] \in Prefix /\ stream[2] \in Ordinary
           /\ live.prefix = PrefixName(stream[1]) /\ live.opcode = stream[2]
  BY <1>6, LiveHead
<1> HIDE DEF n, p, live
<1>8. ASSUME \A i \in 1 .. n : f[i] = stream[i]
      PROVE  /\ in = live
             /\ SubSeq(f, 1, n) \o SubSeq(stream, n + 1, in.length) = Live(in.length)
  <2>1. \A i \in 1 .. n : p[i] = stream[i]
    BY <1>1, <1>3, <1>8
  <2>2. \/ p[1] = stream[1] /\ stream[1] \in Ordinary
        \/ p[1] = stream[1] /\ stream[1] \in Prefix /\ p[2] = stream[2] /\ stream[2] \in Ordinary
    <3>1. CASE in.prefix = "none"
      BY <1>1, <1>8, <2>1, <3>1
    <3>2. CASE in.prefix # "none"
      BY <1>1, <1>8, <2>1, <3>2
    <3>3. QED BY <3>1, <3>2
  <2>3. z80_decode(p) = z80_decode(stream)
    BY <1>2, <1>3, <2>2, HeadsAlike
  <2>4. SubSeq(stream, 1, n) \o SubSeq(stream, n + 1, in.length) = SubSeq(stream, 1, in.length)
    <3>1. in.length \in 1 .. 4 /\ in.length <= Len(stream)
      BY <1>2, <1>4
    <3>2. QED BY <1>1, <1>2, <3>1, Split
  <2>5. SubSeq(f, 1, n) = SubSeq(stream, 1, n)
    BY <1>5, <1>8 DEF Live
  <2>6. QED BY <2>3, <2>4, <2>5 DEF p, live, Live
<1>9. ASSUME in.prefix = live.prefix, in.opcode = live.opcode, LiveOperands(live)
      PROVE  \A i \in 1 .. n : f[i] = stream[i]
  <2>1. CASE in.prefix = "none"
    BY <1>1, <1>7, <1>9, <2>1
  <2>2. CASE in.prefix # "none"
    <3>1. /\ f[1] \in Prefix /\ stream[1] \in Prefix /\ PrefixName(f[1]) = PrefixName(stream[1])
          /\ f[2] = stream[2] /\ n = 2
      BY <1>1, <1>7, <1>9, <2>2
    <3>2. f[1] = stream[1]
      BY <3>1 DEF Prefix, PrefixName
    <3>3. QED BY <3>1, <3>2
  <2>3. QED BY <2>1, <2>2
<1>10. QED BY <1>5, <1>8, <1>9 DEF n, live

\* Whether operands are read live is a matter of the shape.
LEMMA LiveByShape ==
  ASSUME NEW p, Readable(p), NEW q, Readable(q), NEW a, a = z80_decode(p), NEW b, b = z80_decode(q),
         a.prefix = b.prefix, a.opcode = b.opcode, a.length = b.length, LiveOperands(a)
  PROVE  LiveOperands(b)
<1>1. /\ a.prefix \in {"dd", "fd"} => a.uses_disp = op_uses_hl_mem(a.opcode)
      /\ b.prefix \in {"dd", "fd"} => b.uses_disp = op_uses_hl_mem(b.opcode)
  <2>1. ASSUME NEW z, Readable(z), NEW in, in = z80_decode(z), in.prefix \in {"dd", "fd"}
        PROVE  in.uses_disp = op_uses_hl_mem(in.opcode)
    <3>1. Reaches(in, PrefixCount(z), z[PrefixCount(z) + 1])
      BY <2>1, Reach
    <3>2. QED BY <2>1, <3>1, Zenon DEF Reaches
  <2>2. QED BY <2>1
<1>2. CASE a.prefix = "none"
  BY <1>2 DEF LiveOperands
<1>3. CASE a.prefix # "none"
  <2>1. /\ a.prefix \in {"dd", "fd"} /\ a.uses_disp /\ a.length = 3
        /\ X(a.opcode) = 2 /\ Z(a.opcode) = 6
    BY <1>3, Zenon DEF LiveOperands
  <2>2. b.uses_disp
    BY <1>1, <2>1, Zenon
  <2>3. QED BY <2>1, <2>2 DEF LiveOperands
<1>4. QED BY <1>2, <1>3

\* Whatever images are compiled, and however many, the flat code executes exactly the
\* live instruction, to the interpreter's effect, or misses.
THEOREM FlatIsExact == Agreeing => (FlatSpec => []FlatExact)
<1>1. ReadInv /\ ImagesInv => FlatExact
  <2> SUFFICES ASSUME ReadInv, ImagesInv, stage = "compiled", NEW code \in Case
               PROVE  /\ code = Live(pc)
                      /\ emit_flat_body(z80_decode(Padded(code))) = [flow |-> flow, cyc |-> cyc, r |-> r]
    BY DEF FlatExact
  <2>1. Formed(stream) /\ rounds \in Nat \ {0} /\ Agree /\ z80_decode(stream).length = pc
    BY DEF ReadInv, Agree
  <2> DEFINE in == z80_decode(Padded(First))
             n  == Compared(in)
  <2>2. Alternatives # {}
    BY DEF Case
  <2>3. code = Live(pc)
    <3>1. CASE ~ (SameShape /\ LiveOperands(in))
      <4>1. code \in Matching
        BY <2>2, <3>1, Zenon DEF Case
      <4>2. PICK i \in Legal : code = Raw(images[i])
        BY <4>1 DEF Matching, Alternatives
      <4>3. images[i] \in Seq(Opcode)
        BY DEF ImagesInv, Legal
      <4>4. code = Live(Len(code))
        BY <4>1 DEF Matching
      <4>5. QED BY <2>1, <4>2, <4>3, <4>4, Unmixed
    <3>2. CASE SameShape /\ LiveOperands(in)
      <4>1. Legal # {}
        BY <2>2 DEF Alternatives
      <4>2. PICK c \in Legal : First = Raw(images[c]) /\ images[c] \in Seq(Opcode)
        BY <4>1, FirstOf
      <4>3. /\ SubSeq(First, 1, n) = Live(n)
            /\ code = SubSeq(First, 1, n) \o SubSeq(stream, n + 1, in.length)
        <5> HIDE DEF in, n
        <5>1. code \in IF SubSeq(First, 1, n) # Live(n) THEN {}
                       ELSE {SubSeq(First, 1, n) \o SubSeq(stream, n + 1, in.length)}
          BY <2>2, <3>2, Zenon DEF Case, in, n
        <5>2. QED BY <5>1, Zenon
      <4>4. in = z80_decode(stream) /\ code = Live(in.length)
        BY <2>1, <3>2, <4>2, <4>3, LiveCase
      <4>5. QED BY <2>1, <4>4
    <3>3. QED BY <3>1, <3>2
  <2>4. z80_decode(Padded(code)) = z80_decode(stream)
    BY <2>1, <2>3, Guarded
  <2>5. emit_flat_body(z80_decode(stream)) = [flow |-> flow, cyc |-> cyc, r |-> r]
    BY <2>1, BodyRuns
  <2>6. QED BY <2>3, <2>4, <2>5
<1>2. QED BY <1>1, ReadInvariant, ImagesInvariant, PTL

\* Nor does it miss on what an image holds, or on what differs from all of them in an
\* operand read live.
THEOREM FlatIsComplete == Agreeing => (FlatSpec => []FlatComplete)
<1>1. ReadInv /\ ImagesInv => FlatComplete
  <2> SUFFICES ASSUME ReadInv, ImagesInv, stage = "compiled" PROVE FlatComplete
    BY DEF FlatComplete
  <2> DEFINE live == z80_decode(stream)
             in   == z80_decode(Padded(First))
             n    == Compared(in)
  <2>1. Formed(stream) /\ live.length = pc
    BY DEF ReadInv, Agree
  <2>2. pc \in 1 .. 4 /\ z80_decode(Padded(Live(pc))) = live
    BY <2>1, Guarded
  <2>3. Shape(Live(pc)) = <<live.prefix, live.opcode, live.length>>
    BY <2>2, Zenon DEF Shape
  <2>4. Shape(First) = <<in.prefix, in.opcode, in.length>>
    BY Zenon DEF Shape
  <2>5. ASSUME Alternatives # {}, LiveOperands(in), LiveOperands(live), Shape(First) = Shape(Live(pc)), SameShape
        PROVE  Case # {}
    <3>1. in.prefix = live.prefix /\ in.opcode = live.opcode
      <4> HIDE DEF in, live
      <4>1. QED BY <2>3, <2>4, <2>5
    <3>2. Legal # {}
      BY <2>5 DEF Alternatives
    <3>3. PICK c \in Legal : First = Raw(images[c]) /\ images[c] \in Seq(Opcode)
      BY <3>2, FirstOf
    <3>4. SubSeq(First, 1, n) = Live(n)
      BY <2>1, <2>5, <3>1, <3>3, LiveCase
    <3>5. Case = {SubSeq(First, 1, n) \o SubSeq(stream, n + 1, in.length)}
      BY <2>5, <3>4, Zenon DEF Case
    <3>6. QED BY <3>5
  <2>6. ASSUME Alternatives # {}, SameShape, Shape(First) = Shape(Live(pc))
        PROVE  LiveOperands(in) <=> LiveOperands(live)
    <3>1. /\ in.prefix = live.prefix /\ in.opcode = live.opcode /\ in.length = live.length
      <4> HIDE DEF in, live
      <4>1. QED BY <2>3, <2>4, <2>6
    <3>2. PICK c \in Legal : First = Raw(images[c]) /\ images[c] \in Seq(Opcode)
      BY <2>6, FirstOf DEF Alternatives
    <3>3. Readable(Padded(First))
      BY <3>2, RawReads, PaddedReads
    <3>4. Readable(Padded(Live(pc)))
      BY <2>1, <2>2, LiveReads, PaddedReads
    <3>5. QED BY <2>2, <3>1, <3>3, <3>4, LiveByShape
  <2>7. ASSUME Legal # {} PROVE First \in Alternatives
    BY <2>7, FirstOf DEF Alternatives
  <2>8. ASSUME Live(pc) \in Alternatives PROVE Case # {}
    <3>1. Alternatives # {} /\ First \in Alternatives
      BY <2>7, <2>8 DEF Alternatives
    <3>2. CASE SameShape /\ LiveOperands(in)
      <4>1. Shape(First) = Shape(Live(pc))
        BY <2>8, <3>1, <3>2, Zenon DEF SameShape
      <4>2. QED BY <2>5, <2>6, <3>1, <3>2, <4>1
    <3>3. CASE ~ (SameShape /\ LiveOperands(in))
      <4>1. Case = Matching
        BY <3>1, <3>3, Zenon DEF Case
      <4>2. Live(pc) \in Matching
        <5>1. Len(Live(pc)) = pc
          BY <2>1, <2>2, LiveReads
        <5>2. QED BY <2>8, <5>1 DEF Matching
      <4>3. QED BY <4>1, <4>2
    <3>4. QED BY <3>2, <3>3
  <2>9. ASSUME LiveOperands(live),
               \A i \in 1 .. Len(images) :
                 ~ Illegal(images[i]) /\ Shape(Raw(images[i])) = Shape(Live(pc))
        PROVE  Case # {}
    <3>1. 1 \in 1 .. Len(images)
      BY DEF ImagesInv
    <3>2. Legal # {} /\ Alternatives # {} /\ First \in Alternatives
      BY <2>7, <2>9, <3>1 DEF Legal, Alternatives
    <3>3. \A a \in Alternatives : Shape(a) = Shape(Live(pc))
      <4>1. TAKE a \in Alternatives
      <4>2. PICK i \in Legal : a = Raw(images[i])
        BY <4>1 DEF Alternatives
      <4>3. i \in 1 .. Len(images)
        BY DEF Legal
      <4>4. QED BY <2>9, <4>2, <4>3, Zenon
    <3>4. SameShape /\ Shape(First) = Shape(Live(pc))
      BY <3>2, <3>3, Zenon DEF SameShape
    <3>5. QED BY <2>5, <2>6, <2>9, <3>2, <3>4
  <2>10. QED BY <2>8, <2>9 DEF FlatComplete
<1>2. QED BY <1>1, ReadInvariant, ImagesInvariant, PTL

-----------------------------------------------------------------------------
(* Jump tables: arithmetic.                                                 *)

\* A number is its quotient and its remainder.
LEMMA Divide ==
  ASSUME NEW x \in Int, NEW d \in Nat \ {0}
  PROVE  /\ x \div d \in Int /\ x % d \in 0 .. d - 1
         /\ x = (d * (x \div d)) + (x % d)
OBVIOUS

\* There is only one such remainder.
LEMMA Remainder ==
  ASSUME NEW d \in Nat \ {0}, NEW q \in Int, NEW rest \in 0 .. d - 1
  PROVE  ((d * q) + rest) % d = rest
<1> DEFINE x == (d * q) + rest
           p == x \div d
           s == x % d
<1>1. x \in Int
  OBVIOUS
<1>2. p \in Int /\ s \in 0 .. d - 1 /\ x = (d * p) + s
  BY <1>1, Divide
<1> HIDE DEF p, s
<1>3. d * (q - p) = s - rest
  BY <1>2
<1>4. q - p <= 0
  <2>1. SUFFICES ASSUME q - p >= 1 PROVE FALSE
    BY <1>2
  <2>2. d * (q - p) >= d
    BY <2>1, <1>2
  <2>3. QED BY <2>2, <1>2, <1>3
<1>5. q - p >= 0
  <2>1. SUFFICES ASSUME p - q >= 1 PROVE FALSE
    BY <1>2
  <2>2. d * (p - q) >= d
    BY <2>1, <1>2
  <2>3. d * (p - q) = rest - s
    BY <1>2
  <2>4. QED BY <2>2, <2>3, <1>2
<1>6. s = rest
  BY <1>2, <1>4, <1>5
<1>7. QED BY <1>6 DEF s

\* A remainder is no more than what is divided.
LEMMA NotAbove ==
  ASSUME NEW d \in Nat \ {0}, NEW x \in Nat
  PROVE  x % d <= x
<1> DEFINE q == x \div d
           rest == x % d
<1>1. q \in Int /\ rest \in 0 .. d - 1 /\ x = (d * q) + rest
  BY Divide
<1> HIDE DEF q, rest
<1>2. q >= 0
  <2>1. SUFFICES ASSUME q <= -1 PROVE FALSE
    BY <1>1
  <2>2. d * q <= -d
    BY <2>1, <1>1
  <2>3. QED BY <2>2, <1>1
<1>3. d * q >= 0
  BY <1>1, <1>2
<1>4. rest <= x
  BY <1>1, <1>3
<1>5. QED BY <1>4 DEF rest

\* Reducing a number early does not change a sum's remainder.
LEMMA EarlyRemainder ==
  ASSUME NEW d \in Nat \ {0}, NEW x \in Int, NEW y \in Int
  PROVE  ((x % d) + y) % d = (x + y) % d
<1> DEFINE q == x \div d
           rest == x % d
           p == (rest + y) \div d
           t == (rest + y) % d
<1>1. q \in Int /\ rest \in 0 .. d - 1 /\ x = (d * q) + rest
  BY Divide
<1> HIDE DEF q, rest
<1>2. p \in Int /\ t \in 0 .. d - 1 /\ rest + y = (d * p) + t
  <2>1. rest + y \in Int
    BY <1>1
  <2>2. QED BY <2>1, Divide
<1> HIDE DEF p, t
<1>3. x + y = (d * (q + p)) + t
  BY <1>1, <1>2
<1>4. ((d * (q + p)) + t) % d = t
  <2>1. q + p \in Int
    BY <1>1, <1>2
  <2>2. QED BY <1>2, <2>1, Remainder
<1>5. QED BY <1>3, <1>4 DEF rest, t

\* Bytes, words and the halves of a word.
LEMMA Halved ==
  /\ B \in Nat \ {0, 1} /\ W \in Nat \ {0} /\ B <= W
  /\ \A h, l \in Byte : h * B + l \in 0 .. W - 1
  /\ \A x \in 0 .. W - 1 :
       /\ x \div B \in Byte /\ x % B \in Byte
       /\ x = (x \div B) * B + (x % B)
       /\ \A l \in Byte : x - (x % B) + l \in 0 .. W - 1
       /\ x < B => x % B = x
<1>1. B \in Nat \ {0, 1}
  BY JumpTableAssumption
<1>2. B * B \in Nat \ {0} /\ B <= B * B
  BY <1>1
<1>3. ASSUME NEW h \in Byte, NEW l \in Byte PROVE h * B + l \in 0 .. W - 1
  <2>1. h \in Int /\ l \in Int /\ 0 <= h /\ h <= B - 1 /\ 0 <= l /\ l <= B - 1
    BY <1>1 DEF Byte
  <2>2. h * B >= 0 /\ h * B <= (B - 1) * B
    BY <2>1, <1>1
  <2>3. (B - 1) * B = B * B - B
    BY <1>1
  <2>4. QED BY <2>1, <2>2, <2>3, <1>1, <1>2 DEF W
<1>4. ASSUME NEW x \in 0 .. W - 1
      PROVE  /\ x \div B \in Byte /\ x % B \in Byte
             /\ x = (x \div B) * B + (x % B)
             /\ \A l \in Byte : x - (x % B) + l \in 0 .. W - 1
             /\ x < B => x % B = x
  <2> DEFINE q == x \div B
             rest == x % B
  <2>1. x \in Int /\ 0 <= x /\ x < B * B
    BY <1>2 DEF W
  <2>2. q \in Int /\ rest \in 0 .. B - 1 /\ x = (B * q) + rest
    BY <1>1, <2>1, Divide
  <2>3. x < B => rest = x
    BY <1>1, <2>1
  <2> HIDE DEF q, rest
  <2>4. q >= 0
    <3>1. SUFFICES ASSUME q <= -1 PROVE FALSE
      BY <2>2
    <3>2. B * q <= -B
      BY <3>1, <2>2, <1>1
    <3>3. QED BY <3>2, <2>1, <2>2, <1>1
  <2>5. q <= B - 1
    <3>1. SUFFICES ASSUME q >= B PROVE FALSE
      BY <2>2, <1>1
    <3>2. B * q >= B * B
      BY <3>1, <2>2, <1>1
    <3>3. QED BY <3>2, <2>1, <2>2, <1>1
  <2>6. B * q = q * B
    BY <1>1, <2>2
  <2>7. q \in Byte /\ rest \in Byte /\ x = q * B + rest
    BY <2>2, <2>4, <2>5, <2>6, <1>1 DEF Byte
  <2>8. ASSUME NEW l \in Byte PROVE x - rest + l \in 0 .. W - 1
    <3>1. x - rest + l = q * B + l
      <4>1. l \in Int /\ q * B \in Int
        BY <1>1, <2>2 DEF Byte
      <4>2. QED BY <4>1, <2>2, <2>6
    <3>2. QED BY <3>1, <2>7, <1>3
  <2>9. QED BY <2>3, <2>7, <2>8 DEF q, rest
<1>5. QED BY <1>1, <1>2, <1>3, <1>4 DEF W

\* The bits two bytes share make no more than either of them.
LEMMA AndBelow ==
  ASSUME NEW a \in Byte, NEW n \in Byte
  PROVE  And[a][n] \in 0 .. n
<1> DEFINE S == {g \in [Byte -> Byte] : \A y \in Byte : g[y] \in 0 .. y}
           zero == [y \in Byte |-> 0]
           Step(x, g) == [y \in Byte |-> 2 * g[y \div 2] + (x % 2) * (y % 2)]
           H == [x \in Nat |-> [g \in S |-> Step(x, g)]]
           prev == [x \in Nat |-> x \div 2]
           Rec(f) == f = [x \in Byte |->
                           [y \in Byte |-> IF x = 0 THEN 0
                              ELSE 2 * f[x \div 2][y \div 2] + (x % 2) * (y % 2)]]
<1>1. 0 \in Byte /\ B \in Nat /\ \A y \in Byte : y \in Nat /\ 0 .. y \subseteq Byte
  BY Halved DEF Byte
<1>2. zero \in S
  BY <1>1
<1>3. Descends(prev)
  BY DEF Descends
<1>4. ASSUME NEW x \in Nat \ {0}, NEW g \in S PROVE Step(x, g) \in S
  <2>1. ASSUME NEW y \in Byte
        PROVE  2 * g[y \div 2] + (x % 2) * (y % 2) \in 0 .. y
    <3>1. y \in Nat /\ y \div 2 \in Nat /\ y = 2 * (y \div 2) + (y % 2)
          /\ y % 2 \in 0 .. 1 /\ x % 2 \in 0 .. 1 /\ y \div 2 <= y
      BY <1>1
    <3>2. y \div 2 \in Byte
      BY <1>1, <3>1
    <3>3. g[y \div 2] \in 0 .. y \div 2
      BY <3>2
    <3>4. (x % 2) * (y % 2) \in 0 .. y % 2
      BY <3>1
    <3>5. QED BY <3>1, <3>3, <3>4
  <2>2. QED BY <2>1, <1>1
<1>5. StaysIn(S, H)
  BY <1>4 DEF StaysIn
<1> HIDE DEF S, zero, Step
<1>6. PICK f : Recursive(f, S, zero, prev, H)
  <2> HIDE DEF H, prev
  <2>1. QED BY <1>2, <1>3, <1>5, Recursion
<1>7. /\ f \in [Nat -> S] /\ f[0] = zero
      /\ \A x \in Nat \ {0} : f[x] = Step(x, f[x \div 2])
  <2>1. f \in [Nat -> S] /\ f[0] = zero
    BY <1>6 DEF Recursive
  <2>2. ASSUME NEW x \in Nat \ {0} PROVE f[x] = Step(x, f[x \div 2])
    <3>1. f[x] = H[x][f[prev[x]]]
      BY <1>6 DEF Recursive
    <3>2. prev[x] = x \div 2 /\ f[x \div 2] \in S
      BY <2>1
    <3>3. QED BY <3>1, <3>2
  <2>3. QED BY <2>1, <2>2
<1> HIDE DEF H, prev
<1> DEFINE graph == [x \in Byte |-> f[x]]
<1>8. Rec(graph)
  <2>1. ASSUME NEW x \in Byte, x # 0
        PROVE  graph[x] = [y \in Byte |-> 2 * graph[x \div 2][y \div 2] + (x % 2) * (y % 2)]
    <3>1. x \in Nat \ {0} /\ x \div 2 \in Byte
      BY <2>1, <1>1 DEF Byte
    <3>2. graph[x] = f[x] /\ graph[x \div 2] = f[x \div 2]
      BY <3>1
    <3>3. QED BY <3>1, <3>2, <1>7 DEF Step
  <2>2. graph[0] = [y \in Byte |-> 0]
    BY <1>1, <1>7 DEF zero
  <2> DEFINE row(x) == [y \in Byte |-> IF x = 0 THEN 0
                          ELSE 2 * graph[x \div 2][y \div 2] + (x % 2) * (y % 2)]
  <2>3. ASSUME NEW x \in Byte PROVE graph[x] = row(x)
    <3>1. CASE x = 0
      BY <2>2, <3>1
    <3>2. CASE x # 0
      BY <2>1, <3>2
    <3>3. QED BY <3>1, <3>2
  <2> HIDE DEF row
  <2>4. graph = [x \in Byte |-> row(x)]
    BY <2>3
  <2>5. QED BY <2>4 DEF row
<1>9. Rec(And)
  <2>1. And = CHOOSE g : Rec(g)
    BY DEF And
  <2>2. QED BY <1>8, <2>1
<1> DEFINE T == {x \in Byte : And[x] \notin S}
<1>10. T = {}
  <2>1. SUFFICES ASSUME T # {} PROVE FALSE
    OBVIOUS
  <2>2. PICK x \in T : \A z \in T : x <= z
    <3>1. T \subseteq Nat
      BY <1>1
    <3>2. QED BY <2>1, <3>1, Least
  <2>3. x # 0
    BY <2>2, <1>2, <1>9 DEF zero
  <2>4. x \in Nat \ {0} /\ x \div 2 \in Byte /\ ~ (x <= x \div 2)
    BY <2>2, <2>3, <1>1 DEF Byte
  <2>5. And[x \div 2] \in S
    BY <2>2, <2>4
  <2>6. And[x] = Step(x, And[x \div 2])
    BY <2>2, <2>3, <1>9 DEF Step
  <2>7. QED BY <2>2, <2>4, <2>5, <2>6, <1>4
<1>11. And[a] \in S
  BY <1>10
<1>12. QED BY <1>11 DEF S

Registers == {"a", "b", "c", "d", "e", "h", "l"}
Ranges    == [idx : BOOLEAN, lo : Int, hi : Int, bounded : BOOLEAN]
Word      == 0 .. W - 1

Hls       == [known : BOOLEAN, has : BOOLEAN, scale : Nat, base : Word]
Sims      == [a : Ranges, ap : Ranges, cp : Byte \cup {-1}, hl : Hls,
              bc : Word \cup {-1}, de : Word \cup {-1}, c : BOOLEAN, b0 : BOOLEAN,
              e : BOOLEAN, d0 : BOOLEAN, h0 : BOOLEAN]
Cpus      == [a : Byte, ap : Byte, carry : BOOLEAN, b : Byte, c : Byte,
              d : Byte, e : Byte, hl : Word]
Uses      == [regs : SUBSET Registers, compare : BOOLEAN]

TypeOK == sim \in Sims /\ cpu \in Cpus /\ used \in Uses

\* What is written at once: an instruction's registers and A, when copied.
LEMMA RegistersType ==
  ASSUME TypeOK, NEW regs \in SUBSET Registers, NEW copied \in SUBSET Registers,
         NEW compare \in BOOLEAN, Instruction(regs, copied, compare)
  PROVE  used' \in Uses
BY DEF TypeOK, Instruction, Uses

\* The operands.
LEMMA Operands ==
  /\ Bytes \subseteq Byte /\ Words \subseteq Word /\ 0 \in Byte /\ 0 \in Word
  /\ Byte \subseteq Word /\ Byte \subseteq Nat /\ Word \subseteq Nat
  /\ B - 1 \in Byte /\ W - 1 \in Word /\ B \in Nat
  /\ \A n \in Int : n % B \in Byte /\ n % W \in Word
<1>1. B \in Nat \ {0, 1} /\ W \in Nat \ {0} /\ B <= W
  BY Halved
<1>2. Bytes \subseteq Byte /\ Words \subseteq Word
  BY JumpTableAssumption DEF Byte, Word
<1>3. QED BY <1>1, <1>2 DEF Byte, Word

\* What is done to the range of an index makes a range.
LEMMA RangeTypes ==
  ASSUME NEW s \in Ranges, NEW n \in Int
  PROVE  /\ Down(s, n) \in Ranges /\ Up(s) \in Ranges /\ Double(s) \in Ranges
         /\ Mask(s, n) \in Ranges /\ Below(s, n) \in Ranges /\ AtLeast(s, n) \in Ranges
         /\ [s EXCEPT !.idx = FALSE] \in Ranges
<1>1. s.lo \in Int /\ s.hi \in Int
  BY DEF Ranges
<1>2. B \in Int
  BY Halved
<1>3. /\ AtZero(s.lo - n) \in Int /\ s.hi - n \in Int /\ s.lo + 1 \in Int /\ s.hi + 1 \in Int
      /\ Cut(2 * s.lo) \in Int /\ Cut(2 * s.hi) \in Int /\ 0 \in Int
      /\ (IF n - 1 < s.hi THEN n - 1 ELSE s.hi) \in Int
      /\ (IF n > s.lo THEN n ELSE s.lo) \in Int
  BY <1>1, <1>2 DEF AtZero, Cut
<1>4. Down(s, n) \in Ranges /\ Up(s) \in Ranges /\ Double(s) \in Ranges
  BY <1>3 DEF Down, Up, Double, Ranges
<1>5. Mask(s, n) \in Ranges /\ Below(s, n) \in Ranges /\ AtLeast(s, n) \in Ranges
  BY <1>3 DEF Mask, Below, AtLeast, Ranges
<1>6. [s EXCEPT !.idx = FALSE] \in Ranges
  BY DEF Ranges
<1>7. QED BY <1>4, <1>5, <1>6

\* The bytes and words in the registers are numbers.
LEMMA Numbers ==
  ASSUME TypeOK
  PROVE  /\ cpu.a \in Byte /\ cpu.a \in Nat /\ cpu.hl \in Nat /\ sim.cp \in Int
         /\ sim.cp \in Byte \cup {-1} /\ sim.a \in Ranges /\ sim.hl.base \in Nat
         /\ sim.hl.scale \in Nat /\ cpu.carry \in BOOLEAN
         /\ sim.de \in Int /\ sim.bc \in Int
<1>1. /\ cpu.a \in Byte /\ cpu.hl \in Word /\ sim.cp \in Byte \cup {-1}
      /\ sim.a \in Ranges /\ sim.hl.base \in Word /\ sim.hl.scale \in Nat
      /\ cpu.carry \in BOOLEAN /\ sim.de \in Word \cup {-1} /\ sim.bc \in Word \cup {-1}
  BY DEF TypeOK, Sims, Cpus, Hls
<1>2. \A n : (n \in Byte => n \in Nat) /\ (n \in Word => n \in Nat)
  BY Operands
<1>3. \A n \in Nat : n \in Int
  OBVIOUS
<1>4. \A S, n : n \in S \cup {-1} /\ (\A k \in S : k \in Int) => n \in Int
  OBVIOUS
<1>5. sim.cp \in Int /\ sim.de \in Int /\ sim.bc \in Int
  BY <1>1, <1>2, <1>3, <1>4, Zenon
<1>6. QED BY <1>1, <1>2, <1>5, Zenon

\* Every register holds a value of its size, and so does what is known of it.
THEOREM TypeCorrect == BlockSpec => []TypeOK
<1>1. BlockInit => TypeOK
  <2>1. B - 1 \in Byte /\ W - 1 \in Word /\ 0 \in Word /\ B - 1 \in Int /\ 0 \in Nat
    BY Operands, Halved
  <2>2. Index(0, B - 1, FALSE) \in Ranges /\ NoIndex \in Ranges
    BY <2>1 DEF Index, NoIndex, Ranges
  <2>3. NoHl \in Hls
    BY <2>1 DEF NoHl, Hls
  <2>4. Start \in Sims
    BY <2>2, <2>3 DEF Start, Sims
  <2>5. BlockInit => cpu \in Cpus
    BY <2>1 DEF BlockInit, Cpus, Junk
  <2>6. BlockInit => used \in Uses
    BY DEF BlockInit, Uses
  <2>7. QED BY <2>4, <2>5, <2>6 DEF BlockInit, TypeOK
<1>2. TypeOK /\ [BlockNext]_blockVars => TypeOK'
  <2> SUFFICES ASSUME TypeOK, [BlockNext]_blockVars PROVE TypeOK'
    OBVIOUS
  <2>s. sim \in Sims /\ cpu \in Cpus /\ used \in Uses
    BY DEF TypeOK
  <2>1. ASSUME NEW v \in Byte, LoadA(v) PROVE TypeOK'
    <3>1. used' \in Uses
      BY <2>1, RegistersType DEF LoadA, Writes, Registers
    <3>2. cpu' \in Cpus
      BY <2>1, <2>s DEF LoadA, Cpus
    <3> DEFINE a == Index(0, B - 1, FALSE)
    <3>3. a \in Ranges
      BY Operands, Halved DEF Index, Ranges
    <3>4. sim' = [sim EXCEPT !.a = a, !.cp = -1]
      BY <2>1 DEF LoadA
    <3> HIDE DEF a
    <3>5. sim' \in Sims
      BY <3>3, <3>4, <2>s DEF Sims
    <3>6. QED BY <3>1, <3>2, <3>5 DEF TypeOK
  <2>2. ASSUME NEW v \in Bytes, LoadImmediate(v) PROVE TypeOK'
    <3>1. used' \in Uses
      BY <2>2, RegistersType DEF LoadImmediate, Writes, Registers
    <3>2. v \in Byte
      BY Operands
    <3>3. cpu' \in Cpus
      BY <2>2, <3>2, <2>s DEF LoadImmediate, Cpus
    <3> DEFINE a == [sim.a EXCEPT !.idx = FALSE]
    <3>4. a \in Ranges
      BY <2>s DEF Sims, Ranges
    <3>5. sim' = [sim EXCEPT !.a = a, !.cp = -1]
      BY <2>2, <2>s DEF LoadImmediate, Sims
    <3> HIDE DEF a
    <3>6. sim' \in Sims
      BY <3>4, <3>5, <2>s DEF Sims
    <3>7. QED BY <3>1, <3>3, <3>6 DEF TypeOK
  <2>3. ASSUME NEW v \in Bytes, Compare(v) PROVE TypeOK'
    <3>1. used' \in Uses
      BY <2>3, RegistersType DEF Compare, Registers
    <3>2. cpu' \in Cpus
      <4>1. (cpu.a < v) \in BOOLEAN
        OBVIOUS
      <4>2. QED BY <4>1, <2>3, <2>s DEF Compare, Cpus
    <3>3. v \in Byte
      BY Operands
    <3>4. sim' \in Sims
      BY <2>3, <3>3, <2>s DEF Compare, Sims
    <3>5. QED BY <3>1, <3>2, <3>4 DEF TypeOK
  <2>4. ASSUME NEW result \in Int, NEW carry \in BOOLEAN, NEW range \in Ranges,
               NEW cp \in Byte \cup {-1}, Arithmetic(result, carry, range, cp)
        PROVE  TypeOK'
    <3>1. used' \in Uses
      BY <2>4, RegistersType DEF Arithmetic, Writes, Registers
    <3>2. result % B \in Byte
      BY Operands
    <3>3. cpu' \in Cpus
      BY <2>4, <3>2, <2>s DEF Arithmetic, Cpus
    <3> DEFINE a == IF sim.a.idx THEN range ELSE sim.a
    <3>4. a \in Ranges
      BY <2>s DEF Sims
    <3>5. sim' = [sim EXCEPT !.a = a, !.cp = cp]
      BY <2>4, <2>s DEF Arithmetic, Sims
    <3> HIDE DEF a
    <3>6. sim' \in Sims
      BY <3>4, <3>5, <2>s DEF Sims
    <3>7. QED BY <3>1, <3>3, <3>6 DEF TypeOK
  <2>5. ASSUME NEW n \in Bytes, Sub(n) PROVE TypeOK'
    <3>1. n \in Byte /\ n \in Int
      BY Operands
    <3>2. cpu.a \in Nat /\ sim.a \in Ranges /\ sim.cp \in Byte \cup {-1}
      BY Numbers
    <3>3. cpu.a - n \in Int /\ (cpu.a < n) \in BOOLEAN
      BY <3>1, <3>2
    <3>4. Down(sim.a, n) \in Ranges
      BY <3>1, <3>2, RangeTypes
    <3>5. Arithmetic(cpu.a - n, cpu.a < n, Down(sim.a, n), sim.cp)
      BY <2>5 DEF Sub
    <3>6. QED BY <2>4, <3>2, <3>3, <3>4, <3>5
  <2>6. ASSUME NEW n \in Bytes, Masks(n) PROVE TypeOK'
    <3>1. n \in Byte /\ n \in Int
      BY Operands
    <3>2. And[cpu.a][n] \in 0 .. n
      BY <3>1, Numbers, AndBelow
    <3>3. And[cpu.a][n] \in Int
      BY <3>1, <3>2
    <3>4. Mask(sim.a, n) \in Ranges /\ sim.cp \in Byte \cup {-1}
      BY <3>1, Numbers, RangeTypes
    <3>5. Arithmetic(And[cpu.a][n], FALSE, Mask(sim.a, n), sim.cp)
      BY <2>6 DEF Masks
    <3>6. QED BY <2>4, <3>3, <3>4, <3>5
  <2>7. ASSUME NEW n \in Bytes, LoadB(n) \/ LoadD(n) \/ LoadH(n) PROVE TypeOK'
    <3>1. used' \in Uses
      BY <2>7, RegistersType DEF LoadB, LoadD, LoadH, Writes, Registers
    <3>2. n \in Byte /\ cpu.hl \in Word
      BY <2>s, Operands DEF Cpus
    <3>3. n * B + (cpu.hl % B) \in Word
      BY <3>2, Halved DEF Word
    <3>4. cpu' \in Cpus
      BY <2>7, <3>2, <3>3, <2>s DEF LoadB, LoadD, LoadH, Cpus
    <3>5. sim' \in Sims
      BY <2>7, <2>s DEF LoadB, LoadD, LoadH, Sims
    <3>6. QED BY <3>1, <3>4, <3>5 DEF TypeOK
  <2>8. CASE Exchange
    <3>1. used' \in Uses
      BY <2>8, RegistersType DEF Exchange, Writes, Registers
    <3>2. cpu' \in Cpus
      BY <2>8, <2>s DEF Exchange, Cpus
    <3>3. sim' \in Sims
      BY <2>8, <2>s DEF Exchange, Sims
    <3>4. QED BY <3>1, <3>2, <3>3 DEF TypeOK
  <2>9. ASSUME NEW nc \in BOOLEAN, Branch(nc) PROVE TypeOK'
    <3> DEFINE a == IF sim.cp = -1 \/ ~sim.a.idx THEN sim.a
                    ELSE IF nc THEN Below(sim.a, sim.cp) ELSE AtLeast(sim.a, sim.cp)
    <3>1. a \in Ranges
      BY Numbers, RangeTypes
    <3>2. sim' = [sim EXCEPT !.cp = -1, !.a = a]
      BY <2>9, <2>s DEF Branch, Sims
    <3>3. cpu' = cpu /\ used' = [used EXCEPT !.compare = FALSE]
      BY <2>9 DEF Branch
    <3> HIDE DEF a
    <3>4. sim' \in Sims
      BY <3>1, <3>2, <2>s DEF Sims
    <3>5. used' \in Uses
      BY <3>3, <2>s DEF Uses
    <3>6. QED BY <3>3, <3>4, <3>5, <2>s DEF TypeOK
  <2>10. CASE Dec \/ Inc \/ Twice
    <3>1. cpu.a - 1 \in Int /\ cpu.a + 1 \in Int /\ 2 * cpu.a \in Int /\ 1 \in Int
      BY Numbers
    <3>2. /\ Down(sim.a, 1) \in Ranges /\ Up(sim.a) \in Ranges
          /\ Double(sim.a) \in Ranges
      BY <3>1, Numbers, RangeTypes
    <3>3. -1 \in Byte \cup {-1} /\ (2 * cpu.a >= B) \in BOOLEAN
      OBVIOUS
    <3>4. CASE Dec
      BY <2>4, <3>1, <3>2, <3>4, Numbers DEF Dec
    <3>5. CASE Inc
      BY <2>4, <3>1, <3>2, <3>5, Numbers DEF Inc
    <3>6. CASE Twice
      BY <2>4, <3>1, <3>2, <3>3, <3>6 DEF Twice
    <3>7. QED BY <2>10, <3>4, <3>5, <3>6
  <2>11. CASE CopyToC \/ CopyToE
    <3>1. used' \in Uses
      BY <2>11, RegistersType DEF CopyToC, CopyToE, Copies, Registers
    <3>2. cpu' \in Cpus
      BY <2>11, <2>s DEF CopyToC, CopyToE, Cpus
    <3>3. sim' \in Sims
      BY <2>11, <2>s DEF CopyToC, CopyToE, Sims, Ranges
    <3>4. QED BY <3>1, <3>2, <3>3 DEF TypeOK
  <2>12. CASE CopyToL \/ CToL
    <3>1. used' \in Uses
      BY <2>12, RegistersType DEF CopyToL, CToL, Copies, Writes, Registers
    <3>2. cpu.hl \in Word /\ cpu.a \in Byte /\ cpu.c \in Byte
      BY <2>s DEF Cpus
    <3>3. /\ cpu.hl - (cpu.hl % B) + cpu.a \in Word
          /\ cpu.hl - (cpu.hl % B) + cpu.c \in Word
      BY <3>2, Halved DEF Word
    <3>4. cpu' \in Cpus
      BY <2>12, <3>3, <2>s DEF CopyToL, CToL, Cpus
    <3>5. FromL(sim.a.idx) \in Hls /\ FromL(sim.c) \in Hls
      BY <2>s, Operands DEF FromL, Sims, Hls
    <3>6. sim' \in Sims
      BY <2>12, <3>5, <2>s DEF CopyToL, CToL, Sims
    <3>7. QED BY <3>1, <3>4, <3>6 DEF TypeOK
  <2>13. ASSUME NEW nn \in Words, LoadHl(nn) PROVE TypeOK'
    <3>1. used' \in Uses
      BY <2>13, RegistersType DEF LoadHl, Writes, Registers
    <3>2. nn \in Word
      BY Operands
    <3>3. cpu' \in Cpus
      BY <2>13, <3>2, <2>s DEF LoadHl, Cpus
    <3>4. sim' \in Sims
      BY <2>13, <3>2, <2>s DEF LoadHl, Sims, Hls
    <3>5. QED BY <3>1, <3>3, <3>4 DEF TypeOK
  <2>14. ASSUME NEW nn \in Words, LoadDe(nn) \/ LoadBc(nn) PROVE TypeOK'
    <3>1. used' \in Uses
      BY <2>14, RegistersType DEF LoadDe, LoadBc, Writes, Registers
    <3>2. nn \in Word /\ nn \div B \in Byte /\ nn % B \in Byte
      BY Operands, Halved DEF Word
    <3>3. cpu' \in Cpus
      BY <2>14, <3>2, <2>s DEF LoadDe, LoadBc, Cpus
    <3>4. sim' \in Sims
      BY <2>14, <3>2, <2>s DEF LoadDe, LoadBc, Sims
    <3>5. QED BY <3>1, <3>3, <3>4 DEF TypeOK
  <2>15. ASSUME NEW pair \in Word, NEW hl \in Hls, Add(pair, hl) PROVE TypeOK'
    <3>1. used' \in Uses
      BY <2>15, RegistersType DEF Add, MovesHl, Registers
    <3> DEFINE w     == (cpu.hl + pair) % W
               carry == cpu.hl + pair >= W
    <3>2. pair \in Nat
      BY Operands
    <3>3. cpu.hl + pair \in Int
      BY <3>2, Numbers
    <3>4. w \in Word /\ carry \in BOOLEAN
      BY <3>3, Operands
    <3>5. cpu' = [cpu EXCEPT !.hl = w, !.carry = carry] /\ sim' = [sim EXCEPT !.hl = hl]
      BY <2>15, <2>s DEF Add, Cpus
    <3> HIDE DEF w, carry
    <3>6. cpu' \in Cpus
      BY <3>4, <3>5, <2>s DEF Cpus
    <3>7. sim' \in Sims
      BY <3>5, <2>s DEF Sims
    <3>8. QED BY <3>1, <3>6, <3>7 DEF TypeOK
  <2>16. ASSUME NEW isIndex \in BOOLEAN, NEW const \in Word \cup {-1}
         PROVE  Added(sim.hl, isIndex, const) \in Hls
    <3> DEFINE base == (sim.hl.base + const) % W
    <3>1. const # -1 => const \in Nat
      BY Operands
    <3>2. const # -1 => sim.hl.base + const \in Int
      BY <3>1, Numbers
    <3>3. (const # -1 => base \in Word) /\ sim.hl \in Hls
      BY <3>2, <2>s, Operands DEF Sims
    <3>4. \/ Added(sim.hl, isIndex, const) = sim.hl
          \/ Added(sim.hl, isIndex, const)
               = [sim.hl EXCEPT !.has = TRUE, !.scale = sim.hl.scale + 1]
          \/ Added(sim.hl, isIndex, const) = [sim.hl EXCEPT !.known = FALSE]
          \/ /\ const # -1
             /\ Added(sim.hl, isIndex, const) = [sim.hl EXCEPT !.base = base]
      BY <3>3 DEF Added, Hls
    <3> HIDE DEF base
    <3>5. sim.hl.scale + 1 \in Nat
      BY Numbers
    <3>6. QED BY <3>3, <3>4, <3>5 DEF Hls
  <2>17. CASE AddDe \/ AddBc \/ AddHl
    <3>1. /\ cpu.d \in Byte /\ cpu.e \in Byte /\ cpu.b \in Byte /\ cpu.c \in Byte
          /\ cpu.hl \in Word
      BY <2>s DEF Cpus
    <3>2. cpu.d * B + cpu.e \in Word /\ cpu.b * B + cpu.c \in Word
      BY <3>1, Halved DEF Word
    <3>3. CASE AddDe
      <4>1. (sim.e /\ sim.d0) \in BOOLEAN /\ sim.de \in Word \cup {-1}
        BY <2>s DEF Sims
      <4>2. QED BY <2>15, <2>16, <3>2, <3>3, <4>1 DEF AddDe
    <3>4. CASE AddBc
      <4>1. (sim.c /\ sim.b0) \in BOOLEAN /\ sim.bc \in Word \cup {-1}
        BY <2>s DEF Sims
      <4>2. QED BY <2>15, <2>16, <3>2, <3>4, <4>1 DEF AddBc
    <3>5. CASE AddHl
      <4> DEFINE base == (2 * sim.hl.base) % W
                 hl == IF sim.hl.known
                         THEN [sim.hl EXCEPT !.base = base, !.scale = 2 * sim.hl.scale]
                         ELSE sim.hl
      <4>1. 2 * sim.hl.base \in Int /\ 2 * sim.hl.scale \in Nat
        BY Numbers
      <4>2. base \in Word
        BY <4>1, Operands
      <4>3. sim.hl \in Hls
        BY <2>s DEF Sims
      <4>4. Add(cpu.hl, hl)
        BY <3>5, <4>3 DEF AddHl, Hls
      <4> HIDE DEF base
      <4>5. hl \in Hls
        BY <4>1, <4>2, <4>3 DEF Hls
      <4>6. QED BY <2>15, <3>1, <4>4, <4>5
    <3>6. QED BY <2>17, <3>3, <3>4, <3>5
  <2>18. ASSUME NEW by \in {-1, 1}, Move(by) PROVE TypeOK'
    <3>1. used' \in Uses
      BY <2>18, RegistersType DEF Move, MovesHl, Registers
    <3> DEFINE w    == (cpu.hl + by) % W
               base == IF sim.hl.known THEN (sim.hl.base + by) % W ELSE sim.hl.base
               hl   == [sim.hl EXCEPT !.base = base]
    <3>2. cpu.hl + by \in Int /\ sim.hl.base + by \in Int
      BY Numbers
    <3>3. sim.hl \in Hls /\ sim.hl.base \in Word
      BY <2>s DEF Sims, Hls
    <3>4. w \in Word /\ base \in Word
      BY <3>2, <3>3, Operands
    <3>5. cpu' = [cpu EXCEPT !.hl = w] /\ sim' = [sim EXCEPT !.hl = hl]
      BY <2>18, <3>3, <2>s DEF Move, Cpus, Sims, Hls
    <3> HIDE DEF w, base
    <3>6. hl \in Hls
      BY <3>3, <3>4 DEF Hls
    <3> HIDE DEF hl
    <3>7. cpu' \in Cpus
      BY <3>4, <3>5, <2>s DEF Cpus
    <3>8. sim' \in Sims
      BY <3>5, <3>6, <2>s DEF Sims
    <3>9. QED BY <3>1, <3>7, <3>8 DEF TypeOK
  <2>19. CASE UNCHANGED blockVars
    BY <2>19 DEF blockVars, TypeOK
  <2>20. CASE BlockNext
    BY <2>1, <2>2, <2>3, <2>5, <2>6, <2>7, <2>8, <2>9, <2>10, <2>11, <2>12,
       <2>13, <2>14, <2>17, <2>18, <2>19, <2>20 DEF BlockNext, Done
  <2>21. QED BY <2>19, <2>20
<1>3. QED BY <1>1, <1>2, PTL DEF BlockSpec

-----------------------------------------------------------------------------
(* The address.                                                             *)

\* The index is final once it has been copied.
Final == "a" \in used.regs /\ sim.a.idx

\* The halves hold what the simulation takes them to hold.
HalvesHeld ==
  /\ sim.c => Final /\ "c" \in used.regs /\ cpu.c = cpu.a
  /\ sim.e => Final /\ "e" \in used.regs /\ cpu.e = cpu.a
  /\ sim.b0 => cpu.b = 0
  /\ sim.d0 => cpu.d = 0 /\ "d" \in used.regs
  /\ sim.h0 => "h" \in used.regs /\ ("l" \in used.regs \/ cpu.hl < B)

\* The pairs hold the constants they were loaded with.
Pairs ==
  /\ sim.bc # -1 => {"b", "c"} \subseteq used.regs /\ cpu.b * B + cpu.c = sim.bc
  /\ sim.de # -1 => {"d", "e"} \subseteq used.regs /\ cpu.d * B + cpu.e = sim.de

\* HL is what the simulation says: a base, and the index times a scale.
Address ==
  sim.hl.known =>
    /\ {"h", "l"} \subseteq used.regs
    /\ cpu.hl = (sim.hl.base + sim.hl.scale * cpu.a) % W
    /\ IF sim.hl.has THEN Final ELSE sim.hl.scale = 0

AddressInv == HalvesHeld /\ Pairs /\ Address

\* Instructions that load no register twice.
LEMMA LoadedOnce ==
  ASSUME TypeOK, Idioms \subseteq {"wrap", "flags"},
         NEW regs, NEW copied, NEW compare, Instruction(regs, copied, compare)
  PROVE  /\ \A g \in regs : g \notin used.regs
         /\ \A g : g \in used'.regs <=> \/ g \in used.regs
                                        \/ g \in regs /\ g # "a"
                                        \/ g \in copied
BY DEF Instruction

\* The same of a load, which copies nothing.
LEMMA WritesOnce ==
  ASSUME TypeOK, Idioms \subseteq {"wrap", "flags"}, NEW regs, Writes(regs)
  PROVE  /\ \A g \in regs : g \notin used.regs
         /\ used'.regs = used.regs \cup (regs \ {"a"})
BY DEF Writes, Instruction

\* Arithmetic on an address moves its base or its scale.
LEMMA Moved ==
  ASSUME NEW base \in Nat, NEW scale \in Nat, NEW a \in Nat
  PROVE  /\ (((base + scale * a) % W) + a) % W = (base + (scale + 1) * a) % W
         /\ \A k \in Int : (((base + scale * a) % W) + k) % W
                             = (((base + k) % W) + scale * a) % W
         /\ (((base + scale * a) % W) + ((base + scale * a) % W)) % W
              = (((2 * base) % W) + (2 * scale) * a) % W
<1>w. W \in Nat \ {0}
  BY Halved
<1> DEFINE p == scale * a
           u == base + p
<1>1. p \in Int /\ u \in Int /\ a \in Int /\ base \in Int
  OBVIOUS
<1>2. (scale + 1) * a = p + a /\ (2 * scale) * a = 2 * p
  OBVIOUS
<1>3. u % W \in Int
  BY <1>w, <1>1
<1> HIDE DEF p
<1>4. ((u % W) + a) % W = (base + (p + a)) % W
  <2>1. ((u % W) + a) % W = (u + a) % W
    BY <1>w, <1>1, EarlyRemainder
  <2>2. u + a = base + (p + a)
    BY <1>1
  <2>3. QED BY <2>1, <2>2
<1>5. ASSUME NEW k \in Int PROVE ((u % W) + k) % W = (((base + k) % W) + p) % W
  <2>1. ((u % W) + k) % W = (u + k) % W
    BY <1>w, <1>1, EarlyRemainder
  <2>2. base + k \in Int /\ p \in Int
    BY <1>1
  <2>3. (((base + k) % W) + p) % W = (base + k + p) % W
    BY <1>w, <2>2, EarlyRemainder
  <2>4. u + k = base + k + p
    BY <1>1
  <2>5. QED BY <2>1, <2>3, <2>4
<1>6. ((u % W) + (u % W)) % W = (((2 * base) % W) + 2 * p) % W
  <2>1. ((u % W) + (u % W)) % W = (u + (u % W)) % W
    BY <1>w, <1>1, <1>3, EarlyRemainder
  <2>2. ((u % W) + u) % W = (u + u) % W
    BY <1>w, <1>1, EarlyRemainder
  <2>3. u + (u % W) = (u % W) + u
    BY <1>1, <1>3
  <2>4. (((2 * base) % W) + 2 * p) % W = (2 * base + 2 * p) % W
    <3>1. 2 * base \in Int /\ 2 * p \in Int
      BY <1>1
    <3>2. QED BY <1>w, <3>1, EarlyRemainder
  <2>5. u + u = 2 * base + 2 * p
    BY <1>1
  <2>6. QED BY <2>1, <2>2, <2>3, <2>4, <2>5
<1>7. QED BY <1>2, <1>4, <1>5, <1>6 DEF p

\* The second of these, alone: a constant moves the base.
LEMMA Shifted ==
  ASSUME NEW base \in Nat, NEW scale \in Nat, NEW a \in Nat, NEW k \in Int
  PROVE  (((base + scale * a) % W) + k) % W = (((base + k) % W) + scale * a) % W
BY Moved

\* While A may still be written nothing was made of it.
LEMMA Uncopied ==
  ASSUME TypeOK, AddressInv, "a" \notin used.regs, used'.regs = used.regs,
         cpu'.a \in Nat,
         UNCHANGED <<sim.hl, sim.bc, sim.de, sim.c, sim.b0, sim.e, sim.d0, sim.h0,
                     cpu.b, cpu.c, cpu.d, cpu.e, cpu.hl>>
  PROVE  AddressInv'
<1>1. ~ Final /\ ~ sim.c /\ ~ sim.e
  BY DEF AddressInv, HalvesHeld, Final
<1>2. HalvesHeld' /\ Pairs'
  BY <1>1 DEF AddressInv, HalvesHeld, Pairs
<1>3. Address'
  <2>1. SUFFICES ASSUME sim.hl.known PROVE Address'
    BY DEF Address
  <2>2. /\ {"h", "l"} \subseteq used.regs /\ ~ sim.hl.has /\ sim.hl.scale = 0
        /\ cpu.hl = (sim.hl.base + sim.hl.scale * cpu.a) % W
    BY <1>1, <2>1 DEF AddressInv, Address
  <2>3. sim.hl.scale * cpu.a = 0 /\ sim.hl.scale * cpu'.a = 0
    <3>1. \A n \in Nat : 0 * n = 0
      OBVIOUS
    <3>2. QED BY <3>1, <2>2, Numbers
  <2>4. sim'.hl = sim.hl /\ cpu'.hl = cpu.hl
    OBVIOUS
  <2>5. cpu'.hl = (sim'.hl.base + sim'.hl.scale * cpu'.a) % W
    BY <2>2, <2>3, <2>4
  <2>6. QED BY <2>2, <2>4, <2>5 DEF Address
<1>4. QED BY <1>2, <1>3 DEF AddressInv

\* An instruction that leaves A and HL alone leaves the address what it is.
LEMMA AddressKept ==
  ASSUME Address, used.regs \subseteq used'.regs,
         UNCHANGED <<sim.a.idx, sim.hl, cpu.a, cpu.hl>>
  PROVE  Address'
BY DEF Address, Final

\* The address is a base and a scaled index, as the simulation has them.
LEMMA AddressInvariant ==
  ASSUME Idioms \subseteq {"wrap", "flags"}
  PROVE  BlockSpec => []AddressInv
<1>1. BlockInit => AddressInv
  BY DEF BlockInit, Start, NoHl, AddressInv, HalvesHeld, Pairs, Address
<1>2. TypeOK /\ TypeOK' /\ AddressInv /\ [BlockNext]_blockVars => AddressInv'
  <2> SUFFICES ASSUME TypeOK, TypeOK', AddressInv, [BlockNext]_blockVars PROVE AddressInv'
    OBVIOUS
  <2>s. sim \in Sims /\ cpu \in Cpus /\ used \in Uses
    BY DEF TypeOK
  <2>t. cpu'.a \in Nat
    <3>1. cpu' \in Cpus
      BY DEF TypeOK
    <3>2. QED BY <3>1, Operands DEF Cpus
  <2>h. HalvesHeld /\ Pairs /\ Address
    BY DEF AddressInv
  <2>1. ASSUME Writes({"a"}),
               UNCHANGED <<sim.hl, sim.bc, sim.de, sim.c, sim.b0, sim.e, sim.d0,
                           sim.h0, cpu.b, cpu.c, cpu.d, cpu.e, cpu.hl>>
        PROVE  AddressInv'
    <3>1. "a" \notin used.regs /\ used'.regs = used.regs
      BY <2>1, WritesOnce
    <3>2. QED BY <3>1, <2>1, <2>t, Uncopied
  <2>2. ASSUME NEW v \in Byte, LoadA(v) PROVE AddressInv'
    BY <2>1, <2>2, <2>s DEF LoadA, Sims, Cpus
  <2>3. ASSUME NEW v \in Bytes, LoadImmediate(v) PROVE AddressInv'
    BY <2>1, <2>3, <2>s DEF LoadImmediate, Sims, Cpus
  <2>4. CASE Exchange
    BY <2>1, <2>4, <2>s DEF Exchange, Sims, Cpus
  <2>5. ASSUME NEW result, NEW carry, NEW range, NEW cp,
               Arithmetic(result, carry, range, cp)
        PROVE  AddressInv'
    BY <2>1, <2>5, <2>s DEF Arithmetic, Sims, Cpus
  <2>6. ASSUME NEW v \in Bytes, Compare(v) PROVE AddressInv'
    <3>1. used'.regs = used.regs
      <4>1. Instruction({}, {}, TRUE)
        BY <2>6 DEF Compare
      <4>2. used'.regs = used.regs \cup ({} \ {"a"}) \cup {}
        BY <4>1 DEF Instruction
      <4>3. QED BY <4>2
    <3>2. UNCHANGED <<sim.a, sim.hl, sim.bc, sim.de, sim.c, sim.b0, sim.e, sim.d0, sim.h0,
                      cpu.a, cpu.b, cpu.c, cpu.d, cpu.e, cpu.hl>>
      BY <2>6, <2>s DEF Compare, Sims, Cpus
    <3>3. Address'
      BY <3>1, <3>2, <2>h, AddressKept
    <3>4. QED BY <3>1, <3>2, <3>3, <2>h DEF AddressInv, HalvesHeld, Pairs, Final
  <2>7. ASSUME NEW nc \in BOOLEAN, Branch(nc) PROVE AddressInv'
    <3>1. used'.regs = used.regs /\ cpu' = cpu
      BY <2>7, <2>s DEF Branch, Uses
    <3>2. UNCHANGED <<sim.hl, sim.bc, sim.de, sim.c, sim.b0, sim.e, sim.d0, sim.h0>>
      BY <2>7, <2>s DEF Branch, Sims
    <3>3. sim'.a.idx = sim.a.idx
      BY <2>7, <2>s DEF Branch, Below, AtLeast, Sims, Ranges
    <3>4. Address'
      BY <3>1, <3>2, <3>3, <2>h, AddressKept
    <3>5. QED BY <3>1, <3>2, <3>3, <3>4, <2>h DEF AddressInv, HalvesHeld, Pairs, Final
  <2>8. CASE CopyToC
    <3>1. "c" \notin used.regs /\ used'.regs = used.regs \cup {"c", "a"}
      BY <2>8, LoadedOnce DEF CopyToC, Copies
    <3>2. /\ cpu' = [cpu EXCEPT !.c = cpu.a] /\ sim' = [sim EXCEPT !.c = sim.a.idx]
      BY <2>8 DEF CopyToC
    <3>3. sim.bc = -1
      BY <3>1, <2>h DEF Pairs
    <3>4. UNCHANGED <<sim.a, sim.hl, sim.bc, sim.de, sim.b0, sim.e, sim.d0, sim.h0,
                      cpu.a, cpu.b, cpu.d, cpu.e, cpu.hl>>
          /\ cpu'.c = cpu.a /\ sim'.c = sim.a.idx
      BY <3>2, <2>s DEF Sims, Cpus
    <3>5. Address'
      BY <3>1, <3>4, <2>h, AddressKept
    <3>6. QED BY <3>1, <3>3, <3>4, <3>5, <2>h DEF AddressInv, HalvesHeld, Pairs, Final
  <2>9. CASE CopyToE
    <3>1. "e" \notin used.regs /\ used'.regs = used.regs \cup {"e", "a"}
      BY <2>9, LoadedOnce DEF CopyToE, Copies
    <3>2. /\ cpu' = [cpu EXCEPT !.e = cpu.a] /\ sim' = [sim EXCEPT !.e = sim.a.idx]
      BY <2>9 DEF CopyToE
    <3>3. sim.de = -1
      BY <3>1, <2>h DEF Pairs
    <3>4. UNCHANGED <<sim.a, sim.hl, sim.bc, sim.de, sim.c, sim.b0, sim.d0, sim.h0,
                      cpu.a, cpu.b, cpu.c, cpu.d, cpu.hl>>
          /\ cpu'.e = cpu.a /\ sim'.e = sim.a.idx
      BY <3>2, <2>s DEF Sims, Cpus
    <3>5. Address'
      BY <3>1, <3>4, <2>h, AddressKept
    <3>6. QED BY <3>1, <3>3, <3>4, <3>5, <2>h DEF AddressInv, HalvesHeld, Pairs, Final
  <2>10. ASSUME NEW n \in Bytes, LoadB(n) PROVE AddressInv'
    <3>1. "b" \notin used.regs /\ used'.regs = used.regs \cup {"b"}
      BY <2>10, WritesOnce DEF LoadB
    <3>2. sim.bc = -1
      BY <3>1, <2>h DEF Pairs
    <3>3. UNCHANGED <<sim.a, sim.hl, sim.bc, sim.de, sim.c, sim.e, sim.d0, sim.h0,
                      cpu.a, cpu.c, cpu.d, cpu.e, cpu.hl>>
          /\ cpu'.b = n /\ sim'.b0 = (n = 0)
      BY <2>10, <2>s DEF LoadB, Sims, Cpus
    <3>4. Address'
      BY <3>1, <3>3, <2>h, AddressKept
    <3>5. QED BY <3>1, <3>2, <3>3, <3>4, <2>h DEF AddressInv, HalvesHeld, Pairs, Final
  <2>11. ASSUME NEW n \in Bytes, LoadD(n) PROVE AddressInv'
    <3>1. "d" \notin used.regs /\ used'.regs = used.regs \cup {"d"}
      BY <2>11, WritesOnce DEF LoadD
    <3>2. sim.de = -1
      BY <3>1, <2>h DEF Pairs
    <3>3. UNCHANGED <<sim.a, sim.hl, sim.bc, sim.de, sim.c, sim.b0, sim.e, sim.h0,
                      cpu.a, cpu.b, cpu.c, cpu.e, cpu.hl>>
          /\ cpu'.d = n /\ sim'.d0 = (n = 0)
      BY <2>11, <2>s DEF LoadD, Sims, Cpus
    <3>4. Address'
      BY <3>1, <3>3, <2>h, AddressKept
    <3>5. QED BY <3>1, <3>2, <3>3, <3>4, <2>h DEF AddressInv, HalvesHeld, Pairs, Final
  <2>12. ASSUME NEW n \in Bytes, LoadH(n) PROVE AddressInv'
    <3>1. "h" \notin used.regs /\ used'.regs = used.regs \cup {"h"}
      BY <2>12, WritesOnce DEF LoadH
    <3>2. ~ sim.hl.known
      BY <3>1, <2>h DEF Address
    <3>3. UNCHANGED <<sim.a, sim.hl, sim.bc, sim.de, sim.c, sim.b0, sim.e, sim.d0,
                      cpu.a, cpu.b, cpu.c, cpu.d, cpu.e>>
          /\ cpu'.hl = n * B + (cpu.hl % B) /\ sim'.h0 = (n = 0)
      BY <2>12, <2>s DEF LoadH, Sims, Cpus
    <3>4. n = 0 => cpu'.hl < B
      <4>1. cpu.hl % B \in Byte
        BY Halved, <2>s DEF Cpus, Word
      <4>2. B \in Nat /\ cpu.hl % B \in Nat /\ cpu.hl % B < B
        BY <4>1, Halved DEF Byte
      <4>3. n = 0 => n * B + (cpu.hl % B) = cpu.hl % B
        BY <4>2
      <4>4. QED BY <3>3, <4>2, <4>3
    <3>5. Address'
      BY <3>2, <3>3 DEF Address
    <3>6. QED BY <3>1, <3>3, <3>4, <3>5, <2>h DEF AddressInv, HalvesHeld, Pairs, Final
  <2>13. ASSUME NEW isIndex \in BOOLEAN, NEW v \in Byte, "l" \notin used.regs,
                used.regs \subseteq used'.regs, "l" \in used'.regs,
                isIndex => "a" \in used'.regs /\ sim.a.idx /\ v = cpu.a,
                cpu' = [cpu EXCEPT !.hl = cpu.hl - (cpu.hl % B) + v],
                sim' = [sim EXCEPT !.hl = FromL(isIndex)]
         PROVE  AddressInv'
    <3>1. ~ sim.hl.known
      BY <2>13, <2>h DEF Address
    <3>2. UNCHANGED <<sim.a, sim.bc, sim.de, sim.c, sim.b0, sim.e, sim.d0, sim.h0,
                      cpu.a, cpu.b, cpu.c, cpu.d, cpu.e>>
          /\ cpu'.hl = cpu.hl - (cpu.hl % B) + v /\ sim'.hl = FromL(isIndex)
      BY <2>13, <2>s DEF Sims, Cpus
    <3>3. used.regs \subseteq used'.regs /\ "l" \in used'.regs
          /\ (isIndex => "a" \in used'.regs)
      BY <2>13
    <3>4. HalvesHeld' /\ Pairs'
      BY <3>2, <3>3, <2>h DEF HalvesHeld, Pairs, Final
    <3>5. CASE sim.h0 /\ isIndex
      <4>1. sim'.hl = [known |-> TRUE, has |-> TRUE, scale |-> 1, base |-> 0]
        BY <3>2, <3>5 DEF FromL
      <4>2. "h" \in used.regs /\ cpu.hl < B
        BY <2>13, <3>5, <2>h DEF HalvesHeld
      <4>3. cpu'.hl = cpu.a
        <5>1. cpu.hl \in 0 .. W - 1 /\ cpu.hl \in Nat /\ cpu.a \in Nat
          BY Numbers, <2>s DEF Cpus, Word
        <5>2. cpu.hl % B = cpu.hl
          BY <4>2, <5>1, Halved
        <5>3. QED BY <3>2, <3>5, <2>13, <5>1, <5>2
      <4>4. (0 + 1 * cpu.a) % W = cpu.a
        <5>a. cpu.a \in Byte /\ B <= W /\ W \in Nat \ {0} /\ B \in Nat
          BY Numbers, Halved
        <5>1. cpu.a \in Nat /\ cpu.a < B /\ B <= W /\ W \in Nat \ {0} /\ B \in Nat
          BY <5>a DEF Byte
        <5>2. 0 + 1 * cpu.a = (W * 0) + cpu.a /\ cpu.a \in 0 .. W - 1
          BY <5>1
        <5>3. QED BY <5>1, <5>2, Remainder
      <4>5. cpu'.hl = (sim'.hl.base + sim'.hl.scale * cpu'.a) % W
        <5>1. sim'.hl.base = 0 /\ sim'.hl.scale = 1 /\ cpu'.a = cpu.a
          BY <4>1, <3>2
        <5>2. QED BY <4>3, <4>4, <5>1, Zenon
      <4>6. "h" \in used'.regs /\ Final'
        BY <4>2, <3>2, <3>3, <3>5, <2>13 DEF Final
      <4>7. Address'
        BY <4>1, <4>5, <4>6, <3>3 DEF Address
      <4>8. QED BY <3>4, <4>7 DEF AddressInv
    <3>6. CASE ~ (sim.h0 /\ isIndex)
      <4>1. sim'.hl.known = FALSE
        BY <3>2, <3>6, <2>s DEF FromL, Sims, Hls
      <4>2. QED BY <3>4, <4>1 DEF AddressInv, Address
    <3>7. QED BY <3>5, <3>6
  <2>14. CASE CopyToL
    <3>1. "l" \notin used.regs /\ used'.regs = used.regs \cup {"l", "a"}
      BY <2>14, LoadedOnce DEF CopyToL, Copies
    <3>2. sim.a.idx \in BOOLEAN /\ cpu.a \in Byte
      BY <2>s DEF Sims, Ranges, Cpus
    <3>3. /\ cpu' = [cpu EXCEPT !.hl = cpu.hl - (cpu.hl % B) + cpu.a]
          /\ sim' = [sim EXCEPT !.hl = FromL(sim.a.idx)]
      BY <2>14, <2>s DEF CopyToL, Cpus
    <3>4. used.regs \subseteq used'.regs /\ "l" \in used'.regs /\ "a" \in used'.regs
      BY <3>1
    <3>5. QED BY <2>13, <3>1, <3>2, <3>3, <3>4
  <2>15. CASE CToL
    <3>1. "l" \notin used.regs /\ used'.regs = used.regs \cup {"l"}
      BY <2>15, WritesOnce DEF CToL
    <3>2. sim.c \in BOOLEAN /\ cpu.c \in Byte
      BY <2>s DEF Sims, Cpus
    <3>3. sim.c => "a" \in used.regs /\ sim.a.idx /\ cpu.c = cpu.a
      BY <2>h DEF HalvesHeld, Final
    <3>4. /\ cpu' = [cpu EXCEPT !.hl = cpu.hl - (cpu.hl % B) + cpu.c]
          /\ sim' = [sim EXCEPT !.hl = FromL(sim.c)]
      BY <2>15, <2>s DEF CToL, Cpus
    <3>5. used.regs \subseteq used'.regs /\ "l" \in used'.regs
      BY <3>1
    <3>6. QED BY <2>13, <3>1, <3>2, <3>3, <3>4, <3>5
  <2>16. ASSUME NEW nn \in Words, LoadHl(nn) PROVE AddressInv'
    <3>1. "h" \notin used.regs /\ used'.regs = used.regs \cup {"h", "l"}
      BY <2>16, WritesOnce DEF LoadHl
    <3>2. UNCHANGED <<sim.a, sim.bc, sim.de, sim.c, sim.b0, sim.e, sim.d0, sim.h0,
                      cpu.a, cpu.b, cpu.c, cpu.d, cpu.e>>
          /\ cpu'.hl = nn
          /\ sim'.hl = [known |-> TRUE, has |-> FALSE, scale |-> 0, base |-> nn]
      BY <2>16, <2>s DEF LoadHl, Sims, Cpus
    <3>3. HalvesHeld' /\ Pairs'
      BY <3>1, <3>2, <2>h DEF HalvesHeld, Pairs, Final
    <3>4. (nn + 0 * cpu.a) % W = nn
      <4>1. nn \in 0 .. W - 1 /\ W \in Nat \ {0} /\ cpu.a \in Nat
        BY Operands, Halved, Numbers DEF Word
      <4>2. nn + 0 * cpu.a = (W * 0) + nn
        BY <4>1
      <4>3. QED BY <4>1, <4>2, Remainder
    <3>5. QED BY <3>1, <3>2, <3>3, <3>4 DEF AddressInv, Address
  <2>17. ASSUME NEW nn \in Words, LoadDe(nn) PROVE AddressInv'
    <3>1. /\ "d" \notin used.regs /\ "e" \notin used.regs
          /\ used'.regs = used.regs \cup {"d", "e"}
      BY <2>17, WritesOnce DEF LoadDe
    <3>2. UNCHANGED <<sim.a, sim.hl, sim.bc, sim.c, sim.b0, sim.d0, sim.h0,
                      cpu.a, cpu.b, cpu.c, cpu.hl>>
          /\ cpu'.d = nn \div B /\ cpu'.e = nn % B /\ sim'.de = nn /\ ~ sim'.e
      BY <2>17, <2>s DEF LoadDe, Sims, Cpus
    <3>3. ~ sim.d0
      BY <3>1, <2>h DEF HalvesHeld
    <3>4. (nn \div B) * B + (nn % B) = nn
      BY Operands, Halved DEF Word
    <3>5. Address'
      BY <3>1, <3>2, <2>h, AddressKept
    <3>6. QED BY <3>1, <3>2, <3>3, <3>4, <3>5, <2>h DEF AddressInv, HalvesHeld, Pairs, Final
  <2>18. ASSUME NEW nn \in Words, LoadBc(nn) PROVE AddressInv'
    <3>1. used'.regs = used.regs \cup {"b", "c"}
      BY <2>18, WritesOnce DEF LoadBc
    <3>2. UNCHANGED <<sim.a, sim.hl, sim.de, sim.e, sim.d0, sim.h0,
                      cpu.a, cpu.d, cpu.e, cpu.hl>>
          /\ cpu'.b = nn \div B /\ cpu'.c = nn % B /\ sim'.bc = nn /\ ~ sim'.c
          /\ sim'.b0 = (nn \div B = 0)
      BY <2>18, <2>s DEF LoadBc, Sims, Cpus
    <3>4. (nn \div B) * B + (nn % B) = nn
      BY Operands, Halved DEF Word
    <3>5. Address'
      BY <3>1, <3>2, <2>h, AddressKept
    <3>6. QED BY <3>1, <3>2, <3>4, <3>5, <2>h DEF AddressInv, HalvesHeld, Pairs, Final
  <2>19. ASSUME NEW w, used'.regs = used.regs \cup {"h", "l"},
                NEW hl, cpu'.hl = w, sim'.hl = hl,
                UNCHANGED <<sim.a, sim.bc, sim.de, sim.c, sim.b0, sim.e, sim.d0,
                            sim.h0, cpu.a, cpu.b, cpu.c, cpu.d, cpu.e>>,
                hl.known => /\ w = (hl.base + hl.scale * cpu.a) % W
                            /\ IF hl.has THEN Final ELSE hl.scale = 0
         PROVE  AddressInv'
    BY <2>19, <2>h DEF AddressInv, HalvesHeld, Pairs, Final, Address
  <2>20. ASSUME NEW pair, NEW hl, Add(pair, hl),
                hl.known => /\ (cpu.hl + pair) % W
                                  = (hl.base + hl.scale * cpu.a) % W
                            /\ IF hl.has THEN Final ELSE hl.scale = 0
         PROVE  AddressInv'
    <3>1. used'.regs = used.regs \cup {"h", "l"}
      BY <2>20, LoadedOnce DEF Add, MovesHl
    <3>2. cpu'.hl = (cpu.hl + pair) % W /\ sim'.hl = hl
          /\ UNCHANGED <<sim.a, sim.bc, sim.de, sim.c, sim.b0, sim.e, sim.d0,
                         sim.h0, cpu.a, cpu.b, cpu.c, cpu.d, cpu.e>>
      BY <2>20, <2>s DEF Add, Sims, Cpus
    <3>3. QED BY <2>19, <2>20, <3>1, <3>2
  <2>21. ASSUME NEW pair \in Nat, NEW isIndex \in BOOLEAN, NEW k \in Int,
                isIndex => Final /\ pair = cpu.a,
                k # -1 => pair = k,
                Add(pair, Added(sim.hl, isIndex, k))
         PROVE  AddressInv'
    <3> DEFINE hl == Added(sim.hl, isIndex, k)
    <3>n. /\ sim.hl.base \in Nat /\ sim.hl.scale \in Nat /\ cpu.a \in Nat
          /\ sim.hl \in Hls
      BY Numbers, <2>s DEF Sims
    <3>1. CASE ~ sim.hl.known
      <4>1. ~ hl.known
        BY <3>1 DEF Added
      <4>2. QED BY <2>20, <2>21, <4>1
    <3>2. CASE sim.hl.known /\ isIndex
      <4>1. hl.base = sim.hl.base /\ hl.scale = sim.hl.scale + 1 /\ hl.has
        BY <3>2, <3>n DEF Added, Hls
      <4>2. cpu.hl = (sim.hl.base + sim.hl.scale * cpu.a) % W /\ Final
        BY <3>2, <2>h, <2>21 DEF Address
      <4>3. (((sim.hl.base + sim.hl.scale * cpu.a) % W) + cpu.a) % W
              = (sim.hl.base + (sim.hl.scale + 1) * cpu.a) % W
        BY <3>n, Moved, ZenonT(60)
      <4>m. (cpu.hl + pair) % W = (hl.base + hl.scale * cpu.a) % W
        BY <4>1, <4>2, <4>3, <3>2, <2>21, Zenon
      <4> HIDE DEF hl
      <4>4. QED BY <2>20, <2>21, <4>1, <4>2, <4>m DEF hl
    <3>3. CASE sim.hl.known /\ ~ isIndex /\ k # -1
      <4>1. /\ hl.base = (sim.hl.base + k) % W /\ hl.scale = sim.hl.scale
            /\ hl.has = sim.hl.has
        BY <3>3, <3>n DEF Added, Hls
      <4>2. /\ cpu.hl = (sim.hl.base + sim.hl.scale * cpu.a) % W
            /\ IF sim.hl.has THEN Final ELSE sim.hl.scale = 0
        BY <3>3, <2>h DEF Address
      <4>3. (((sim.hl.base + sim.hl.scale * cpu.a) % W) + k) % W
              = (((sim.hl.base + k) % W) + sim.hl.scale * cpu.a) % W
        <5>1. k \in Int
          BY <2>21
        <5>2. sim.hl.base \in Nat /\ sim.hl.scale \in Nat /\ cpu.a \in Nat
          BY <3>n
        <5>3. QED BY <5>1, <5>2, Shifted, ZenonT(60)
      <4>m. (cpu.hl + pair) % W = (hl.base + hl.scale * cpu.a) % W
        BY <4>1, <4>2, <4>3, <3>3, <2>21, Zenon
      <4> HIDE DEF hl
      <4>4. QED BY <2>20, <2>21, <4>1, <4>2, <4>m DEF hl
    <3>4. CASE sim.hl.known /\ ~ isIndex /\ k = -1
      <4>1. ~ hl.known
        BY <3>4, <3>n DEF Added, Hls
      <4>2. QED BY <2>20, <2>21, <4>1
    <3>5. QED BY <3>1, <3>2, <3>3, <3>4
  <2>22. CASE AddDe
    <3>1. cpu.d \in Byte /\ cpu.e \in Byte /\ (sim.e /\ sim.d0) \in BOOLEAN
      BY <2>s DEF Cpus, Sims
    <3>2. cpu.d * B + cpu.e \in Nat /\ sim.de \in Int
      <4>1. cpu.d * B + cpu.e \in Word
        BY <3>1, Halved DEF Word
      <4>2. QED BY <4>1, Operands, Numbers
    <3>3. cpu.d = 0 => cpu.d * B + cpu.e = cpu.e
      <4>1. cpu.e \in Nat /\ B \in Nat
        BY <3>1, Operands
      <4>2. QED BY <4>1
    <3>4. sim.e /\ sim.d0 => Final /\ cpu.d * B + cpu.e = cpu.a
      BY <3>3, <2>h DEF HalvesHeld
    <3>5. sim.de # -1 => cpu.d * B + cpu.e = sim.de
      BY <2>h DEF Pairs
    <3>6. QED BY <2>21, <2>22, <3>1, <3>2, <3>4, <3>5 DEF AddDe
  <2>23. CASE AddBc
    <3>1. cpu.b \in Byte /\ cpu.c \in Byte /\ (sim.c /\ sim.b0) \in BOOLEAN
      BY <2>s DEF Cpus, Sims
    <3>2. cpu.b * B + cpu.c \in Nat /\ sim.bc \in Int
      <4>1. cpu.b * B + cpu.c \in Word
        BY <3>1, Halved DEF Word
      <4>2. QED BY <4>1, Operands, Numbers
    <3>3. cpu.b = 0 => cpu.b * B + cpu.c = cpu.c
      <4>1. cpu.c \in Nat /\ B \in Nat
        BY <3>1, Operands
      <4>2. QED BY <4>1
    <3>4. sim.c /\ sim.b0 => Final /\ cpu.b * B + cpu.c = cpu.a
      BY <3>3, <2>h DEF HalvesHeld
    <3>5. sim.bc # -1 => cpu.b * B + cpu.c = sim.bc
      BY <2>h DEF Pairs
    <3>6. QED BY <2>21, <2>23, <3>1, <3>2, <3>4, <3>5 DEF AddBc
  <2>24. CASE AddHl
    <3> DEFINE hl == IF sim.hl.known
                       THEN [sim.hl EXCEPT !.base = (2 * @) % W, !.scale = 2 * @]
                       ELSE sim.hl
    <3>1. Add(cpu.hl, hl)
      BY <2>24 DEF AddHl
    <3>2. ASSUME hl.known
          PROVE  /\ (cpu.hl + cpu.hl) % W = (hl.base + hl.scale * cpu.a) % W
                 /\ IF hl.has THEN Final ELSE hl.scale = 0
      <4>1. /\ sim.hl.known /\ hl.base = (2 * sim.hl.base) % W
            /\ hl.scale = 2 * sim.hl.scale /\ hl.has = sim.hl.has
        <5>1. sim.hl \in Hls
          BY <2>s DEF Sims
        <5>2. QED BY <3>2, <5>1 DEF Hls
      <4>2. /\ cpu.hl = (sim.hl.base + sim.hl.scale * cpu.a) % W
            /\ IF sim.hl.has THEN Final ELSE sim.hl.scale = 0
        BY <4>1, <2>h DEF Address
      <4>3. sim.hl.base \in Nat /\ sim.hl.scale \in Nat /\ cpu.a \in Nat
        BY Numbers
      <4>m. (((sim.hl.base + sim.hl.scale * cpu.a) % W)
                + ((sim.hl.base + sim.hl.scale * cpu.a) % W)) % W
              = (((2 * sim.hl.base) % W) + (2 * sim.hl.scale) * cpu.a) % W
        BY <4>3, Moved, ZenonT(60)
      <4>4. (cpu.hl + cpu.hl) % W
              = (((2 * sim.hl.base) % W) + (2 * sim.hl.scale) * cpu.a) % W
        BY <4>2, <4>m, Zenon
      <4> HIDE DEF hl
      <4>5. sim.hl.scale = 0 => 2 * sim.hl.scale = 0
        OBVIOUS
      <4>6. QED BY <4>1, <4>2, <4>4, <4>5
    <3> HIDE DEF hl
    <3>3. QED BY <2>20, <3>1, <3>2
  <2>25. ASSUME NEW by \in {-1, 1}, Move(by) PROVE AddressInv'
    <3>1. used'.regs = used.regs \cup {"h", "l"}
      <4>1. Instruction({}, {"h", "l"}, FALSE)
        BY <2>25 DEF Move, MovesHl
      <4>2. QED BY <4>1 DEF Instruction
    <3> DEFINE hl == [sim.hl EXCEPT !.base = IF sim.hl.known THEN (@ + by) % W ELSE @]
    <3>2. cpu'.hl = (cpu.hl + by) % W /\ sim'.hl = hl
          /\ UNCHANGED <<sim.a, sim.bc, sim.de, sim.c, sim.b0, sim.e, sim.d0,
                         sim.h0, cpu.a, cpu.b, cpu.c, cpu.d, cpu.e>>
      BY <2>25, <2>s DEF Move, Sims, Cpus, Hls
    <3>3. ASSUME hl.known
          PROVE  /\ (cpu.hl + by) % W = (hl.base + hl.scale * cpu.a) % W
                 /\ IF hl.has THEN Final ELSE hl.scale = 0
      <4>1. /\ sim.hl.known /\ hl.base = (sim.hl.base + by) % W
            /\ hl.scale = sim.hl.scale /\ hl.has = sim.hl.has
        <5>1. sim.hl \in Hls
          BY <2>s DEF Sims
        <5>2. QED BY <3>3, <5>1 DEF Hls
      <4>2. /\ cpu.hl = (sim.hl.base + sim.hl.scale * cpu.a) % W
            /\ IF sim.hl.has THEN Final ELSE sim.hl.scale = 0
        BY <4>1, <2>h DEF Address
      <4>3. sim.hl.base \in Nat /\ sim.hl.scale \in Nat /\ cpu.a \in Nat /\ by \in Int
        BY Numbers
      <4>m. (((sim.hl.base + sim.hl.scale * cpu.a) % W) + by) % W
              = (((sim.hl.base + by) % W) + sim.hl.scale * cpu.a) % W
        BY <4>3, Moved, ZenonT(60)
      <4>4. (cpu.hl + by) % W
              = (((sim.hl.base + by) % W) + sim.hl.scale * cpu.a) % W
        BY <4>2, <4>m, Zenon
      <4> HIDE DEF hl
      <4>5. QED BY <4>1, <4>2, <4>4
    <3> HIDE DEF hl
    <3>4. QED BY <2>19, <3>1, <3>2, <3>3
  <2>26. CASE UNCHANGED blockVars
    BY <2>26, <2>h DEF blockVars, AddressInv, HalvesHeld, Pairs, Address, Final
  <2>27. CASE BlockNext
    BY <2>2, <2>3, <2>4, <2>5, <2>6, <2>7, <2>8, <2>9, <2>10, <2>11, <2>12, <2>14,
       <2>15, <2>16, <2>17, <2>18, <2>22, <2>23, <2>24, <2>25, <2>26, <2>27
       DEF BlockNext, Done, Sub, Masks, Dec, Inc, Twice
  <2>28. QED BY <2>26, <2>27
<1>3. QED BY <1>1, <1>2, TypeCorrect, PTL DEF BlockSpec

\* A dispatch without arithmetic on the address other than an index times a
\* scale reads from the base it is matched with, whatever its index, even if the
\* index leaves the byte or flags are changed behind its compare.
THEOREM MatchesFromBase ==
  ASSUME Idioms \subseteq {"wrap", "flags"}
  PROVE  BlockSpec => []MatchedFromBase
<1>1. TypeOK /\ AddressInv => MatchedFromBase
  <2> SUFFICES ASSUME TypeOK, AddressInv, Matched
               PROVE  \E i \in Byte : (cpu.hl - sim.hl.base) % W
                                        = (i * sim.hl.scale) % W
    BY DEF MatchedFromBase
  <2> DEFINE base  == sim.hl.base
             scale == sim.hl.scale
             a     == cpu.a
  <2>1. cpu.hl = (base + scale * a) % W
    BY DEF AddressInv, Address, Matched
  <2>2. base \in Nat /\ scale \in Nat /\ a \in Nat /\ a \in Byte
    BY Numbers
  <2> HIDE DEF base, scale, a
  <2>3. base + scale * a \in Int /\ -base \in Int
    BY <2>2
  <2>4. (((base + scale * a) % W) + (-base)) % W = (base + scale * a + (-base)) % W
    BY <2>3, Halved, EarlyRemainder
  <2>5. base + scale * a + (-base) = a * scale
    BY <2>2
  <2>6. ((base + scale * a) % W) + (-base) = ((base + scale * a) % W) - base
    <3>1. \A d \in Nat \ {0}, n \in Int : n % d \in Int
      OBVIOUS
    <3>2. QED BY <3>1, <2>2, <2>3, Halved
  <2>7. (cpu.hl - base) % W = (a * scale) % W
    BY <2>1, <2>4, <2>5, <2>6
  <2>8. QED BY <2>2, <2>7 DEF base, scale
<1>2. QED BY <1>1, TypeCorrect, AddressInvariant, PTL

-----------------------------------------------------------------------------
(* The range of the index.                                                  *)

\* A and A' are in the range the simulation gives them, and a compare it has
\* not forgotten is the one the carry is from.
InRange(s, a) == s.idx => s.lo <= a /\ a <= s.hi
Carried(cp, a, carry) == cp # -1 => (carry <=> a < cp)

RangeInv ==
  /\ InRange(sim.a, cpu.a) /\ InRange(sim.ap, cpu.ap)
  /\ Carried(sim.cp, cpu.a, cpu.carry)
  /\ sim.cp # -1 => used.compare

\* What is done to the range of an index holds of the index.
LEMMA RangesFollow ==
  ASSUME NEW s \in Ranges, NEW a \in Byte, NEW n \in Byte, InRange(s, a), s.idx
  PROVE  /\ a - n \in Byte => InRange(Down(s, n), a - n)
         /\ a + 1 \in Byte => InRange(Up(s), a + 1)
         /\ 2 * a \in Byte => InRange(Double(s), 2 * a)
         /\ \A m \in 0 .. n : InRange(Mask(s, n), m)
         /\ a < n => InRange(Below(s, n), a)
         /\ ~ (a < n) => InRange(AtLeast(s, n), a)
<1>1. /\ s.lo \in Int /\ s.hi \in Int /\ a \in Nat /\ n \in Nat /\ B \in Nat
      /\ s.lo <= a /\ a <= s.hi
  BY Operands DEF Ranges, InRange
<1>2. a - n \in Byte => InRange(Down(s, n), a - n)
  BY <1>1 DEF InRange, Down, AtZero, Byte, Ranges
<1>3. a + 1 \in Byte => InRange(Up(s), a + 1)
  BY <1>1 DEF InRange, Up, Ranges
<1>4. 2 * a \in Byte => InRange(Double(s), 2 * a)
  BY <1>1 DEF InRange, Double, Cut, Byte, Ranges
<1>5. \A m \in 0 .. n : InRange(Mask(s, n), m)
  BY <1>1 DEF InRange, Mask, Ranges
<1>6. a < n => InRange(Below(s, n), a)
  BY <1>1 DEF InRange, Below, Ranges
<1>7. ~ (a < n) => InRange(AtLeast(s, n), a)
  BY <1>1 DEF InRange, AtLeast, Ranges
<1>8. QED BY <1>2, <1>3, <1>4, <1>5, <1>6, <1>7

\* A stays in the range of the index, as long as arithmetic stays in the byte.
LEMMA RangeInvariant ==
  ASSUME Idioms \subseteq {"stale", "reload"}
  PROVE  BlockSpec => []RangeInv
<1>1. BlockInit => RangeInv
  <2>1. B \in Nat /\ Byte \subseteq Nat
    BY Operands
  <2>2. QED BY <2>1 DEF BlockInit, Start, Index, NoIndex, RangeInv, InRange, Carried, Byte
<1>2. TypeOK /\ RangeInv /\ [BlockNext]_blockVars => RangeInv'
  <2> SUFFICES ASSUME TypeOK, RangeInv, [BlockNext]_blockVars PROVE RangeInv'
    OBVIOUS
  <2>s. sim \in Sims /\ cpu \in Cpus /\ used \in Uses
    BY DEF TypeOK
  <2>h. /\ InRange(sim.a, cpu.a) /\ InRange(sim.ap, cpu.ap)
        /\ Carried(sim.cp, cpu.a, cpu.carry) /\ (sim.cp # -1 => used.compare)
    BY DEF RangeInv
  <2>a. /\ sim.a \in Ranges /\ sim.ap \in Ranges /\ cpu.a \in Byte /\ cpu.ap \in Byte
        /\ sim.a.idx \in BOOLEAN
    BY <2>s DEF Sims, Cpus, Ranges
  <2>1. ASSUME NEW regs, NEW copied, NEW compare, Instruction(regs, copied, compare)
        PROVE  sim.cp = -1
    BY <2>1, <2>h DEF Instruction
  <2>2. ASSUME sim'.cp = -1, InRange(sim'.a, cpu'.a), InRange(sim'.ap, cpu'.ap)
        PROVE  RangeInv'
    BY <2>2 DEF RangeInv, Carried
  <2>3. ASSUME sim'.cp = sim.cp, UNCHANGED <<sim.a, sim.ap, cpu.a, cpu.ap>>,
               NEW regs, NEW copied, NEW compare, Instruction(regs, copied, compare)
        PROVE  RangeInv'
    BY <2>1, <2>2, <2>3, <2>h
  <2>4. ASSUME NEW v \in Byte, LoadA(v) PROVE RangeInv'
    <3>1. InRange(Index(0, B - 1, FALSE), v)
      BY Operands DEF InRange, Index, Byte
    <3>2. sim'.a = Index(0, B - 1, FALSE) /\ sim'.ap = sim.ap /\ sim'.cp = -1
          /\ cpu'.a = v /\ cpu'.ap = cpu.ap
      BY <2>4, <2>s DEF LoadA, Sims, Cpus
    <3>3. QED BY <2>2, <2>h, <3>1, <3>2
  <2>5. ASSUME NEW v \in Bytes, LoadImmediate(v) PROVE RangeInv'
    <3>1. ~ sim'.a.idx /\ sim'.ap = sim.ap /\ sim'.cp = -1 /\ cpu'.ap = cpu.ap
      BY <2>5, <2>s DEF LoadImmediate, Sims, Cpus, Ranges
    <3>2. InRange(sim'.a, cpu'.a)
      BY <3>1 DEF InRange
    <3>3. QED BY <2>2, <2>h, <3>1, <3>2
  <2>6. CASE Exchange
    <3>1. /\ sim'.a = sim.ap /\ sim'.ap = sim.a /\ sim'.cp = -1
          /\ cpu'.a = cpu.ap /\ cpu'.ap = cpu.a
      BY <2>6, <2>s DEF Exchange, Sims, Cpus
    <3>2. QED BY <2>2, <2>h, <3>1
  <2>7. ASSUME NEW n \in Bytes, Compare(n) PROVE RangeInv'
    <3>1. /\ UNCHANGED <<sim.a, sim.ap, cpu.a, cpu.ap>> /\ sim'.cp = n
          /\ cpu'.carry = (cpu.a < n)
      BY <2>7, <2>s DEF Compare, Sims, Cpus
    <3>2. used'.compare
      BY <2>7 DEF Compare, Instruction
    <3>3. QED BY <2>h, <3>1, <3>2 DEF RangeInv, Carried
  <2>8. ASSUME NEW nc \in BOOLEAN, Branch(nc) PROVE RangeInv'
    <3>1. /\ cpu' = cpu /\ cpu.carry = nc /\ sim'.cp = -1 /\ sim'.ap = sim.ap
          /\ sim'.a = IF sim.cp = -1 \/ ~ sim.a.idx THEN sim.a
                      ELSE IF nc THEN Below(sim.a, sim.cp) ELSE AtLeast(sim.a, sim.cp)
      BY <2>8, <2>s DEF Branch, Sims
    <3>2. InRange(sim'.a, cpu.a)
      <4>1. CASE sim.cp = -1 \/ ~ sim.a.idx
        BY <3>1, <4>1, <2>h
      <4>2. CASE sim.cp # -1 /\ sim.a.idx
        <5>1. sim.cp \in Byte /\ (cpu.carry <=> cpu.a < sim.cp)
          BY <4>2, <2>h, Numbers DEF Carried
        <5>2. /\ cpu.a < sim.cp => InRange(Below(sim.a, sim.cp), cpu.a)
              /\ ~ (cpu.a < sim.cp) => InRange(AtLeast(sim.a, sim.cp), cpu.a)
          BY <4>2, <5>1, <2>a, <2>h, RangesFollow
        <5>3. CASE nc
          BY <3>1, <4>2, <5>1, <5>2, <5>3
        <5>4. CASE ~ nc
          BY <3>1, <4>2, <5>1, <5>2, <5>4
        <5>5. QED BY <5>3, <5>4
      <4>3. QED BY <4>1, <4>2
    <3>3. QED BY <2>2, <2>h, <3>1, <3>2
  <2>9. ASSUME NEW result \in Int, NEW carry, NEW range, NEW cp \in {-1, sim.cp},
               Arithmetic(result, carry, range, cp),
               sim.a.idx /\ result \in Byte => InRange(range, result)
        PROVE  RangeInv'
    <3>1. /\ result \in Byte /\ cpu'.a = result % B /\ cpu'.ap = cpu.ap
          /\ sim'.a = IF sim.a.idx THEN range ELSE sim.a
          /\ sim'.ap = sim.ap /\ sim'.cp = cp
      BY <2>9, <2>s DEF Arithmetic, Sims, Cpus
    <3>2. Instruction({"a"}, {}, FALSE)
      BY <2>9 DEF Arithmetic, Writes
    <3>3. cp = -1
      BY <2>1, <2>9, <3>2
    <3>4. result % B = result
      <4>1. B \in Nat \ {0, 1} /\ result \in 0 .. B - 1
        BY <3>1, Halved DEF Byte
      <4>2. QED BY <4>1
    <3>5. InRange(sim'.a, cpu'.a)
      BY <3>1, <3>4, <2>9, <2>h DEF InRange
    <3>6. QED BY <2>2, <2>h, <3>1, <3>3, <3>5
  <2>n. cpu.a \in Int /\ 1 \in Byte
    <3>1. B \in Nat \ {0, 1}
      BY Halved
    <3>2. QED BY <2>a, <3>1 DEF Byte
  <2>10. ASSUME NEW n \in Byte, Arithmetic(cpu.a - n, cpu.a < n, Down(sim.a, n), sim.cp)
                \/ Arithmetic(cpu.a - n, cpu.carry, Down(sim.a, n), sim.cp)
         PROVE  RangeInv'
    <3>1. sim.a.idx /\ cpu.a - n \in Byte => InRange(Down(sim.a, n), cpu.a - n)
      BY <2>a, <2>h, RangesFollow
    <3>2. cpu.a - n \in Int
      BY <2>n, Operands
    <3>3. QED BY <2>9, <2>10, <3>1, <3>2
  <2>11. ASSUME NEW n \in Bytes, Sub(n) PROVE RangeInv'
    BY <2>10, <2>11, Operands DEF Sub
  <2>12. CASE Dec
    BY <2>10, <2>12, <2>n DEF Dec
  <2>13. CASE Inc
    <3>1. sim.a.idx /\ cpu.a + 1 \in Byte => InRange(Up(sim.a), cpu.a + 1)
      BY <2>a, <2>h, <2>n, RangesFollow
    <3>2. cpu.a + 1 \in Int
      BY <2>n
    <3>3. QED BY <2>9, <2>13, <3>1, <3>2 DEF Inc
  <2>14. CASE Twice
    <3>1. sim.a.idx /\ 2 * cpu.a \in Byte => InRange(Double(sim.a), 2 * cpu.a)
      BY <2>a, <2>h, <2>n, RangesFollow
    <3>2. 2 * cpu.a \in Int
      BY <2>n
    <3>3. QED BY <2>9, <2>14, <3>1, <3>2 DEF Twice
  <2>15. ASSUME NEW n \in Bytes, Masks(n) PROVE RangeInv'
    <3>1. n \in Byte /\ And[cpu.a][n] \in 0 .. n
      BY <2>a, Operands, AndBelow
    <3>2. sim.a.idx => InRange(Mask(sim.a, n), And[cpu.a][n])
      BY <3>1, <2>a, <2>h, RangesFollow
    <3>3. And[cpu.a][n] \in Int
      BY <3>1, Operands
    <3>4. QED BY <2>9, <2>15, <3>2, <3>3 DEF Masks
  <2>16. CASE CopyToC \/ CopyToE \/ CopyToL \/ CToL
    <3>1. /\ sim'.cp = sim.cp /\ UNCHANGED <<sim.a, sim.ap, cpu.a, cpu.ap>>
      BY <2>16, <2>s DEF CopyToC, CopyToE, CopyToL, CToL, Sims, Cpus
    <3>2. \E regs, copied, compare : Instruction(regs, copied, compare)
      BY <2>16 DEF CopyToC, CopyToE, CopyToL, CToL, Copies, Writes
    <3>3. QED BY <2>3, <3>1, <3>2
  <2>17. ASSUME NEW n \in Bytes, LoadB(n) \/ LoadD(n) \/ LoadH(n) PROVE RangeInv'
    <3>1. /\ sim'.cp = sim.cp /\ UNCHANGED <<sim.a, sim.ap, cpu.a, cpu.ap>>
      BY <2>17, <2>s DEF LoadB, LoadD, LoadH, Sims, Cpus
    <3>2. \E regs, copied, compare : Instruction(regs, copied, compare)
      BY <2>17 DEF LoadB, LoadD, LoadH, Writes
    <3>3. QED BY <2>3, <3>1, <3>2
  <2>18. ASSUME NEW nn \in Words, LoadHl(nn) \/ LoadDe(nn) \/ LoadBc(nn)
         PROVE  RangeInv'
    <3>1. /\ sim'.cp = sim.cp /\ UNCHANGED <<sim.a, sim.ap, cpu.a, cpu.ap>>
      BY <2>18, <2>s DEF LoadHl, LoadDe, LoadBc, Sims, Cpus
    <3>2. \E regs, copied, compare : Instruction(regs, copied, compare)
      BY <2>18 DEF LoadHl, LoadDe, LoadBc, Writes
    <3>3. QED BY <2>3, <3>1, <3>2
  <2>19. CASE AddDe \/ AddBc \/ AddHl \/ Move(1) \/ Move(-1)
    <3>1. /\ sim'.cp = sim.cp /\ UNCHANGED <<sim.a, sim.ap, cpu.a, cpu.ap>>
      BY <2>19, <2>s DEF AddDe, AddBc, AddHl, Add, Move, Sims, Cpus
    <3>2. \E regs, copied, compare : Instruction(regs, copied, compare)
      BY <2>19 DEF AddDe, AddBc, AddHl, Add, Move, MovesHl
    <3>3. QED BY <2>3, <3>1, <3>2
  <2>20. CASE UNCHANGED blockVars
    BY <2>20, <2>h DEF blockVars, RangeInv
  <2>21. CASE BlockNext
    BY <2>4, <2>5, <2>6, <2>7, <2>8, <2>11, <2>12, <2>13, <2>14, <2>15, <2>16, <2>17,
       <2>18, <2>19, <2>20, <2>21 DEF BlockNext, Done
  <2>22. QED BY <2>20, <2>21
<1>3. QED BY <1>1, <1>2, TypeCorrect, PTL DEF BlockSpec

\* The distance of two words.
LEMMA Distance ==
  ASSUME NEW d \in Nat \ {0}, NEW x \in Int, NEW y \in Int
  PROVE  ((x % d) - (y % d)) % d = (x - y) % d
<1> DEFINE q == y \div d
           s == y % d
           p == (x - y) \div d
           g == (x - y) % d
<1>1. q \in Int /\ s \in 0 .. d - 1 /\ y = (d * q) + s
  BY Divide
<1>2. p \in Int /\ g \in 0 .. d - 1 /\ x - y = (d * p) + g
  <2>1. x - y \in Int
    OBVIOUS
  <2>2. QED BY <2>1, Divide
<1>3. x % d \in Int
  BY Divide
<1> HIDE DEF q, s, p, g
<1>4. ((x % d) + (-s)) % d = (x + (-s)) % d
  <2>1. -s \in Int
    BY <1>1
  <2>2. QED BY <2>1, EarlyRemainder
<1>5. x + (-s) = (d * (p + q)) + g
  BY <1>1, <1>2
<1>6. ((d * (p + q)) + g) % d = g
  <2>1. p + q \in Int
    BY <1>1, <1>2
  <2>2. QED BY <1>2, <2>1, Remainder
<1>7. (x % d) + (-s) = (x % d) - s
  BY <1>1, <1>3
<1>8. QED BY <1>4, <1>5, <1>6, <1>7 DEF s, g

\* A table of proven size holds every pointer the dispatch can read, whatever
\* index it is entered with.
THEOREM TablesCovered ==
  ASSUME Idioms = {}
  PROVE  BlockSpec => []ProvenCovers
<1>1. TypeOK /\ AddressInv /\ RangeInv => ProvenCovers
  <2> SUFFICES ASSUME TypeOK, AddressInv, RangeInv, Proven
               PROVE  (cpu.hl - TableBase) % W <= Stride * (Count - 1)
    BY DEF ProvenCovers
  <2> DEFINE base  == sim.hl.base
             scale == sim.hl.scale
             a     == cpu.a
             lo    == sim.a.lo
             hi    == sim.a.hi
  <2>1. cpu.hl = (base + scale * a) % W /\ Final /\ scale >= 1
    BY DEF AddressInv, Address, Proven, Matched
  <2>2. base \in Nat /\ scale \in Nat /\ a \in Nat /\ lo \in Int /\ hi \in Int
    BY Numbers DEF Ranges
  <2>3. lo <= a /\ a <= hi
    BY <2>1 DEF RangeInv, InRange, Final
  <2>4. Span = (hi - lo) * scale /\ Span % 2 = 0 /\ TableBase = (base + lo * scale) % W
        /\ Count = Span \div 2 + 1
    BY DEF Span, TableBase, Proven, Count, Stride
  <2> HIDE DEF base, scale, a, lo, hi
  <2> DEFINE x == base + scale * a
             y == base + lo * scale
             n == (a - lo) * scale
  <2>5. x \in Int /\ y \in Int /\ n \in Int
    BY <2>2
  <2>6. x - y = n
    BY <2>2
  <2>7. 0 <= n /\ n <= (hi - lo) * scale /\ (hi - lo) * scale \in Int
    <3>1. a - lo \in Nat /\ hi - lo \in Nat /\ hi - a \in Nat
      BY <2>2, <2>3
    <3>2. n \in Nat /\ (hi - a) * scale \in Nat /\ (hi - lo) * scale \in Nat
      BY <3>1, <2>2
    <3>3. (hi - lo) * scale = n + (hi - a) * scale
      BY <2>2
    <3>4. QED BY <3>2, <3>3
  <2>8. (cpu.hl - TableBase) % W = (x - y) % W
    <3>1. ((x % W) - (y % W)) % W = (x - y) % W
      BY <2>5, Halved, Distance
    <3>2. QED BY <3>1, <2>1, <2>4
  <2> HIDE DEF x, y, n
  <2>9. n % W <= n
    <3>1. n \in Nat
      BY <2>5, <2>7
    <3>2. QED BY <3>1, Halved, NotAbove
  <2>10. 2 * (Count - 1) = Span
    <3>1. Span \in Int
      BY <2>4, <2>7
    <3>a. /\ Span \div 2 \in Int
          /\ Span = (2 * (Span \div 2)) + (Span % 2)
      BY <3>1, Divide
    <3>2. QED BY <3>a, <2>4
  <2>11. n % W \in Int
    BY <2>5, Halved
  <2>12. QED BY <2>4, <2>5, <2>6, <2>7, <2>8, <2>9, <2>10, <2>11 DEF Stride
<1>2. BlockSpec => []AddressInv
  <2>1. Idioms \subseteq {"wrap", "flags"}
    OBVIOUS
  <2>2. QED BY <2>1, AddressInvariant
<1>3. BlockSpec => []RangeInv
  <2>1. Idioms \subseteq {"stale", "reload"}
    OBVIOUS
  <2>2. QED BY <2>1, RangeInvariant
<1>4. QED BY <1>1, <1>2, <1>3, TypeCorrect, PTL
=============================================================================
