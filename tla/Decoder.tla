------------------------------ MODULE Decoder ------------------------------
(***************************************************************************)
(* One instruction read twice: by the compiler, whose decoder measures and *)
(* classifies it (src/recompiler/src/z80_decoder.c) and whose generator    *)
(* adds up its cycles (src/recompiler/src/code_generator.c), and by the    *)
(* interpreter, which fetches it byte by byte through nested handlers      *)
(* (src/runner/external/superzazu/z80.c).  A byte too many or too few      *)
(* misaligns all code behind it; a cycle moves every interrupt.            *)
(*                                                                         *)
(* Operands are not looked at: an instruction is its prefixes, its opcode  *)
(* and zeros.                                                              *)
(***************************************************************************)
EXTENDS Naturals, Sequences, FiniteSets

CONSTANTS
  MaxRounds,  \* how often a repeated instruction, or a djnz loop, goes round
  Oddities    \* encodings admitted on which the two readers are known to differ

Opcode == 0 .. 255

\* The bit fields of an opcode: x = op >> 6, y = (op >> 3) & 7, z = op & 7.
X(op) == op \div 64
Y(op) == (op \div 8) % 8
Z(op) == op % 8

-----------------------------------------------------------------------------
(* The decoder.                                                             *)

base_len == <<
  1, 3, 1, 1, 1, 1, 2, 1, 1, 1, 1, 1, 1, 1, 2, 1,
  2, 3, 1, 1, 1, 1, 2, 1, 2, 1, 1, 1, 1, 1, 2, 1,
  2, 3, 3, 1, 1, 1, 2, 1, 2, 1, 3, 1, 1, 1, 2, 1,
  2, 3, 3, 1, 1, 1, 2, 1, 2, 1, 3, 1, 1, 1, 2, 1,
  1, 1, 1, 1, 1, 1, 1, 1, 1, 1, 1, 1, 1, 1, 1, 1,
  1, 1, 1, 1, 1, 1, 1, 1, 1, 1, 1, 1, 1, 1, 1, 1,
  1, 1, 1, 1, 1, 1, 1, 1, 1, 1, 1, 1, 1, 1, 1, 1,
  1, 1, 1, 1, 1, 1, 1, 1, 1, 1, 1, 1, 1, 1, 1, 1,
  1, 1, 1, 1, 1, 1, 1, 1, 1, 1, 1, 1, 1, 1, 1, 1,
  1, 1, 1, 1, 1, 1, 1, 1, 1, 1, 1, 1, 1, 1, 1, 1,
  1, 1, 1, 1, 1, 1, 1, 1, 1, 1, 1, 1, 1, 1, 1, 1,
  1, 1, 1, 1, 1, 1, 1, 1, 1, 1, 1, 1, 1, 1, 1, 1,
  1, 1, 3, 3, 3, 1, 2, 1, 1, 1, 3, 0, 3, 3, 2, 1,
  1, 1, 3, 2, 3, 1, 2, 1, 1, 1, 3, 2, 3, 0, 2, 1,
  1, 1, 3, 1, 3, 1, 2, 1, 1, 1, 3, 1, 3, 0, 2, 1,
  1, 1, 3, 1, 3, 1, 2, 1, 1, 1, 3, 1, 3, 0, 2, 1 >>

\* Mistake: loads and stores through (hl) take a displacement, inc and dec do not.
op_uses_hl_mem_late(op) ==
  /\ op # \h76
  /\ \/ op = \h36
     \/ X(op) \in {1, 2} /\ Z(op) = 6
     \/ op \in \h70 .. \h77

\* Under DD/FD: does the opcode address memory through (ix+d)?
op_uses_hl_mem(op) ==
  /\ op # \h76
  /\ \/ op \in {\h34, \h35, \h36}
     \/ X(op) = 1 /\ Z(op) = 6
     \/ op \in \h70 .. \h77
     \/ X(op) = 2 /\ Z(op) = 6

\* Control flow: [cf, target]; what a target comes from: the instruction's
\* offset "e" or word "nn", its own bits "rst", or a register.
Cf(cf, target) == [cf |-> cf, target |-> target]
Plain == Cf("none", "none")

classify_base(op) ==
  CASE op = \h18                               -> Cf("jump", "e")
    [] op \in {\h10, \h20, \h28, \h30, \h38}   -> Cf("jump_cond", "e")
    [] op = \hC3                               -> Cf("jump", "nn")
    [] X(op) = 3 /\ Z(op) = 2                  -> Cf("jump_cond", "nn")
    [] op = \hCD                               -> Cf("call", "nn")
    [] X(op) = 3 /\ Z(op) = 4                  -> Cf("call_cond", "nn")
    [] X(op) = 3 /\ Z(op) = 7                  -> Cf("call", "rst")
    [] op = \hC9                               -> Cf("ret", "none")
    [] X(op) = 3 /\ Z(op) = 0                  -> Cf("ret_cond", "none")
    [] op = \hE9                               -> Cf("jump", "none")
    [] OTHER                                   -> Plain

\* DD/FD prefixes in front, the last one wins.
Prefix == {\hDD, \hFD}

PrefixCount(p) ==
  CHOOSE i \in 0 .. Len(p) - 1 : (\A j \in 1 .. i : p[j] \in Prefix) /\ p[i + 1] \notin Prefix

Insn(prefix, op, disp, length, cf, halt) ==
  [prefix |-> prefix, opcode |-> op, uses_disp |-> disp, cf |-> cf, is_halt |-> halt,
   length |-> IF length > 4 THEN 4 ELSE length]

DecodeCb(p, i, pfx) ==
  IF pfx = "none" THEN Insn("cb", p[i + 2], FALSE, i + 2, Plain, FALSE)
                  ELSE Insn("ddcb", p[i + 3], TRUE, i + 3, Plain, FALSE)

DecodeEd(p, i) ==
  LET eop == p[i + 2]
  IN  Insn("ed", eop, FALSE, i + (IF X(eop) = 1 /\ Z(eop) = 3 THEN 4 ELSE 2),
           IF eop \in {\h4D, \h45, \h55, \h65, \h75} THEN Cf("ret", "none") ELSE Plain,
           FALSE)

DecodePlain(p, i, pfx) ==
  LET b    == p[i + 1]
      disp == pfx # "none" /\ op_uses_hl_mem(b)
  IN  Insn(pfx, b, disp, i + (IF disp THEN 1 ELSE 0) + base_len[b + 1],
           classify_base(b), b = \h76 /\ pfx = "none")

z80_decode(p) ==
  LET i   == PrefixCount(p)
      pfx == IF i = 0 THEN "none" ELSE IF p[i] = \hDD THEN "dd" ELSE "fd"
  IN  CASE p[i + 1] = \hCB -> DecodeCb(p, i, pfx)
        [] p[i + 1] = \hED -> DecodeEd(p, i)
        [] OTHER           -> DecodePlain(p, i, pfx)

-----------------------------------------------------------------------------
(* The generator.                                                           *)

base_cyc == <<
   4,10, 7, 6, 4, 4, 7, 4, 4,11, 7, 6, 4, 4, 7, 4,
   8,10, 7, 6, 4, 4, 7, 4,12,11, 7, 6, 4, 4, 7, 4,
   7,10,16, 6, 4, 4, 7, 4, 7,11,16, 6, 4, 4, 7, 4,
   7,10,13, 6,11,11,10, 4, 7,11,13, 6, 4, 4, 7, 4,
   4, 4, 4, 4, 4, 4, 7, 4, 4, 4, 4, 4, 4, 4, 7, 4,
   4, 4, 4, 4, 4, 4, 7, 4, 4, 4, 4, 4, 4, 4, 7, 4,
   4, 4, 4, 4, 4, 4, 7, 4, 4, 4, 4, 4, 4, 4, 7, 4,
   7, 7, 7, 7, 7, 7, 4, 7, 4, 4, 4, 4, 4, 4, 7, 4,
   4, 4, 4, 4, 4, 4, 7, 4, 4, 4, 4, 4, 4, 4, 7, 4,
   4, 4, 4, 4, 4, 4, 7, 4, 4, 4, 4, 4, 4, 4, 7, 4,
   4, 4, 4, 4, 4, 4, 7, 4, 4, 4, 4, 4, 4, 4, 7, 4,
   4, 4, 4, 4, 4, 4, 7, 4, 4, 4, 4, 4, 4, 4, 7, 4,
   5,10,10,10,10,11, 7,11, 5,10,10, 0,10,17, 7,11,
   5,10,10,11,10,11, 7,11, 5, 4,10,11,10, 0, 7,11,
   5,10,10,19,10,11, 7,11, 5, 4,10, 4,10, 0, 7,11,
   5,10,10, 4,10,11, 7,11, 5, 6,10, 4,10, 0, 7,11 >>

BlockOps  == {\hA0, \hA1, \hA2, \hA3, \hA8, \hA9, \hAA, \hAB}
RepeatOps == {\hB0, \hB1, \hB2, \hB3, \hB8, \hB9, \hBA, \hBB}

\* Cycles ticked before an ED instruction; a repeated one ticks in its loop.
ed_cyc(op) ==
  CASE op \in RepeatOps                      -> 0
    [] op \in BlockOps                       -> 16
    [] X(op) = 1 /\ Z(op) \in {0, 1}         -> 12
    [] X(op) = 1 /\ Z(op) = 2                -> 15
    [] X(op) = 1 /\ Z(op) = 3                -> 20
    [] X(op) = 1 /\ Z(op) = 5                -> 14
    [] op \in {\h47, \h4F, \h57, \h5F}       -> 9
    [] op \in {\h67, \h6F}                   -> 18
    [] OTHER                                 -> 8

\* Mistake: (ix+d) always costs eight cycles more than (hl).
cyc_base_all(in) ==
  LET op == in.opcode
  IN  CASE in.prefix = "cb"   -> IF Z(op) # 6 THEN 8 ELSE IF X(op) = 1 THEN 12 ELSE 15
        [] in.prefix = "ddcb" -> IF X(op) = 1 THEN 20 ELSE 23
        [] in.prefix = "ed"   -> ed_cyc(op)
        [] in.prefix = "none" -> base_cyc[op + 1]
        [] OTHER -> base_cyc[op + 1] + 4 + (IF in.uses_disp THEN 8 ELSE 0)

cyc_base(in) ==
  LET op == in.opcode
  IN  CASE in.prefix = "cb"   -> IF Z(op) # 6 THEN 8 ELSE IF X(op) = 1 THEN 12 ELSE 15
        [] in.prefix = "ddcb" -> IF X(op) = 1 THEN 20 ELSE 23
        [] in.prefix = "ed"   -> ed_cyc(op)
        [] in.prefix = "none" -> base_cyc[op + 1]
        [] OTHER -> IF op = \h36 THEN 19
                    ELSE base_cyc[op + 1] + 4 + (IF in.uses_disp THEN 8 ELSE 0)

\* emit_block: the loop's ticks over its rounds.
emit_block(op, rounds) == IF op \in RepeatOps THEN 21 * (rounds - 1) + 16 ELSE 0

\* R counts the opcode and one prefix.
Refresh(in) == IF in.prefix = "none" THEN 1 ELSE 2

\* A condition code: nz z nc c po pe p m, of the four flags.
Holds(cc, flags) ==
  LET flag == <<"z", "c", "p", "s">>[cc \div 2 + 1]
  IN  IF cc % 2 = 1 THEN flag \in flags ELSE flag \notin flags

To(kind, target) == [kind |-> kind, target |-> target]
Next_insn == To("next", "none")

\* What emit_cf makes of an instruction: its condition, and the cycles added
\* when that holds.
EmittedCondition(in, flags, rounds) ==
  LET cc == Y(in.opcode)
  IN  CASE in.cf.cf \in {"ret_cond", "call_cond"} -> Holds(cc, flags)
        [] in.cf.cf = "jump_cond" ->
             IF in.prefix # "none" \/ in.cf.target # "e" THEN Holds(cc, flags)
             ELSE IF in.opcode = \h10 THEN rounds > 1 ELSE Holds(cc % 4, flags)
        [] OTHER -> TRUE

TakenExtra(in) ==
  CASE in.cf.cf = "ret_cond"  -> 6
    [] in.cf.cf = "call_cond" -> 7
    [] in.cf.cf = "jump_cond" /\ in.prefix = "none" /\ in.cf.target = "e" -> 5
    [] OTHER -> 0

Emitted(in, flags, rounds) ==
  LET kind == CASE in.cf.cf \in {"jump", "jump_cond"} -> "jump"
                [] in.cf.cf \in {"call", "call_cond"} -> "call"
                [] in.cf.cf \in {"ret", "ret_cond"}   -> "ret"
                [] OTHER -> "next"
      index == CASE in.prefix = "dd" -> "ix" [] in.prefix = "fd" -> "iy" [] OTHER -> "hl"
      taken == EmittedCondition(in, flags, rounds)
  IN  [flow |-> IF in.is_halt THEN To("halt", "none")
                ELSE IF kind = "next" \/ ~taken THEN Next_insn
                ELSE IF kind = "jump" /\ in.cf.target = "none" THEN To("jump", index)
                ELSE To(kind, in.cf.target),
       cyc  |-> cyc_base(in) + (IF taken THEN TakenExtra(in) ELSE 0)
                + (IF in.prefix = "ed" THEN emit_block(in.opcode, rounds) ELSE 0)]

-----------------------------------------------------------------------------
(* The interpreter.                                                         *)

VARIABLES
  stream,  \* the bytes at the instruction
  flags,   \* the flags that are set
  rounds,  \* the value of the loop's counter: B of a djnz, what a block has left
  left,    \* rounds yet to go
  stage,   \* the handler about to run: "step", "base", "ddfd", "cb", "dcb", "ed", "done"
  op,      \* its opcode argument
  iz,      \* its register argument: "hl" without a prefix
  pc, cyc, r,  \* bytes fetched, cycles and refreshes counted
  flow     \* where control goes

vars == <<stream, flags, rounds, left, stage, op, iz, pc, cyc, r, flow>>
inputs == <<stream, flags, rounds>>

Encodings ==
  LET ops == Opcode \ {\hCB, \hED, \hDD, \hFD}
  IN  {<<o>> : o \in ops} \cup {<<\hCB, o>> : o \in Opcode} \cup {<<\hED, o>> : o \in Opcode}
      \cup {<<p, o>> : p \in Prefix, o \in ops} \cup {<<p, \hCB, 0, o>> : p \in Prefix, o \in Opcode}

\* Where the two readers differ: otdr repeats at no extra cost in the interpreter,
\* which also returns on three undocumented encodings of retn; a prefix in front
\* of djnz, jr cc, halt, an ED instruction or another prefix is not ignored by
\* the compiler as it is by the interpreter.
Odd == [otdr           |-> {<<\hED, \hBB>>},
        retn           |-> {<<\hED, o>> : o \in {\h5D, \h6D, \h7D}},
        prefixed_jr    |-> {<<p, o>> : p \in Prefix, o \in {\h10, \h20, \h28, \h30, \h38}},
        prefixed_halt  |-> {<<p, \h76>> : p \in Prefix},
        prefixed_ed    |-> {<<p, \hED, o>> : p \in Prefix, o \in Opcode},
        prefixed_twice |-> {<<p, q, o>> : p \in Prefix, q \in Prefix, o \in Opcode \ {\hED}}]

ASSUME DecoderAssumption == MaxRounds \in Nat \ {0} /\ Oddities \subseteq DOMAIN Odd

Streams == (Encodings \ UNION {Odd[o] : o \in DOMAIN Odd}) \cup UNION {Odd[o] : o \in Oddities}

Init == /\ stream \in {s \o <<0, 0, 0>> : s \in Streams}
        /\ flags \in SUBSET {"z", "c", "p", "s"}
        /\ rounds \in 1 .. MaxRounds /\ left = rounds
        /\ stage = "step" /\ op = 0 /\ iz = "hl"
        /\ pc = 0 /\ cyc = 0 /\ r = 0 /\ flow = Next_insn

\* nextb as the opcode of another handler.
NextOpcode(handler, skip) ==
  /\ op' = stream[pc + skip + 1] /\ pc' = pc + skip + 1 /\ stage' = handler
  /\ UNCHANGED <<inputs, left, flow>>

\* The handler returns, with its operands fetched.
Return(operands, to) ==
  /\ pc' = pc + operands /\ flow' = to /\ stage' = "done"
  /\ UNCHANGED <<inputs, left, op, iz>>

Counts(cycles, refreshes) == cyc' = cyc + cycles /\ r' = r + refreshes

z80_step == stage = "step" /\ NextOpcode("base", 0) /\ UNCHANGED <<iz, cyc, r>>

cyc_00 == <<
  4, 10, 7, 6, 4, 4, 7, 4, 4, 11, 7, 6, 4, 4, 7, 4,
  8, 10, 7, 6, 4, 4, 7, 4, 12, 11, 7, 6, 4, 4, 7, 4,
  7, 10, 16, 6, 4, 4, 7, 4, 7, 11, 16, 6, 4, 4, 7, 4,
  7, 10, 13, 6, 11, 11, 10, 4, 7, 11, 13, 6, 4, 4, 7, 4,
  4, 4, 4, 4, 4, 4, 7, 4, 4, 4, 4, 4, 4, 4, 7, 4,
  4, 4, 4, 4, 4, 4, 7, 4, 4, 4, 4, 4, 4, 4, 7, 4,
  4, 4, 4, 4, 4, 4, 7, 4, 4, 4, 4, 4, 4, 4, 7, 4,
  7, 7, 7, 7, 7, 7, 4, 7, 4, 4, 4, 4, 4, 4, 7, 4,
  4, 4, 4, 4, 4, 4, 7, 4, 4, 4, 4, 4, 4, 4, 7, 4,
  4, 4, 4, 4, 4, 4, 7, 4, 4, 4, 4, 4, 4, 4, 7, 4,
  4, 4, 4, 4, 4, 4, 7, 4, 4, 4, 4, 4, 4, 4, 7, 4,
  4, 4, 4, 4, 4, 4, 7, 4, 4, 4, 4, 4, 4, 4, 7, 4,
  5, 10, 10, 10, 10, 11, 7, 11, 5, 10, 10, 0, 10, 17, 7, 11,
  5, 10, 10, 11, 10, 11, 7, 11, 5, 4, 10, 11, 10, 0, 7, 11,
  5, 10, 10, 19, 10, 11, 7, 11, 5, 4, 10, 4, 10, 0, 7, 11,
  5, 10, 10, 4, 10, 11, 7, 11, 5, 6, 10, 4, 10, 0, 7, 11 >>

ImmediateB == {\h06, \h0E, \h16, \h1E, \h26, \h2E, \h36, \h3E,
               \hC6, \hCE, \hD6, \hDE, \hE6, \hEE, \hF6, \hFE, \hD3, \hDB}
ImmediateW == {\h01, \h11, \h21, \h31, \h22, \h2A, \h32, \h3A}
CondJr     == {\h20, \h28, \h30, \h38}
CondJump   == {\hC2, \hCA, \hD2, \hDA, \hE2, \hEA, \hF2, \hFA}
CondCall   == {\hC4, \hCC, \hD4, \hDC, \hE4, \hEC, \hF4, \hFC}
CondRet    == {\hC0, \hC8, \hD0, \hD8, \hE0, \hE8, \hF0, \hF8}
Rst        == {\hC7, \hCF, \hD7, \hDF, \hE7, \hEF, \hF7, \hFF}
Control    == CondJr \cup CondJump \cup CondCall \cup CondRet \cup Rst
              \cup {\hC3, \h18, \h10, \hE9, \hCD, \hC9, \h76, \hCB, \hED, \hDD, \hFD}

\* exec_opcode: cyc_00 and a refresh, then the case of the opcode.
Base(ops, extra) == stage = "base" /\ op \in ops /\ Counts(cyc_00[op + 1] + extra, 1)

Straight ==
  /\ Base(Opcode \ Control, 0)
  /\ Return(CASE op \in ImmediateB -> 1 [] op \in ImmediateW -> 2 [] OTHER -> 0, Next_insn)

Halt == Base({\h76}, 0) /\ Return(0, To("halt", "none"))

jump    == Base({\hC3}, 0) /\ Return(2, To("jump", "nn"))
jr      == Base({\h18}, 0) /\ Return(1, To("jump", "e"))
jp_hl   == Base({\hE9}, 0) /\ Return(0, To("jump", "hl"))
call    == Base({\hCD}, 0) /\ Return(2, To("call", "nn"))
rst     == Base(Rst, 0)    /\ Return(0, To("call", "rst"))
ret     == Base({\hC9}, 0) /\ Return(0, To("ret", "none"))

\* A conditional instruction: its operands are fetched either way.
Conditional(ops, holds, extra, operands, to) ==
  /\ Base(ops, IF holds THEN extra ELSE 0)
  /\ Return(operands, IF holds THEN to ELSE Next_insn)

cond_jump == Conditional(CondJump, Holds(Y(op), flags), 0, 2, To("jump", "nn"))
cond_jr   == Conditional(CondJr, Holds(Y(op) - 4, flags), 5, 1, To("jump", "e"))
djnz      == Conditional({\h10}, rounds - 1 # 0, 5, 1, To("jump", "e"))
cond_call == Conditional(CondCall, Holds(Y(op), flags), 7, 2, To("call", "nn"))
cond_ret  == Conditional(CondRet, Holds(Y(op), flags), 6, 0, To("ret", "none"))

PrefixByte ==
  /\ Base({\hCB, \hED, \hDD, \hFD}, 0)
  /\ NextOpcode(CASE op = \hCB -> "cb" [] op = \hED -> "ed" [] OTHER -> "ddfd", 0)
  /\ iz' = CASE op = \hDD -> "ix" [] op = \hFD -> "iy" [] OTHER -> iz

\* exec_opcode_ddfd: what names the index register, with a displacement or not.
Displaced == {\h34, \h35, \h36, \h46, \h4E, \h56, \h5E, \h66, \h6E, \h7E,
              \h70, \h71, \h72, \h73, \h74, \h75, \h77,
              \h86, \h8E, \h96, \h9E, \hA6, \hAE, \hB6, \hBE}
Halves    == {\h24, \h25, \h26, \h2C, \h2D, \h2E, \h44, \h45, \h4C, \h4D, \h54, \h55,
              \h5C, \h5D, \h7C, \h7D, \h84, \h85, \h8C, \h8D, \h94, \h95, \h9C, \h9D,
              \hA4, \hA5, \hAC, \hAD, \hB4, \hB5, \hBC, \hBD}
             \cup (\h60 .. \h6F \ {\h66, \h6E})
Whole     == {\h09, \h19, \h29, \h39, \h21, \h22, \h23, \h2A, \h2B,
              \hE1, \hE3, \hE5, \hE9, \hF9}

cyc_ddfd(o) ==
  CASE o \in {\h34, \h35, \hE3}                  -> 23
    [] o \in {\h22, \h2A}                        -> 20
    [] o \in Displaced \ {\h34, \h35}            -> 19
    [] o \in {\h09, \h19, \h29, \h39, \hE5}      -> 15
    [] o \in {\h21, \hE1}                        -> 14
    [] o \in {\h26, \h2E}                        -> 11
    [] o \in {\h23, \h2B, \hF9}                  -> 10
    [] o \in (Halves \ {\h26, \h2E}) \cup {\hE9} -> 8
    [] o = \hCB                                  -> 0
    [] OTHER                                     -> 4

Indexed(ops) == stage = "ddfd" /\ op \in ops

ddfd_indexed ==
  /\ Indexed(Displaced \cup Halves \cup Whole) /\ Counts(cyc_ddfd(op), 1)
  /\ Return(CASE op \in {\h21, \h22, \h2A, \h36} -> 2
              [] op \in (Displaced \ {\h36}) \cup {\h26, \h2E} -> 1
              [] OTHER -> 0,
            IF op = \hE9 THEN To("jump", iz) ELSE Next_insn)

ddfd_cb == /\ Indexed({\hCB}) /\ Counts(cyc_ddfd(op), 1)
           /\ NextOpcode("dcb", 1) /\ UNCHANGED iz

\* Any other opcode behaves as if not prefixed; R is not counted twice.
ddfd_other == /\ Indexed(Opcode \ (Displaced \cup Halves \cup Whole \cup {\hCB}))
              /\ Counts(cyc_ddfd(op), 1 - 1)
              /\ stage' = "base" /\ UNCHANGED <<inputs, left, op, iz, pc, flow>>

exec_opcode_cb ==
  /\ stage = "cb" /\ Return(0, Next_insn)
  /\ Counts(8 + (IF Z(op) # 6 THEN 0 ELSE IF X(op) = 1 THEN 4 ELSE 7), 1)

exec_opcode_dcb ==
  stage = "dcb" /\ Counts(IF X(op) = 1 THEN 20 ELSE 23, 0) /\ Return(0, Next_insn)

\* exec_opcode_ed.
cyc_ed(o) ==
  CASE X(o) = 1 -> (CASE o \in {\h47, \h4F, \h57, \h5F} -> 9
                      [] o \in {\h67, \h6F} -> 18
                      [] OTHER -> <<12, 12, 15, 20, 8, 14, 8, 8>>[Z(o) + 1])
    [] o \in \hA0 .. \hBB /\ Z(o) < 4 -> 16
    [] OTHER -> 8

Extended(ops, extra) == stage = "ed" /\ op \in ops /\ Counts(cyc_ed(op) + extra, 1)

EdRet   == {\h45, \h4D, \h55, \h5D, \h65, \h6D, \h75, \h7D}
EdWords == {\h43, \h4B, \h53, \h5B, \h63, \h6B, \h73, \h7B}

ed_ret      == Extended(EdRet, 0) /\ Return(0, To("ret", "none"))
ed_straight == /\ Extended(Opcode \ (EdRet \cup RepeatOps), 0)
               /\ Return(IF op \in EdWords THEN 2 ELSE 0, Next_insn)

\* A block instruction goes back to its own first byte until its rounds are done.
ed_again == /\ left > 1 /\ left' = left - 1
            /\ Extended(RepeatOps, IF op = \hBB THEN 0 ELSE 5)
            /\ pc' = pc - 2 /\ stage' = "step"
            /\ UNCHANGED <<inputs, op, iz, flow>>
ed_last  == left = 1 /\ Extended(RepeatOps, 0) /\ Return(0, Next_insn)

Next ==
  \/ z80_step \/ PrefixByte \/ Straight \/ Halt
  \/ jump \/ jr \/ jp_hl \/ call \/ rst \/ ret
  \/ cond_jump \/ cond_jr \/ djnz \/ cond_call \/ cond_ret
  \/ ddfd_indexed \/ ddfd_cb \/ ddfd_other
  \/ exec_opcode_cb \/ exec_opcode_dcb
  \/ ed_ret \/ ed_straight \/ ed_again \/ ed_last

Spec == Init /\ [][Next]_vars

-----------------------------------------------------------------------------
(* The two readers agree, once the interpreter is through.                  *)

\* The decoder consumes exactly the bytes the interpreter fetches, and the code
\* emitted goes where the interpreter goes, under the same conditions ("INSTRUCTION
\* LENGTH for every opcode incl. CB/ED/DD/FD/DDCB/FDCB prefixes").
SameStream ==
  stage = "done" =>
    LET in == z80_decode(stream)
    IN  in.length = pc /\ Emitted(in, flags, rounds).flow = flow

\* The cycles ticked, the extra ones of a branch taken and of the rounds of a block
\* instruction among them, are the interpreter's; and so are the refreshes, except
\* in the rounds of a block instruction after the first.
SameCost ==
  stage = "done" =>
    LET in == z80_decode(stream)
    IN  /\ Emitted(in, flags, rounds).cyc = cyc
        /\ rounds = 1 \/ in.prefix # "ed" \/ in.opcode \notin RepeatOps => r = Refresh(in)
=============================================================================
