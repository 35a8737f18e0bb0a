------------------------------ MODULE FlatStep ------------------------------
(***************************************************************************)
(* The flat backend (cg_emit_flat_step): one case an address, one           *)
(* instruction a call, for a program that another processor uploads and     *)
(* that modifies itself.  Several images are compiled into one file; at     *)
(* every address the case compares the live bytes with what the images hold *)
(* there, executes the alternative that matches, or misses and leaves the   *)
(* instruction to the host.  Operands that programs modify are read live.   *)
(*                                                                         *)
(* The live bytes are the stream of Decoder, and its interpreter says what  *)
(* they do.                                                                *)
(***************************************************************************)
EXTENDS Decoder

CONSTANTS
  Strays,    \* values of a byte in which an image and memory may differ
  MaxImages  \* the images compiled (9)

ASSUME FlatAssumption == Strays \subseteq 0 .. 255 /\ MaxImages \in Nat \ {0}

VARIABLE images   \* the bytes of each image from this address to its end

flatVars == <<vars, images>>

-----------------------------------------------------------------------------
(* Compiling an address.                                                    *)

\* z80_decode of what is left of an image: bytes past its end read as zero, and
\* nothing but prefixes is illegal.
Padded(image)  == image \o <<0, 0, 0, 0, 0, 0>>
Illegal(image) == \A i \in 1 .. Len(image) : image[i] \in Prefix
Raw(image)     == SubSeq(Padded(image), 1, z80_decode(Padded(image)).length)

Legal == {i \in 1 .. Len(images) : ~Illegal(images[i])}

\* decoded[]: what differs by flat_same_bytes, and the first of it.
Alternatives == {Raw(images[i]) : i \in Legal}
First == Raw(images[CHOOSE i \in Legal : \A j \in Legal : i <= j])

\* Mistake: two instructions under one prefix are taken for the same.
ShapeByPrefix(raw) == LET in == z80_decode(Padded(raw)) IN <<in.prefix, in.length>>

Shape(raw) == LET in == z80_decode(Padded(raw)) IN <<in.prefix, in.opcode, in.length>>

SameShape == \A a, b \in Alternatives : Shape(a) = Shape(b)

\* emit_flat_live_operands: loads and stores of A and HL at nn, of an immediate
\* byte, and arithmetic on (ix+d).
LiveOperands(in) ==
  \/ in.prefix = "none" /\ in.length = 3 /\ in.opcode \in {\h22, \h2A, \h32, \h3A}
  \/ in.prefix = "none" /\ in.length = 2 /\ X(in.opcode) = 0 /\ Z(in.opcode) = 6
  \/ in.prefix \in {"dd", "fd"} /\ in.uses_disp /\ in.length = 3
     /\ X(in.opcode) = 2 /\ Z(in.opcode) = 6

\* Mistake: under a prefix only the prefix is compared.
ComparedFirst(in) == 1

\* How many bytes such a case compares: the prefix and the opcode.
Compared(in) == IF in.prefix = "none" THEN 1 ELSE 2

Live(n) == SubSeq(stream, 1, n)

\* emit_flat_match: all of an alternative's bytes are the live ones.
Matching == {raw \in Alternatives : raw = Live(Len(raw))}

\* The case of this address: the bytes it executes, none if it misses.
Case ==
  IF Alternatives = {} THEN {}
  ELSE LET in == z80_decode(Padded(First))
           n  == Compared(in)
       IN  IF ~(SameShape /\ LiveOperands(in)) THEN Matching
           ELSE IF SubSeq(First, 1, n) # Live(n) THEN {}
           ELSE {SubSeq(First, 1, n) \o SubSeq(stream, n + 1, in.length)}

-----------------------------------------------------------------------------
(* What it executes.                                                        *)

flat_is_repeat_block(in) == in.prefix = "ed" /\ in.opcode \in RepeatOps

\* emit_flat_cf: the branches of emit_cf, to an explicit pc.
emit_flat_cf(in) ==
  LET taken == EmittedCondition(in, flags, rounds)
  IN  [flow |-> Emitted(in, flags, rounds).flow,
       cyc  |-> cyc_base(in) + (IF taken THEN TakenExtra(in) ELSE 0),
       r    |-> Refresh(in)]

\* emit_flat_repeat: a call does one round, and comes back to this address until
\* they are done.
emit_flat_repeat(in) ==
  [flow |-> Next_insn, cyc |-> 21 * (rounds - 1) + 16, r |-> Refresh(in) * rounds]

emit_flat_body(in) ==
  IF flat_is_repeat_block(in) THEN emit_flat_repeat(in) ELSE emit_flat_cf(in)

-----------------------------------------------------------------------------
(* The images are chosen once the interpreter is through: the instruction    *)
(* itself, cut short, or with a byte that is another.                        *)

Shortened == {Live(n) : n \in 1 .. 4}
Altered   == {[Live(4) EXCEPT ![i] = b] : i \in 1 .. 4, b \in Strays}

Images == UNION {[1 .. n -> Shortened \cup Altered] : n \in 1 .. MaxImages}

\* Which alternative is taken reads no flag and no counter, so one value of them
\* is enough to choose images freely.
Compile ==
  /\ stage = "done" /\ stage' = "compiled"
  /\ images' \in IF flags = {} /\ rounds = 1 THEN Images ELSE {<<stream>>}
  /\ UNCHANGED <<inputs, left, op, iz, pc, cyc, r, flow>>

FlatInit == Init /\ images = << >>
FlatNext == (Next /\ UNCHANGED images) \/ Compile
FlatSpec == FlatInit /\ [][FlatNext]_flatVars

-----------------------------------------------------------------------------
(* Properties.                                                              *)

\* The flat code never executes stale bytes: whatever images were compiled, an
\* address either misses or executes exactly the live instruction, to its last
\* operand byte, and goes where the interpreter goes at its cost, the refreshes of
\* every round of a block instruction included ("Guard every compiled alternative
\* against the live bytes").
FlatExact ==
  stage = "compiled" =>
    \A code \in Case :
      /\ code = Live(pc)
      /\ emit_flat_body(z80_decode(Padded(code))) = [flow |-> flow, cyc |-> cyc, r |-> r]

\* What an image holds does not miss; nor does an instruction that differs from
\* what all images hold in an operand that programs modify alone ("so that every
\* new value does not become an interpreter miss").
FlatComplete ==
  stage = "compiled" =>
    LET in == z80_decode(stream)
    IN  \/ Case # {}
        \/ /\ Live(pc) \notin Alternatives
           /\ \/ ~LiveOperands(in)
              \/ \E i \in 1 .. Len(images) :
                   Illegal(images[i]) \/ Shape(Raw(images[i])) # Shape(Live(pc))
=============================================================================
