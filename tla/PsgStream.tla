------------------------------ MODULE PsgStream ------------------------------
(***************************************************************************)
(* The sample stream of the PSG (sn76489.c): psg_advance turns CPU cycles   *)
(* into sample frames in a scratch buffer, psg_render copies them out.  A   *)
(* stream is [left, wr, rd]: the cycles short of a frame, and the positions *)
(* at which the scratch is written and read.  What a sample is made of is   *)
(* in module Ports.                                                         *)
(***************************************************************************)
EXTENDS Integers

Div     == 16     \* PSG_FRAME_DIVISOR_Z80: cycles of a sample frame
Scratch == 8192   \* PSG_SCRATCH_FRAMES

Stream == [left : 0 .. Div - 1, wr : 0 .. Scratch, rd : 0 .. Scratch]

PsgInit == [left |-> 0, wr |-> 0, rd |-> 0]

Available(p) == p.wr - p.rd

\* Mistake: the cycles short of a frame are forgotten.
AdvanceForgets(p, cycles) ==
  LET total == cycles + p.left
      wr    == p.wr + total \div Div
  IN  [left |-> 0, wr |-> IF wr <= Scratch THEN wr ELSE Scratch, rd |-> p.rd]

\* psg_advance: frames that do not fit are dropped, their cycles spent.
PsgAdvance(p, cycles) ==
  LET total == cycles + p.left
      wr    == p.wr + total \div Div
  IN  [left |-> total % Div,
       wr   |-> IF wr <= Scratch THEN wr ELSE Scratch,
       rd   |-> p.rd]

\* psg_render: how many frames it copies, and the stream it leaves.
Copied(p, n)    == IF n < Available(p) THEN n ELSE Available(p)
PsgRender(p, n) ==
  IF p.rd + Copied(p, n) >= p.wr
    THEN [left |-> p.left, wr |-> 0, rd |-> 0]
    ELSE [left |-> p.left, wr |-> p.wr, rd |-> p.rd + Copied(p, n)]
=============================================================================
