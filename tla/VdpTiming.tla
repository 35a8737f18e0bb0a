----------------------------- MODULE VdpTiming -----------------------------
(***************************************************************************)
(* The part of the VDP that makes time visible to the Z80: the scanline     *)
(* counter, the line-interrupt down-counter, the two interrupt flags and    *)
(* the registers that gate them (runner/video/sms_vdp.c).  The VDP is a     *)
(* record and every operation is a function from a VDP to a VDP, so that    *)
(* the modules which drive it (SmsTiming) decide when an operation runs.    *)
(***************************************************************************)
EXTENDS Integers

CONSTANTS
  LinesPerFrame,  \* SMS_LINES_PER_FRAME, 262 for NTSC
  ActiveLines,    \* SMS_ACTIVE_LINES, the last line the down-counter runs on
  VBlankLine,     \* SMS_VBLANK_LINE, where the frame flag latches
  ResetCounter,   \* the value vdp_reset gives the down-counter (0xFF)
  Reloads         \* the values the program stores in register 10

ASSUME LinesAssumption ==
  /\ LinesPerFrame \in Nat \ {0}
  /\ ActiveLines \in Nat
  /\ VBlankLine \in Nat

ASSUME ReloadAssumption == /\ Reloads \subseteq Nat
                           /\ 0 \in Reloads
                           /\ ResetCounter \in Nat

\* g_vdp, cut down to what timing and interrupts read.
Vdp == [line     : 0 .. LinesPerFrame - 1,
        counter  : Nat,                     \* line_counter
        reload   : Reloads,                 \* reg[10]
        frameIrq : BOOLEAN,
        lineIrq  : BOOLEAN,
        frameEn  : BOOLEAN,                 \* reg[1] bit 5
        lineEn   : BOOLEAN]                 \* reg[0] bit 4

\* vdp_reset: memset, then the down-counter at its reset value.
VdpReset == [line |-> 0, counter |-> ResetCounter, reload |-> 0,
             frameIrq |-> FALSE, lineIrq |-> FALSE,
             frameEn |-> FALSE, lineEn |-> FALSE]

\* vdp_irq_asserted: the level of the /INT pin.
IrqAsserted(v) == \/ v.frameIrq /\ v.frameEn
                  \/ v.lineIrq /\ v.lineEn

\* The down-counter runs on lines 0..ActiveLines and underflows at 0.
Counting(v)   == v.line <= ActiveLines
Underflows(v) == Counting(v) /\ v.counter = 0

\* Mistake: the frame is a line too long.
LongFrameStep(v) ==
  LET next == v.line + 1
  IN [v EXCEPT
        !.counter  = IF Counting(v) /\ ~Underflows(v) THEN @ - 1 ELSE v.reload,
        !.lineIrq  = @ \/ Underflows(v),
        !.frameIrq = @ \/ next = VBlankLine,
        !.line     = IF next > LinesPerFrame THEN 0 ELSE next]

\* vdp_step_line: count or reload, latch, move to the next line, wrap.
StepLine(v) ==
  LET next == v.line + 1
  IN [v EXCEPT
        !.counter  = IF Counting(v) /\ ~Underflows(v) THEN @ - 1 ELSE v.reload,
        !.lineIrq  = @ \/ Underflows(v),
        !.frameIrq = @ \/ next = VBlankLine,
        !.line     = IF next >= LinesPerFrame THEN 0 ELSE next]

\* vdp_status_read clears both flags at once, whichever the handler wanted.
StatusRead(v) == [v EXCEPT !.frameIrq = FALSE, !.lineIrq = FALSE]

\* The register writes of vdp_control_write that interrupts depend on.
RegisterWrites(v) ==
  {[v EXCEPT !.frameEn = b] : b \in BOOLEAN}
    \union {[v EXCEPT !.lineEn = b] : b \in BOOLEAN}
    \union {[v EXCEPT !.reload = r] : r \in Reloads}
=============================================================================
