------------------------------- MODULE Z80Irq -------------------------------
(***************************************************************************)
(* What the runner promises a Z80 program about maskable interrupts, with   *)
(* no clock, no deadline and no C stack in it:                              *)
(*   - /INT is a level: a handler starts only while it is up;               *)
(*   - at every instruction boundary an eligible interrupt is taken: the    *)
(*     next instruction does not begin before its handler;                  *)
(*   - the instruction after EI completes first (the shadow);               *)
(*   - handlers nest, and the instruction a handler preempted runs to       *)
(*     completion when the handler returns, before /INT is sampled again    *)
(*     (the recompiled code charges an instruction before its body, so a    *)
(*     preempted instruction is already paid for).                          *)
(* SmsTiming is shown to implement it.                                      *)
(***************************************************************************)
EXTENDS Naturals

VARIABLES level,   \* /INT
          iff,     \* IFF1
          shadow,  \* the EI slot
          nest,    \* handlers in progress
          stage    \* where the processor is in its instruction cycle

vars == <<level, iff, shadow, nest, stage>>

\* boundary: before an instruction; insn: executing one; halted: in HALT;
\* repeat: executing an iteration of a repeating block instruction, whose
\* boundary is "iterated", after the iteration.
Stages == {"boundary", "insn", "halted", "repeat", "iterated"}
Waiting == {"boundary", "halted", "iterated"}

Init == /\ level = FALSE
        /\ iff = FALSE
        /\ shadow = FALSE
        /\ nest = 0
        /\ stage = "boundary"

Eligible == level /\ iff /\ ~shadow

\* The VDP may raise /INT while the processor waits for it, never lower it.
Raise == /\ stage \in Waiting
         /\ level' = TRUE
         /\ UNCHANGED <<iff, shadow, nest, stage>>

Begin == /\ stage = "boundary"
         /\ ~Eligible
         /\ stage' = "insn"
         /\ shadow' = FALSE
         /\ UNCHANGED <<level, iff, nest>>

Accept == /\ stage \in Waiting
          /\ Eligible
          /\ iff' = FALSE
          /\ nest' = nest + 1
          /\ stage' = "boundary"
          /\ UNCHANGED <<level, shadow>>

\* An instruction completes; only EI and DI change IFF1, only EI the shadow.
Complete == /\ stage = "insn"
            /\ level' \in BOOLEAN
            /\ \/ UNCHANGED <<iff, shadow>>
               \/ iff' = TRUE /\ shadow' = TRUE
               \/ iff' = FALSE /\ UNCHANGED shadow
            /\ stage' = "boundary"
            /\ UNCHANGED nest

\* A repeating instruction starts unsampled: its boundaries come after its
\* iterations.
BeginRepeat == /\ stage = "boundary"
               /\ stage' = "repeat"
               /\ UNCHANGED <<level, iff, shadow, nest>>

Iterate == /\ stage = "repeat"
           /\ level' \in BOOLEAN
           /\ shadow' \in {shadow, FALSE}
           /\ stage' = "iterated"
           /\ UNCHANGED <<iff, nest>>

\* Nothing to accept after an iteration: repeat, or go on.
Repeat == /\ stage = "iterated"
          /\ ~Eligible
          /\ shadow' = FALSE
          /\ stage' \in {"repeat", "boundary"}
          /\ UNCHANGED <<level, iff, nest>>

\* The two together, when no interrupt can be pending after the iteration.
IterateQuietly == /\ stage = "repeat"
                  /\ level' \in BOOLEAN
                  /\ ~(level' /\ iff)
                  /\ shadow' = FALSE
                  /\ stage' \in {"repeat", "boundary"}
                  /\ UNCHANGED <<iff, nest>>

Stop == /\ stage = "insn"
        /\ stage' = "halted"
        /\ UNCHANGED <<level, iff, shadow, nest>>

\* HALT is left by a handler's return; the runner also gives up a HALT that no
\* interrupt can end.
Resume == /\ stage = "halted"
          /\ stage' = "boundary"
          /\ UNCHANGED <<level, iff, shadow, nest>>

\* The handler's RET: back to the preempted instruction.
Return == /\ stage = "insn"
          /\ nest > 0
          /\ nest' = nest - 1
          /\ shadow' = FALSE
          /\ stage' \in Stages \ {"iterated"}
          /\ UNCHANGED <<level, iff>>

Next == \/ Raise \/ Begin \/ Accept \/ Complete
        \/ BeginRepeat \/ Iterate \/ Repeat \/ IterateQuietly
        \/ Stop \/ Resume \/ Return

Spec == Init /\ [][Next]_vars
=============================================================================
