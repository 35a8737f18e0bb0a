---------------------------- MODULE MCBanking ----------------------------
(* Small instances of Banking: the ROM of its runs. *)
EXTENDS Banking

\* The vectors, and a routine of slot 1 found under that slot's own bank.
MCFound == {Reset, [addr |-> SlotSize, bank |-> -1]}

ResetOnly == {Reset}

\* A routine of each upper slot, and one in RAM.
SlotTargets == {SlotSize, 2 * SlotSize, Ram}

\* The last fixed cell and the first pageable one of slot 0.
LowTargets == {FixedSize - 1, FixedSize}
=============================================================================
