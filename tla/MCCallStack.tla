---------------------------- MODULE MCCallStack ----------------------------
(* Small instances of CallStack: the programs of its runs. *)
EXTENDS CallStack
=============================================================================
