---------------------------- MODULE MCSmsTiming ----------------------------
(* Small instances of SmsTiming: the programs of its runs. *)
EXTENDS SmsTiming

\* A program whose every routine was compiled: nothing reaches the interpreter.
NativeOps == AllOps \ {"miss"}
=============================================================================
