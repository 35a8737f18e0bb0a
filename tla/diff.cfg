CONSTANTS
  Ops = {"inc", "store", "load", "page", "banked", "vdp", "status", "psg", "rep", "retz", "push", "pop", "call", "spin"}
  MaxOps = 3
  MaxTests = 2
  MaxFrames = 1
  Window = {1}
  TraceMax = 4
SPECIFICATION Spec
INVARIANTS VerdictRight Unperturbed Pinpoints
