SPECIFICATION Spec
CONSTANTS
  MaxCalls = 3
  MaxSp = 4
  MaxFrames = 4
  Idioms = {"preempt", "abort", "irq", "cont"}
INVARIANTS TypeOK
PROPERTIES ResumesWhereZ80Does
