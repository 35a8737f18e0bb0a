SPECIFICATION Spec
CONSTANTS
  MaxCalls = 3
  MaxSp = 4
  MaxFrames = 3
  Idioms = {"abort", "below", "inner"}
PROPERTIES ResumesWhereZ80Does
