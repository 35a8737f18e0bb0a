SPECIFICATION Spec
CONSTANTS
  SlotSize = 2
  FixedSize = 1
  NumBanks = 4
  MaxBank = 3
  Paged = {2}
  Targets <- SlotTargets
  Found <- MCFound
  MaxRows = 2
  MaxFrames = 2
  AppendFails = TRUE
  Idioms = {}
INVARIANTS TypeOK RunsLiveCode LearntNeverMisses
