SPECIFICATION Spec
CONSTANTS
  SlotSize = 3
  FixedSize = 2
  NumBanks = 4
  MaxBank = 3
  Paged = {0}
  Targets <- LowTargets
  Found <- ResetOnly
  MaxRows = 2
  MaxFrames = 2
  AppendFails = FALSE
  Idioms = {}
INVARIANTS RunsLiveCode
