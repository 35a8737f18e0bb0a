SPECIFICATION FairSpec
CONSTANTS
  LinesPerFrame = 3
  ActiveLines = 1
  VBlankLine = 1
  ResetCounter = 1
  Reloads = {0}
  CycPerLine = 3
  Costs = {1, 2}
  Surcharges = {0, 1}
  IrqLatency = 2
  FrameLimit = 2
  HaltSpins = 12
  MaxNest = 2
  Ops <- NativeOps
  Engines = {"run"}
  CleanEnables = TRUE
PROPERTIES ImplementsZ80Irq RunEnds
INVARIANTS PollContract
CHECK_DEADLOCK FALSE
