SPECIFICATION Spec
CONSTANTS
  LinesPerFrame = 3
  ActiveLines = 1
  VBlankLine = 1
  ResetCounter = 1
  Reloads = {0}
  CycPerLine = 3
  Costs = {1, 2}
  Surcharges = {0, 1}
  IrqLatency = 2
  FrameLimit = 2
  HaltSpins = 12
  MaxNest = 2
  Ops = {"nop", "ei", "di", "status", "reg", "halt", "ret", "miss", "block"}
  Engines = {"run", "interp"}
  CleanEnables = FALSE
INVARIANTS TypeOK Lockstep NeverAhead DeadlineSound PollUnlessArmed BodyInLine
PROPERTIES EiSlot HaltEndsByIrq
CHECK_DEADLOCK FALSE
