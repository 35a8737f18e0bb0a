SPECIFICATION Spec
CONSTANTS
  L = 4
  H = 2
  Colours = 2
  Machines = {TRUE, FALSE}
  NumRegs = 2
  Bases = {0, 3, 6, 7}
  Data = {1, 2}
  Manners = {"pair", "job"}
  MaxJobs = 3
INVARIANTS MemoriesAsMeant ReadsAsMeant SoundAsMeant
