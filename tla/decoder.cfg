SPECIFICATION FlatSpec
CHECK_DEADLOCK FALSE
CONSTANTS
  MaxRounds = 3
  Oddities = {}
  Strays = {1, 54, 142, 221}
  MaxImages = 2
INVARIANTS SameStream SameCost FlatExact FlatComplete
