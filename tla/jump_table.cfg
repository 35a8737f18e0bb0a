SPECIFICATION BlockSpec
CONSTANTS
  B = 4
  Bytes = {0, 2}
  Words = {5}
  MaxLen = 7
  Idioms = {}
INVARIANTS ProvenCovers MatchedFromBase
