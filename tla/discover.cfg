CONSTANTS
  SlotSize = 32
  FixedSize = 4
  Programs <- MCPrograms
SPECIFICATION Spec
INVARIANTS
  FlowFaithful
  RoutinesFound
  Closed
