SPECIFICATION Spec
CONSTANTS
  BufSize = 8
  VecSlots = 3
  MaxLen = 5
INVARIANTS
  EveryNameListed
