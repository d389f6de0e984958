SPECIFICATION Spec
CONSTANTS
  BufSize = 4
  VecSlots = 3
  MaxLen = 6
INVARIANTS
  LongVariableListed
