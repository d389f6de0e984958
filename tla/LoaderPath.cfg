SPECIFICATION Spec
CONSTANTS
  BufSize = 8
  VecSlots = 3
  MaxLen = 9
INVARIANTS
  TypeOK
  ReadsInBounds
  VectorFits
  VectorIsSplit
  NoEmptySlot
PROPERTIES
  ParseEnds
