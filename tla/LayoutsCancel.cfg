SPECIFICATION Spec
CHECK_DEADLOCK FALSE
CONSTANTS
  Arches = {"nt32", "nt64"}
  Aligns64 = {4, 8}
INVARIANTS
  CancelFindsEip
