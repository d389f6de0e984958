SPECIFICATION Spec
CONSTANTS
  Calls <- DlsymOfNt32
  Values = {0, 1, 2}
INVARIANT
  DlsymSeesCaller
CHECK_DEADLOCK FALSE
