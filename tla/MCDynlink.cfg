SPECIFICATION Spec
CONSTANTS
  t1 = t1
  t2 = t2
  t3 = t3
  l1 = l1
  l2 = l2
  Thread <- ThreeThreads
  Lib <- TwoLibs
  NoThread = NoThread
  NoLib = NoLib
  MaxDepth = 2
  MaxCalls = 5
SYMMETRY Interchangeable
INVARIANTS
  OpenExclusive
  UserCodeHoldsNoLock
  CancelStateRestored
PROPERTIES
  MonitorSpec
