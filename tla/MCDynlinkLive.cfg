SPECIFICATION FairSpec
CONSTANTS
  t1 = t1
  t2 = t2
  t3 = t3
  l1 = l1
  l2 = l2
  Thread <- TwoThreads
  Lib <- OneLib
  NoThread = NoThread
  NoLib = NoLib
  MaxDepth = 2
  MaxCalls = 4
PROPERTIES
  CallReturns
  CreateReturns
