SPECIFICATION Spec
CONSTANTS
  Thread = {t1, t2, t3, t4}
  Main = t1
  NoThread = noThread
  Foreign = TRUE
INVARIANTS
  ThirdPartySelf
