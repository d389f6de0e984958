SPECIFICATION RuntimeSpec
CONSTANTS
  Threads = {t1, t2}
  MaxCalls = 3
  Word = 256
  Tops = {48, 63, 100, 112, 240}
  Sizes = {8, 31, 33, 48}
  Guards = {0, 16}
  Frames = {0, 9}
  Users = {t1, t2}
  Starts = {0, 1, 8, 15, 16, 17}
  TdSize = 200
  Alignment = 8
  Indices = {0, 1, 32767}
  Main = main
  Surrogates = {s1}
  Nobody = nobody
  Libs = {l1, l2}
  NoLib = nolib
  MaxOpens = 3
  Optional = {"crtposix", "crtdinga"}
  AppDir <- BinDir
  Places <- TwoTrees
INVARIANTS
  BoundsInside
  TdInside
  VariableIsOwn
  ArgsInOrder
  CancelledWithoutEffect
  RequestKeepsFromCall
  DeafOnlyFromGap
  ThreadsSound
  EarlyOnlyWhileRun
  LoaderSound
  StartSound
PROPERTIES
  WaitersReturn
  WindowIsLeft
CHECK_DEADLOCK FALSE
