SPECIFICATION Spec
CONSTANTS
  Threads = {main, t2}
  Main = main
  MainFirst = TRUE
  HasDestruct = TRUE
  TmpSize = 1
  SizeMod = 2
  Sizes = {1}
  MaxNested = 0
INVARIANT ExitsCleanly
