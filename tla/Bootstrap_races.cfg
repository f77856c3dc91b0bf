SPECIFICATION Spec
CONSTANTS
  Threads = {main, t2}
  Main = main
  MainFirst = FALSE
  HasDestruct = TRUE
  TmpSize = 1
  SizeMod = 2
  Sizes = {1}
  MaxNested = 1
SYMMETRY Racers
INVARIANTS IInv HandlersReady
