SPECIFICATION FairSpec
CONSTANTS
  Threads = {main, t2}
  Main = main
  MainFirst = TRUE
  HasDestruct = TRUE
  TmpSize = 2
  SizeMod = 3
  Sizes = {1, 2}
  MaxNested = 2
INVARIANTS NoCrash ConstructedOnce TmpFrontOnce
PROPERTIES StagesInOrder CallsReturn
