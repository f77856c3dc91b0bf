SPECIFICATION FairSpec
CONSTANTS
  Threads = {t1, t2}
  FDs = {fd2, fd5}
  StdErr = fd2
  MaxCalls = 2
  MaxNested = 2
INVARIANTS TypeOK NoRecursion OneLinePerCall
PROPERTIES ImplementsCallLog CallsReturn
