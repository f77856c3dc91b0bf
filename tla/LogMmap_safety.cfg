SPECIFICATION FairSpec
CONSTANTS
  Threads = {t1, t2}
  NoThread = NoThread
  CacheQty = 2
  GrowthQty = 1
  SizeMax = 255
  UsecPerSec = 2
  MaxCalls = 3
  MaxNested = 1
  MaxSec = 1
INVARIANTS IInv NoFault EachCallLogged ProgramOrder
PROPERTIES SizeNeverShrinks ImplementsCallLog CallsReturn
