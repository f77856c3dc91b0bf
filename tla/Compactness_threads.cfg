SPECIFICATION Spec
CONSTANTS
  NThreads = 2
  Addresses = {1, 4}
  Sizes = {1, 3}
  Nulls = TRUE
  ZeroFrees = FALSE
  Clock = "fine"
  Dies = FALSE
  MaxCalls = 4
  VmPageSize = 2
  UsecPerSec = 2
INVARIANTS TypeOK AllPlaced HeapRebuilt SizesRebuilt AtMostCompact
