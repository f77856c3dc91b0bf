SPECIFICATION Spec
CONSTANTS
  NThreads = 1
  Addresses = {1, 4}
  Sizes = {0, 1}
  Nulls = FALSE
  ZeroFrees = TRUE
  Clock = "fine"
  Dies = FALSE
  MaxCalls = 3
  VmPageSize = 2
  UsecPerSec = 2
INVARIANT AllPlaced
