SPECIFICATION FairSpec
CONSTANTS
  NThreads = 2
  Addresses = {1, 4}
  Sizes = {0, 3}
  Nulls = FALSE
  ZeroFrees = TRUE
  Clock = "set"
  Dies = TRUE
  MaxCalls = 3
  VmPageSize = 2
  UsecPerSec = 2
INVARIANTS Accounted RatioReported
PROPERTY BuildEnds
