SPECIFICATION StorySpec
CONSTANTS
  NThreads = 3
  Addresses = {1, 2, 3}
  Sizes = {1}
  Nulls = FALSE
  ZeroFrees = FALSE
  Clock = "fine"
  Dies = FALSE
  MaxCalls = 8
  VmPageSize = 2
  UsecPerSec = 2
  Story <- Moves
INVARIANT AllPlaced
