SPECIFICATION Spec
CONSTANTS
  LineShift = 1
  PageShift = 3
  IntBits = 6
  ADDR_PER_BIT = 3
  THRESHOLD = 1
  Columns = 5
  NBits = 2
  Mask <- MCMask
  LowFrames <- MCLowFrames
  FreePages <- MCFreePages
  Layouts <- MCLayouts
  MayFail = FALSE
  MaxErr = 0
INVARIANTS
  UnretrievedBitsAnnounced
CHECK_DEADLOCK FALSE
