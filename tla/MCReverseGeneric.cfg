SPECIFICATION FairSpec
CONSTANTS
  LineShift = 1
  PageShift = 3
  IntBits = 6
  ADDR_PER_BIT = 3
  THRESHOLD = 1
  Columns = 5
  NBits = 2
  Mask <- MCMask
  LowFrames <- MCLowFrames
  FreePages <- MCFreePages
  Layouts <- MCLayouts
  MayFail = TRUE
  MaxErr = 2
INVARIANTS
  TypeOK
  PairsDifferInOneBit
  UntestedOnlyWithoutPair
  ReportExact
  OnlyTestedReported
PROPERTIES
  Terminates
CHECK_DEADLOCK FALSE
