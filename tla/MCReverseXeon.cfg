SPECIFICATION FairSpec
CONSTANTS
  LineShift = 1
  PageShift = 3
  HighBits = 2
  NB_PAGES = 3
  ADDR_PER_BIT = 3
  THRESHOLD = 1
  Columns = 4
  NBits = 2
  Mask <- MCMask
  LowFrames <- MCLowFrames
  Layouts <- MCLayouts
  MayFail = TRUE
  MaxErr = 2
INVARIANTS
  TypeOK
  PairsDifferInOneBit
  UntestedOnlyWithoutPair
  UntestedNotReported
  ReportExact
PROPERTIES
  Terminates
CHECK_DEADLOCK FALSE
