SPECIFICATION FairSpec
CONSTANTS
  a0 = a0
  a1 = a1
  Addr <- MCAddr
  SliceOf <- MCSliceOf
  nb_cores = 2
  max_slices = 2
  nb_pokes = 1
  PerFlush = 2
  MaxNoise = 0
  MaxCount = 1
INVARIANTS
  TypeOK
  UndisturbedCallsAreRight
PROPERTIES
  CallsEnd
