SPECIFICATION Spec
CONSTANTS
  a0 = a0
  a2 = a2
  Addr <- MCAddr
  SliceOf <- MCSliceOf
  nb_cores = 3
  max_slices = 4
  nb_pokes = 2
  PerFlush = 1
  MaxNoise = 3
  MaxCount = 1
INVARIANTS
  TypeOK
  WindowCountsOnlyThisCall
  WrongAnswerExplained
PROPERTIES
  ClearedOnlyWhileStopped
  ProbeSpec
