SPECIFICATION Spec
CONSTANTS
  a0 = a0
  a1 = a1
  Addr <- MCAddr
  SliceOf <- MCSliceOf
  nb_cores = 2
  max_slices = 3
  nb_pokes = 2
  PerFlush = 1
  val_box_freeze = 1
  MaxNoise = 2
  MaxCount = 2
INVARIANTS
  TypeOK
  CountsOnlyThisCall
  TwoReadsAgree
  WrongAnswerExplained
PROPERTIES
  ProbeSpec
