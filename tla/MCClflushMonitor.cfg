SPECIFICATION FairSpec
CONSTANTS
  a1 = a1
  a2 = a2
  Addr <- MCAddr
  SliceOf <- MCSliceOf
  Machines <- MCMachines
  MapLength = 6
  NbTries = 3
  Threshold = 1
INVARIANTS
  TypeOK
  EveryCoreOnce
  WrongAnswerExplained
PROPERTIES
  CallsEnd
  ProbeSpec
