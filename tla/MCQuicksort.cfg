SPECIFICATION FairSpec
CONSTANTS
  Length = 6
  Values <- MCValues
  Beyond <- MCBeyond
INVARIANTS
  TypeOK
  Sorts
PROPERTIES
  StaysInRange
  Terminates
CHECK_DEADLOCK FALSE
