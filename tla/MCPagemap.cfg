SPECIFICATION PagemapSpec
CONSTANTS
  Pages <- MCPages
  Frames <- MCFrames
  Offsets <- MCOffsets
  MaxFiles = 3
  MayFail = TRUE
  MaxFailures = 4
INVARIANTS
  PagemapTypeOK
  StarvedOnlyByFailures
PROPERTIES
  PokeTellsTheTruth
CHECK_DEADLOCK FALSE
