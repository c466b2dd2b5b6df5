SPECIFICATION StartupSpec
CONSTANTS
  Models <- MCModels
  CoreCounts <- MCCoreCounts
INVARIANTS
  StartupTypeOK
  MeasuredIffRegistersKnown
  RegistersDistinct
CHECK_DEADLOCK FALSE
