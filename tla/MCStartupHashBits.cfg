SPECIFICATION StartupSpec
CONSTANTS
  Models <- MCModels
  CoreCounts <- MCCoreCounts
INVARIANTS
  ClflushHasNoLimits
CHECK_DEADLOCK FALSE
