\* One storm with auto-recovery on: it is never recovered from.
CONSTANTS
  StormThresh = 2
  MissMax = 2
  StormReset = TRUE
  SharedLine = FALSE
  MaxFaults = 0
  MaxSuspends = 0
  MaxLosses = 1
SPECIFICATION FairSpec
PROPERTIES StormRecovered
CHECK_DEADLOCK FALSE
