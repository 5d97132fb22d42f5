\* Two losses of the access point: the second one is never reported.
CONSTANTS
  StormThresh = 2
  MissMax = 2
  StormReset = TRUE
  SharedLine = FALSE
  MaxFaults = 0
  MaxSuspends = 0
  MaxLosses = 2
SPECIFICATION FairSpec
PROPERTIES LossReported
CHECK_DEADLOCK FALSE
