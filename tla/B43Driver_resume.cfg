\* One suspend and nothing else going wrong: resume does not re-initialise DMA.
CONSTANTS
  StormThresh = 2
  MissMax = 2
  StormReset = TRUE
  SharedLine = FALSE
  MaxFaults = 0
  MaxSuspends = 1
  MaxLosses = 1
SPECIFICATION FairSpec
PROPERTIES ResumeReinitsDma
CHECK_DEADLOCK FALSE
