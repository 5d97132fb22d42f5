\* Every combination of callers, with a storm after two interrupts, a loss after
\* two missed beacons, two losses, one suspend and two failures.
CONSTANTS
  StormThresh = 2
  MissMax = 2
  StormReset = TRUE
  SharedLine = TRUE
  MaxFaults = 2
  MaxSuspends = 1
  MaxLosses = 2
SPECIFICATION FairSpec
INVARIANTS RingsOnlyWhileRunning UnmaskedServed TimersOnlyWhileRunning BeaconCheckArmed
PROPERTIES OnlyStormStartsDown FirstLossReported
CHECK_DEADLOCK FALSE
