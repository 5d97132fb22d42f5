\* Seven backplanes behind 16 KB and larger windows, every attach level, two
\* initialisations and two suspends, every combination of firmware files.
CONSTANTS
  NSlots = 6
  EnumBase = 100
  PhyRev = 0
  Devices <- MCDevices
  ResetStates <- MCResetStates
  XtalFields = {9}
  Levels = {0, 3, 4, 5, 6}
  MaxInits = 2
  MaxSuspends = 2
SPECIFICATION Spec
INVARIANTS Released CoresLive PhyIsFound PaLinesKept
PROPERTIES CompleteIsSafe CacheKept
CHECK_DEADLOCK FALSE
