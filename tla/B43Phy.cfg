\* Two channels of each band, limits of 12 and 14 dBm where bring-up asks for 16, two
\* signal levels (a quiet one and one past the register), one suspend; 1303 is the ID of
\* the radio that the driver knows.
CONSTANTS
  Chan2 = {1, 6}
  Chan5 = {36, 52}
  Offsets2 <- MCOffsets2
  Offsets5 <- MCOffsets5
  Rssi = {10, 240}
  RadioIds = {1303, 65535}
  Silent = {{}, {1}}
  Junk = {65535}
  MaxSuspends = 1
SPECIFICATION FairSpec
INVARIANTS OneBand PowerCapped2 TablesKept DiversityPicksBest
PROPERTY ThresholdsRecover
