\* Three streams of three rates, an update every four packets and a sample
\* every two, sixteen updates in an association, four frames in the ring.
CONSTANTS
  Streams = 3
  PerStream = 3
  Bitrate <- MCBitrate
  UpdateInterval = 4
  SampleRate = 2
  DefaultRate = 1
  RingSize = 4
  MaxPackets = 64
SPECIFICATION Spec
INVARIANTS BestIsFlat AttemptsConserved
PROPERTIES EstimateBetween
