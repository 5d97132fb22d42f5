\* Two key slots, three keys (one index with a long and a short key), a
\* ring of two, one suspend.
CONSTANTS
  MaxKeys = 2
  Keys <- MCKeys
  RingSize = 2
  MaxSuspends = 1
SPECIFICATION Spec
INVARIANTS SleepSafe KeyTableIsMap NoKeyLeftBehind
CHECK_DEADLOCK FALSE
