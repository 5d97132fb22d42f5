\* Three commands, three polls each, a storm at the third interrupt.
CONSTANTS
  StormThresh = 2
  Polls = 3
  MaxCmds = 3
SPECIFICATION Spec
INVARIANTS PhantomOnlyIfShared AccessRestores StatusTellsTruth
CHECK_DEADLOCK FALSE
