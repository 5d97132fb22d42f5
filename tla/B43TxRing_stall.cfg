\* 3 frames on 2 slots and one down/up cycle, no fault: the stall does not end.
CONSTANTS
  NSlots = 2
  Mbufs = {m1, m2, m3}
  NoMbuf = NoMbuf
  MaxFaults = 0
  MaxRestarts = 1
SPECIFICATION FairSpec
PROPERTIES StallEnds
CHECK_DEADLOCK FALSE
