CONSTANTS
  NSlots = 3
  Mbufs = {m1, m2, m3, m4}
  NoMbuf = NoMbuf
  MaxFaults = 1
  MaxRestarts = 1
SPECIFICATION FairSpec
INVARIANTS TypeOK UsedExact SingleOwner DmaMemoryLive OwnedWindow
PROPERTIES ImplementsFifo RingFramesFreed StallEndsUndisturbed
CHECK_DEADLOCK FALSE
