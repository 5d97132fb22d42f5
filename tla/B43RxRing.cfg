\* 4 frames go round 3 slots, with two faults anywhere and one down/up cycle.
CONSTANTS
  NSlots = 3
  MaxFrames = 4
  MaxFaults = 2
  MaxRestarts = 1
SPECIFICATION FairSpec
INVARIANTS FrameOnce BufferUnderDevice HolesReachable OvertakenWithinRing
PROPERTIES DeviceRefed StoredDelivered
CHECK_DEADLOCK FALSE
