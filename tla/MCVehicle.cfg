SPECIFICATION FairSpec
CONSTANTS
  Wheels = 4
  MaxLost = 4
  MaxInbox = 2
PROPERTIES StopHeeded
INVARIANTS TypeOK WheelsObey
CHECK_DEADLOCK FALSE
