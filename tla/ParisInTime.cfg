SPECIFICATION FairSpec
CONSTANTS
  MaxPushes = 2
  MaxAttempts = 3
  Overlap = FALSE
INVARIANTS TypeOK OneOrder
PROPERTIES PushEnds
CHECK_DEADLOCK FALSE
