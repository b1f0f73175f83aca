SPECIFICATION FairSpec
CONSTANTS
  Msgs = 2
  MaxAttempts = 2
  LateAckCheck = TRUE
  Big = {2}
  HasPolicy = FALSE
  MaxPosts = 2
  Budget <- AnyTwoOfEach
PROPERTIES
  ImplementsAtLeastOnce
  FailingClears
  ShutdownStops
CHECK_DEADLOCK FALSE
