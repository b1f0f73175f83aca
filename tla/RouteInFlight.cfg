SPECIFICATION Spec
CONSTANTS
  Msgs = 4
  MaxAttempts = 1
  LateAckCheck = TRUE
  Big = {2, 3}
  HasPolicy = FALSE
  MaxPosts = 1
  Budget <- TwoLeaveClaims
INVARIANTS
  OneInFlight
CHECK_DEADLOCK FALSE
