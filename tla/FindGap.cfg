SPECIFICATION Spec
CONSTANTS
  Msgs = 1
  MaxAttempts = 2
  LateAckCheck = TRUE
  Big = {}
  HasPolicy = FALSE
  MaxPosts = 1
  Budget <- OneKill
INVARIANTS
  NothingFallsInTheGap
CHECK_DEADLOCK FALSE
