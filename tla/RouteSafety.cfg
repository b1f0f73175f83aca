SPECIFICATION Spec
CONSTANTS
  Msgs = 2
  MaxAttempts = 2
  LateAckCheck = TRUE
  Big = {1}
  HasPolicy = TRUE
  MaxPosts = 2
  Budget <- AnyTwo
INVARIANTS
  TypeOK
  ReplayArmed
  PolicyLanded
  OutageBurnsOneAttempt
  SettledWasReceived
PROPERTIES
  HeldClaimIsOwn
CHECK_DEADLOCK FALSE
