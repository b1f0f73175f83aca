SPECIFICATION Spec
CONSTANTS
  Lease = 30
  HubDefaultLease = 30
  PollTimeout = 35
  WebhookTimeout = 10
  SettleTimeout = 5
  ProbeTimeout = 3
  CircuitCap = 4
  HasPolicy = FALSE
  RetryBase = 1
  RetryCap = 8
  RetryPause = 1
  MaxClaims = 1
  LastShutdown = 60
INVARIANT
  LadderEndsInLease
CHECK_DEADLOCK FALSE
