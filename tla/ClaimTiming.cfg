SPECIFICATION Spec
CONSTANTS
  Lease = 40
  HubDefaultLease = 30
  PollTimeout = 11
  WebhookTimeout = 10
  SettleTimeout = 5
  ProbeTimeout = 30
  CircuitCap = 40
  HasPolicy = TRUE
  RetryBase = 1
  RetryCap = 8
  RetryPause = 1
  MaxClaims = 2
  LastShutdown = 50
INVARIANTS
  LadderInBudget
  SettleAge
  SettledWithinLease
  SettledWithinGrace
  StopsInTime
CHECK_DEADLOCK FALSE
