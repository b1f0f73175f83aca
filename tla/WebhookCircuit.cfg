SPECIFICATION FairSpec
CONSTANTS
  r1 = r1
  r2 = r2
  r3 = r3
  Route = {r1, r2, r3}
  ConnectTimeout = 3
  WebhookTimeout <- OneImpatient
  MaxTries = 2
  MaxChanges = 3
INVARIANTS
  OutageCost
PROPERTIES
  OutageNoticed
CHECK_DEADLOCK FALSE
