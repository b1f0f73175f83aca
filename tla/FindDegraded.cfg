SPECIFICATION Spec
CONSTANTS
  N = 1
  MaxWork = 4
  RespawnAfter = 2
  Grace = 3
  KitBounds = {4}
INVARIANTS
  NoPumpIsDegraded
CHECK_DEADLOCK FALSE
