SPECIFICATION FairSpec
CONSTANTS
  N = 2
  MaxWork = 4
  RespawnAfter = 4
  Grace = 3
  KitBounds = {2, 4}
INVARIANTS
  DrainWithinGrace
  DrainNoLongerThanOwed
  CutOnlyPastBound
PROPERTIES
  DeadRouteReturns
CHECK_DEADLOCK FALSE
