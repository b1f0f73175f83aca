SPECIFICATION PollSpec
CONSTANTS
  Base <- SmallBase
  Cap <- SmallCap
  HasPolicy = TRUE
  MaxRow = 4
  MaxBody = 2
  MaxTotal = 4
INVARIANTS
  BufferBounded
  VerdictExact
  DelayFollowsFailures
  OneLinePerCause
PROPERTIES
  RecoveryIsTold
