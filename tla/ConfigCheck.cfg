SPECIFICATION Spec
CONSTANTS
  Tables <- SmallTables
  Plain <- PlainNames
  OverflowLease = 500000000
INVARIANTS
  VerdictIsRight
  BudgetIsExact
  BudgetIsOfLeaseAsked
CHECK_DEADLOCK FALSE
