SPECIFICATION MCSpec
CONSTANTS
  Node = {1, 2, 3, 4}
  Limit = {1, 2, 3, 4}
  None = None
  BatchSize = 2
  MaxRelations = 2
  MaxValue = 1
INVARIANTS
  EveryLimitListed
  ScopeRootIsEntry
  ScanAccepts
CHECK_DEADLOCK FALSE
