SPECIFICATION MCFairSpec
CONSTANTS
  Node = {n1, n2, n3}
  None = None
  BatchSize = 2
  MaxRelations = 2
INVARIANTS
  ResultComplete
  ContainedComplete
PROPERTIES
  Terminates
CHECK_DEADLOCK FALSE
