SPECIFICATION MCFairSpec
CONSTANTS
  Node = {n1, n2, n3}
  MaxConnections = 3
  MaxScopeEdges = 2
INVARIANTS
  CyclesAreComponents
PROPERTIES
  Terminates
CHECK_DEADLOCK FALSE
