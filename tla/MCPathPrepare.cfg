SPECIFICATION MCSpec
CONSTANTS
  Node = {1, 2, 3, 4}
  None = None
  MaxInt = 2
  Target = 2
  MaxEdges = 4
  MaxScopes = 2
  MaxUnsure = 1
  MaxOwners = 1
INVARIANTS
  PathsAreLeast
  RoutesGoRound
  AlternativesCounted
  UncoveredExact
CHECK_DEADLOCK FALSE
