SPECIFICATION MCSpec
CONSTANTS
  Node = {1, 2, 3, 4, 5}
  None = None
  MaxHidden = 1
  Target = 2
  Shapes = {"jobs", "networks", "ends"}
  SmallNodes = {1, 2, 3, 4}
  SmallEdges = 4
  AcyclicEdges = 6
  MaxScopes = 1
  MaxUnsure = 1
  Uncertainties = {{"unsure"}, {"sure", "unsure"}}
  MaxOwners = 1
INVARIANTS
  ConnectionsKept
  ReferencesResolve
  PathsUnbroken
CHECK_DEADLOCK FALSE
