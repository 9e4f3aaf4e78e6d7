SPECIFICATION MCSpec
CONSTANTS
  Node = {1, 2, 3, 4}
  None = None
  MaxHidden = 1
  Target = 4
  Shapes = {"jobs"}
  SmallNodes = {1, 2, 3, 4}
  SmallEdges = 5
  AcyclicEdges = 0
  MaxScopes = 0
  MaxUnsure = 1
  Uncertainties = {{"unsure"}}
  MaxOwners = 1
INVARIANTS
  CyclesMarked
CHECK_DEADLOCK FALSE
