SPECIFICATION MCSpec
CONSTANTS
  n1 = n1
  n2 = n2
  n3 = n3
  n4 = n4
  x = x
  y = y
  l1 = l1
  l2 = l2
  Node = {n1, n2, n3, n4}
  Limit = {l1, l2}
  Body = {x, y}
  None = None
  Canonical <- MCCanonical
  Decode <- MCDecode
  MaxSnapshotNodes = 4
  MaxSnapshotLimits = 2
  MaxSnapshotRelations = 4
  MaxJobNetworkDepth = 2
  MaxSCCNodes = 2
  MaxRelationLines = 4
  MaxBody = 3
  MaxCompressedArchiveBytes = 2
  MaxExtractedArchiveBytes = 8
  MaxNDJSONLineBytes = 1
INVARIANTS
  FirstProblemReported
  SizesExact
  AcceptedLoads
  ArchiveVerdictExact
CHECK_DEADLOCK FALSE
