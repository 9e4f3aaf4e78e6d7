SPECIFICATION Spec
CONSTANTS
  Op = {o1}
  SnapshotId = {a}
  Body = {x}
  None = None
  Retention = 1
INVARIANTS
  GraceBoundsRequests
