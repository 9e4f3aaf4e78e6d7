SPECIFICATION Spec
CONSTANTS
  Op = {o1, o2}
  SnapshotId = {a, b}
  Body = {x}
  None = None
  Retention = 1
INVARIANTS
  CleanupIsWarned
