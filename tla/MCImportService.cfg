SPECIFICATION FairSpec
CONSTANTS
  Op = {o1, o2}
  SnapshotId = {a, b}
  Body = {x, y}
  None = None
  Retention = 1
INVARIANTS
  SlotHeldByLiveImport
  ComparisonStillHolds
  RecordTruthful
  TemporaryFilesOwned
  StoreOutlivesImports
  RegistryKeepsNewest
PROPERTIES
  RecordAdvances
  SlotGivenBack
  AcceptedFinishes
  CloseReturns
