CONSTANTS
  MaxIndex = 2
  MaxInstalls = 2
  MaxCrashes = 1
  SendCap = 1
SPECIFICATION Spec
INVARIANTS TypeOK InOrder SnapshotExact
PROPERTY CatchesUp
CHECK_DEADLOCK FALSE
