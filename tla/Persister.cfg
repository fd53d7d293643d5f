CONSTANTS
  Contents <- Log
  MaxIndex = 3
  MaxSaves = 5
  MaxCrashes = 1
  QueueCap = 4
  Sums = 1
SPECIFICATION Spec
INVARIANTS TypeOK StartReads StoredWasSaved
CHECK_DEADLOCK FALSE
PROPERTY CatchesUp
