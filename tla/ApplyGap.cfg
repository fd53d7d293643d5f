CONSTANTS
  MaxIndex = 3
  MaxInstalls = 2
  MaxCrashes = 1
  SendCap = 1
SPECIFICATION Spec
INVARIANT SuccessiveEntries
CHECK_DEADLOCK FALSE
