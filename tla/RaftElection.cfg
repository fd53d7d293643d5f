SPECIFICATION Spec
CONSTANTS
  Server = {0, 1, 2}
  Value = {}
  NoCmd = NoCmd
  Elections <- Rivals
  Crashing = {2}
  Readers = {}
  SnapshotAt = {}
  MaxIndex = 0
  MaxInFlight = 0
  MaxRestart = 2
INVARIANTS VoteOnce ElectionSafety
CHECK_DEADLOCK FALSE
