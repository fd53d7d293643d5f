SPECIFICATION Spec
CONSTANTS
  Server = {0, 1, 2}
  Value = {v}
  NoCmd = NoCmd
  Elections <- OneEach
  Crashing = {}
  Readers = {0}
  SnapshotAt = {}
  MaxIndex = 2
  MaxInFlight = 1
  MaxRestart = 0
CONSTRAINT Calm
VIEW ReplicationView
INVARIANTS ReadFromCurrentLeader
CHECK_DEADLOCK FALSE
