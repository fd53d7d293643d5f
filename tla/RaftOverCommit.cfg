SPECIFICATION Spec
CONSTANTS
  Server = {0, 1, 2}
  Value = {v}
  NoCmd = NoCmd
  Elections <- OneEach
  Crashing = {}
  Readers = {1}
  SnapshotAt = {}
  MaxIndex = 2
  MaxInFlight = 1
  MaxRestart = 0
CONSTRAINT CalmButOverCommit
VIEW ReplicationView
INVARIANTS CommitWithinLeader
CHECK_DEADLOCK FALSE
