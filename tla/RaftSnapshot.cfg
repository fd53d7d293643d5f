SPECIFICATION Spec
CONSTANTS
  Server = {0, 1, 2}
  Value = {v}
  NoCmd = NoCmd
  Elections <- OneEach
  Crashing = {}
  Readers = {}
  SnapshotAt = {1}
  MaxIndex = 2
  MaxInFlight = 1
  MaxRestart = 0
CONSTRAINT Calm
VIEW ReplicationView
INVARIANTS LogMatching StateMachineSafety LeaderCompleteness MatchSound
PROPERTIES LeaderAppendOnly
CHECK_DEADLOCK FALSE
