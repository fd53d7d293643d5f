SPECIFICATION Spec
CONSTANTS
  Server = {0, 1, 2}
  Value = {v}
  NoCmd = NoCmd
  Elections <- ThreeTerms
  Crashing = {}
  Readers = {}
  SnapshotAt = {}
  MaxIndex = 2
  MaxInFlight = 1
  MaxRestart = 0
CONSTRAINT Calm
VIEW ReplicationView
INVARIANTS TypeOK LogMatching StateMachineSafety LeaderCompleteness MatchSound
CHECK_DEADLOCK FALSE
