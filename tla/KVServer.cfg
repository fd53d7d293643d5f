CONSTANTS
  Server = {"s1", "s2"}
  Op <- MCOp
  Elections <- MCElections
  Sends <- MCSends
  Resends <- MCResends
  Failing = {"s1"}
  MaxRetry = 1
  QueueCap = 1
SPECIFICATION Spec
INVARIANTS TypeOK ReplicasAgree AckCommitted ReadSees
PROPERTY ReadAnswered
CHECK_DEADLOCK FALSE
