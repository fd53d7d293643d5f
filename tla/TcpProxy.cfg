CONSTANTS
  Endpoints <- MCEndpoints
  Conn = {"c1", "c2"}
  MaxChanges = 3
SPECIFICATION Spec
INVARIANTS NoRefusal 
PROPERTIES Settles Recovers
CHECK_DEADLOCK FALSE
