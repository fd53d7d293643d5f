CONSTANTS
  Call <- MCCall
  Node = {0, 1}
  MaxTimeouts = 1
  Closing = {1}
  Breaking <- MCBreaking
SPECIFICATION Spec
INVARIANTS WriteOnce OkExecuted OneAttempt
PROPERTY Drains
CHECK_DEADLOCK FALSE
