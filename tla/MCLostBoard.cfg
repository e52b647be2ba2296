\* The program may be killed.
CONSTANTS
  NumChildren = 1
  MaxFlashes = 1
  MaxDisturbances = 1
SPECIFICATION Spec
CHECK_DEADLOCK FALSE
INVARIANT FailedSendReconnects
