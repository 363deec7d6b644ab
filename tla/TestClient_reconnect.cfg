SPECIFICATION Spec
CONSTANTS
  MaxReconnectAttempts = 3
  MaxLosses = 2
INVARIANT ReconnectStarts
CHECK_DEADLOCK FALSE
