SPECIFICATION Spec
CONSTANTS
  Sockets = {s1}
  Workers = {w1, w2}
  Kinds = {"epoll"}
  MaxEntries = 1
  MsgUnits = 2
  MaxSends = 2
INVARIANT SendNeverLost
CHECK_DEADLOCK FALSE
