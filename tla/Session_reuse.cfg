SPECIFICATION Spec
CONSTANTS
  s1 = s1
  s2 = s2
  s3 = s3
  Senders = {s1, s2, s3}
  w1 = w1
  w2 = w2
  Workers = {w1, w2}
  closer = closer
  acceptor = acceptor
  MaxConnections = 2
  Threshold = 2
INVARIANT NoForeignData
CHECK_DEADLOCK FALSE
