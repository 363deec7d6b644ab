SPECIFICATION MCSpec
CONSTANTS
  s1 = s1
  s2 = s2
  s3 = s3
  w1 = w1
  w2 = w2
  x1 = x1
  x2 = x2
  y = y
  v = v
  closer = closer
  acceptor = acceptor
  Senders = {s1, s2, s3}
  Workers = {w1, w2}
  MaxConnections = 2
  Threshold = 2
  CompSockets = {x1, x2}
  CompWorkers = {w1, w2}
  CompKinds = {"iocp", "rio", "uring"}
  CompSendSlots = {"a"}
  CompRecvSlots = {"b"}
  CompSqEntries = 1
  CompMaxOps = 3
  BusPublishers = {w1, w2}
  BusSubscribers = {x1, x2}
  BusTypes = {"A", "B"}
  BusCapacity = 1
  ScopeTasks = {s1, s2, s3}
  ScopeMayThrow = TRUE
SYMMETRY Symmetry
INVARIANTS OneSendAtATime SizeExact SendsInOrder
    ConnectedFirst
  RecvNeverLost SendNeverLostKqueue SlotsOwned CompletesOnce
  BusDelivers FramesIntact NothingRunsAfterDrain
CHECK_DEADLOCK FALSE
