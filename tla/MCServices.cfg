SPECIFICATION MCSpec
CONSTANTS
  t1 = t1
  t2 = t2
  w1 = w1
  w2 = w2
  closer = closer
  acceptor = acceptor
  Tasks = {t1, t2}
  SessionChoices <- OneOrTwoSessions
  NumWorkers = 2
  DispatchResults <- AnyResult
  LocalTasks = {t1, t2}
  LocalSessionOf <- OneSession
  LocalWorkers = 1
  LocalWalMayFail = TRUE
  Senders = {t1, t2}
  SendWorkers = {w1, w2}
  SlotUses = 2
  SendThreshold = 2
  TimerHandles = {1, 2}
  TimerDelays = {1, 2}
  TimerMaxTime = 2
  LinkMaxDrops = 3
INVARIANTS CancelStops ThreadsWellUsed
PROPERTIES TaskAnswered QueuedTaskRuns  TimerFires 
CHECK_DEADLOCK FALSE
