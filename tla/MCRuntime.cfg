SPECIFICATION MCSpec
CONSTANTS
  t1 = t1
  t2 = t2
  t3 = t3
  Producers = {p1, p2}
  Consumers = {c1, c2}
  OptionChoices <- MCOptions
  TimeoutChoices <- MCTimeouts
  DispatchTasks = {t1, t2, t3}
  DispatchKeyOf <- MCKeyOf
  DispatchWorkers = 2
  DispatchCapacity = 1
  DispatchPolicies = {"RejectNewest", "Block"}
  PoolTasks = {t1, t2}
  PoolWorkers = {w1, w2}
  PoolDepth = 1
INVARIANTS QueueExact StopDrains
PROPERTIES AcceptedIsDelivered TimedConsumersStop KeyFifo DispatcherProgress PoolProgress
CHECK_DEADLOCK FALSE
