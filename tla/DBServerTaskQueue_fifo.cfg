SPECIFICATION Spec
CONSTANTS
  t1 = t1
  t2 = t2
  t3 = t3
  t4 = t4
  Tasks = {t1, t2, t3, t4}
  SessionChoices <- OneSession
  NumWorkers = 1
  DispatchResults <- AnyResult
INVARIANT DispatchInOrder
CHECK_DEADLOCK FALSE
