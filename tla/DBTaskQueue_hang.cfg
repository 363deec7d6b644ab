SPECIFICATION FairSpec
CONSTANTS
  t1 = t1
  t2 = t2
  t3 = t3
  Tasks = {t1, t2}
  SessionOf <- MCSessionOf
  NumWorkers = 1
  WalMayFail = FALSE
PROPERTY ShutdownReturns
CHECK_DEADLOCK FALSE
