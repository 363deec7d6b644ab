SPECIFICATION MCSpec
CONSTANTS
  t1 = t1
  t2 = t2
  t3 = t3
  i1 = i1
  i2 = i2
  c1 = c1
  c2 = c2
  c3 = c3
  Tasks = {t1, t2, t3}
  SessionOf <- MCSessionOf
  NumWorkers = 2
  WalMayFail = FALSE
  RelayTasks = {t1, t2, t3}
  RelayWorkers = 1
  RelaySessions <- MCRelaySessions
  RelayResults = {"sent", "invalid", "unsent"}
  WalTasks = {t1, t2, t3}
  WalMaxSeq = 4
  WalMaxCrashes = 2
  WalCrashPoints = {"start", "parsed", "running"}
  WalRenameMayFail = TRUE
  Instances = {i1, i2}
  Hashes = {"h1", "h2"}
  Scripts = 2
  MaxStarts = 2
  Clients = {t1, t2, t3}
  Logins = {t1, t2}
  Conns = {c1, c2, c3}
  MaxPoolSize = 2
  MinPoolSize = 1
INVARIANTS FifoPerWorker NothingLostByCrash AnsweredOnce  RelayExact
  NoTaskLost  ScriptsRunOnce ReturnTrustworthy
  LeaseExact ShutdownClosesAll 
PROPERTY SessionFifo
CHECK_DEADLOCK FALSE
