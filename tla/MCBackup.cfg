SPECIFICATION FairSpec
CONSTANTS
  w1 = w1
  w2 = w2
  Worker <- MCWorker
  None = None
  MaxRuns = 2
  Retention = 1
  Verification = TRUE
  JobAttempts = 2
  MaxStalledCount = 1
  MaxRecoveries = 1
  MaxFailures = 2
  FaultKinds = {"crash", "freeze", "backlog", "db", "redis", "delete"}
  MaxFaults = 1
INVARIANTS
  TypeOK
  OneBackupAtATime
  RetainedBackupsExist
  FinishedRunFreesLock
PROPERTIES
  EveryRunEnds
CHECK_DEADLOCK FALSE
