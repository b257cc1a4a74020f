SPECIFICATION FairSpec
CONSTANTS
  w1 = w1
  w2 = w2
  Worker <- MCWorker
  None = None
  JobAttempts = 2
  MaxStalledCount = 1
  MaxRequests = 2
  FaultKinds = {"start", "crash", "stall", "db"}
  MaxFaults = 1
INVARIANTS
  TypeOK
  ServedWherePlaced
  SettledAsRecorded
PROPERTIES
  EveryMigrationSettles
  TerminalIsFinal
  StatusFollowsTable
CHECK_DEADLOCK FALSE
