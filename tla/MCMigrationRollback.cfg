SPECIFICATION Spec
CONSTANTS
  w1 = w1
  w2 = w2
  Worker <- MCWorker
  None = None
  JobAttempts = 2
  MaxStalledCount = 1
  MaxRequests = 2
  FaultKinds = {}
  MaxFaults = 0
INVARIANT
  RollbackServes
CHECK_DEADLOCK FALSE
