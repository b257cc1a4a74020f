SPECIFICATION FairSpec
CONSTANTS
  d1 = d1
  w1 = w1
  w2 = w2
  Delivery <- MCDelivery
  Worker <- MCWorker
  None = None
  DeliveryAttempts = 2
  JobAttempts = 2
  MaxStalledCount = 1
  MaxRetries = 1
  FaultKinds = {"crash", "stall", "slow", "db", "reply"}
  MaxFaults = 2
INVARIANTS
  TypeOK
  DuplicateNeedsFault
  AttemptsBounded
PROPERTIES
  DeliveredIsFinal
  EndsUnlessAbandoned
CHECK_DEADLOCK FALSE
