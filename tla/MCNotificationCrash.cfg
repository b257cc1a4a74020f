SPECIFICATION FairSpec
CONSTANTS
  d1 = d1
  w1 = w1
  w2 = w2
  Delivery <- MCDelivery
  Worker <- MCWorker
  None = None
  DeliveryAttempts = 2
  JobAttempts = 2
  MaxStalledCount = 1
  MaxRetries = 0
  FaultKinds = {"crash"}
  MaxFaults = 1
PROPERTIES
  EveryDeliveryEnds
CHECK_DEADLOCK FALSE
