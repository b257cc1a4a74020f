SPECIFICATION FairSpec
CONSTANTS
  d1 = d1
  d2 = d2
  r1 = r1
  w1 = w1
  w2 = w2
  Deployment <- MCOneDeployment
  Resource <- MCResource
  ResourceOf <- MCResourceOf
  Worker <- MCWorker
  Nobody = Nobody
  MaxAttempts = 2
  ClaimLease = 1
  StaleAfter = 1
  CandidateAge = 2
  FaultKinds = {"freeze"}
  MaxFaults = 1
  MaxRequests = 0
PROPERTIES
  EveryRetryHappens
CHECK_DEADLOCK FALSE
