SPECIFICATION Spec
CONSTANTS
  d1 = d1
  d2 = d2
  r1 = r1
  w1 = w1
  w2 = w2
  Deployment <- MCOneDeployment
  Resource <- MCResource
  ResourceOf <- MCResourceOf
  Worker <- MCWorker
  Nobody = Nobody
  MaxAttempts = 2
  ClaimLease = 1
  StaleAfter = 1
  CandidateAge = 2
  FaultKinds = {"crash", "freeze", "redis", "db", "leak", "ttl"}
  MaxFaults = 1
  MaxRequests = 1
SYMMETRY WorkerSymmetry
INVARIANTS
  TypeOK
PROPERTIES
  OnlyLatestClaimantSettles
  HealthyNeverStale
  ImplementsLifecycle
CHECK_DEADLOCK FALSE
