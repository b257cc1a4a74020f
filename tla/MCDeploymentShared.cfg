SPECIFICATION Spec
CONSTANTS
  d1 = d1
  d2 = d2
  r1 = r1
  w1 = w1
  w2 = w2
  Deployment <- MCTwoDeployments
  Resource <- MCResource
  ResourceOf <- MCResourceOf
  Worker <- MCWorker
  Nobody = Nobody
  MaxAttempts = 1
  ClaimLease = 1
  StaleAfter = 1
  CandidateAge = 2
  FaultKinds = {"freeze", "redis"}
  MaxFaults = 1
  MaxRequests = 0
SYMMETRY SharedSymmetry
INVARIANTS
  Exclusion
CHECK_DEADLOCK FALSE
