SPECIFICATION Spec
CONSTANTS
  d1 = d1
  d2 = d2
  r1 = r1
  w1 = w1
  w2 = w2
  Deployment <- MCOneDeployment
  Resource <- MCResource
  ResourceOf <- MCResourceOf
  Worker <- MCWorker
  Nobody = Nobody
  MaxAttempts = 2
  ClaimLease = 1
  StaleAfter = 1
  CandidateAge = 2
  FaultKinds = {}
  MaxFaults = 0
  MaxRequests = 1
SYMMETRY WorkerSymmetry
PROPERTIES
  AcceptedCancellationHolds
CHECK_DEADLOCK FALSE
