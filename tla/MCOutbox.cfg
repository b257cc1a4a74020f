SPECIFICATION FairSpec
CONSTANTS
  m1 = m1
  m2 = m2
  p1 = p1
  p2 = p2
  Message <- MCMessage
  DeployMessage <- MCDeployMessage
  Malformed <- MCMalformed
  Publisher <- MCPublisher
  NoPublisher = NoPublisher
  MaxAttempts = 2
  BatchSize = 2
  Lease = 0
  RetryBaseDelay = 1
  MaxRetryDelay = 1
  MaxFaults = 1
INVARIANTS
  TypeOK
  AckedMeansHanded
  DeadLetterIsEarned
PROPERTIES
  ImplementsHandoff
  EveryCommandSettles
