SPECIFICATION Spec
CONSTANTS
  m1 = m1
  m2 = m2
  p1 = p1
  p2 = p2
  Message <- MCMessage
  DeployMessage <- MCDeployMessage
  Malformed = {}
  Publisher <- MCPublisher
  NoPublisher = NoPublisher
  MaxAttempts = 2
  BatchSize = 1
  Lease = 1
  RetryBaseDelay = 1
  MaxRetryDelay = 2
  MaxFaults = 1
PROPERTIES
  SupersededMarkIsIgnored
