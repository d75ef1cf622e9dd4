SPECIFICATION FairSpec
CONSTANTS
  w1 = w1
  w2 = w2
  None = None
  NumRows = 2
  Workers = {w1}
  BatchSize = 2
  MaxAttempts = 2
  RetryDelay = 1
  StaleAfter = 1
  ClaimLease = 1
  Timeout <- ShortTimeout
  Lease <- ShortLease
  HeartbeatAfter = 1
  MaxCrashes = 0
  MaxFaults = 1
  MaxRequeues = 0
PROPERTY EventuallySettled
