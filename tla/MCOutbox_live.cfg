SPECIFICATION FairSpec
CONSTANTS
  w1 = w1
  w2 = w2
  None = None
  NumRows = 1
  Workers = {w1, w2}
  BatchSize = 1
  MaxAttempts = 2
  RetryDelay = 1
  StaleAfter = 1
  ClaimLease = 1
  Timeout <- LongTimeout
  Lease <- LongLease
  HeartbeatAfter = 1
  MaxCrashes = 1
  MaxFaults = 0
  MaxRequeues = 0
INVARIANTS DeadLetterEarned ProcessingIsRecoverable
PROPERTY EventuallySettled
