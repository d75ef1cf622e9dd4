SPECIFICATION Spec
CONSTANTS
    t1 = t1  t2 = t2  anna = anna  bela = bela
    None = None
    Actors = {t1}
    People = {anna}
    MaxRequests = 3
    MaxFaults = 1
CHECK_DEADLOCK FALSE
INVARIANT RetryFinishes
