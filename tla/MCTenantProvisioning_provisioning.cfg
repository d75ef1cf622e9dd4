SPECIFICATION Spec
CONSTANTS
    t1 = t1  t2 = t2  anna = anna  bela = bela
    None = None
    Actors = {t1, t2}
    People = {anna, bela}
    MaxRequests = 5
    MaxFaults = 2
SYMMETRY Symmetry
CHECK_DEADLOCK FALSE
INVARIANTS TypeOK WholeOrNone ActiveIsWhole OwnOnly
