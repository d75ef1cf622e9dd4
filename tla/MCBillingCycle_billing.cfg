SPECIFICATION Spec
CONSTANTS
    w = w  o = o
    None = None
    Actors = {w, o}
    Clients = {o}
    FirstDue = 1
    Cycle = 9
    Grace = 1
    CloseAfter = 2
    MaxDay = 4
    MaxInvoices = 2
    MaxCancels = 1
    MaxRequests = 2
    MaxFaults = 1
CHECK_DEADLOCK FALSE
INVARIANTS TypeOK PaidIsCovered OneDebtPerPeriod NoEarlyDrop
PROPERTIES PaidStaysPaid CancelledIsGone
