SPECIFICATION Spec
CONSTANTS
    w = w  o = o
    None = None
    Actors = {w}
    Clients = {}
    FirstDue = 1
    Cycle = 9
    Grace = 1
    CloseAfter = 2
    MaxDay = 4
    MaxInvoices = 1
    MaxCancels = 1
    MaxRequests = 0
    MaxFaults = 0
CHECK_DEADLOCK FALSE
PROPERTY RestrictionLasts
