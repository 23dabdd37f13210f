SPECIFICATION Spec
CHECK_DEADLOCK FALSE
CONSTANTS
    p = p
    g = g
    f = f
    NoRequest = NoRequest
    Requests = {p, f}
    Tier <- PriorityAndFlex
    Cancelable = {p, f}
    MaxEntries = 1
    Coalesce = 1
    MaxWait = 2
    LastArrival = 2
    MaxTime = 4
PROPERTY ImplementsService
PROPERTY CloseReturns
