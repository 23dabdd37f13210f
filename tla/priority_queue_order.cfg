SPECIFICATION SafeSpec
CHECK_DEADLOCK FALSE
CONSTANTS
    p = p
    g = g
    f = f
    NoRequest = NoRequest
    Requests = {p, f, g}
    Tier <- TwoFlex
    Cancelable = {}
    MaxEntries = 3
    Coalesce = 0
    MaxWait = 2
    LastArrival = 2
    MaxTime = 4
PROPERTY NoStarvation
PROPERTY InOrderWithinTier
