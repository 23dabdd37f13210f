SPECIFICATION Spec
CHECK_DEADLOCK FALSE
CONSTANTS
    MaxInt64 = 4
    WarmPromptTokens = 1
    BackendTierScheduling = FALSE
    Samplers = {s1}
    s1 = s1
    Demands <- LifecycleDemands
    MaxReservations = 3
    LeaseDuration = 1
    MaximumAge = 2
    MinimumSamples = 1
    ClockLag = 1
    RunningValues = {1}
    WaitingValues = {0}
    Generations = {0,2}
    Preemptions = {0}
    StartTimes = {0}
    References = {0,2}
    WindowSizes = {2}
    RunningLimits = {3}
    Allowances = {0}
    MaxEvents = 4
    MaxSamples = 2
    MaxObservations = 2
    MaxEpoch = 2
    MaxRevision = 2
    MaxReservationID = 2
    MaxTime = 2
INVARIANT TypeOK
INVARIANT OverlayExact
INVARIANT LedgerExact
INVARIANT EvidenceCurrent
INVARIANT MinimumMostRestricted
PROPERTY AdmittedWithinBounds
PROPERTY ColdSerialised
