SPECIFICATION Spec
CHECK_DEADLOCK FALSE
CONSTANTS
    MaxInt64 = 4
    WarmPromptTokens = 0
    BackendTierScheduling = TRUE
    Samplers = {s1, s2}
    s1 = s1
    Demands <- SamplingDemands
    MaxReservations = 2
    LeaseDuration = 1
    MaximumAge = 2
    MinimumSamples = 1
    ClockLag = 0
    RunningValues = {1}
    WaitingValues = {0}
    Generations = {0}
    Preemptions = {0}
    StartTimes = {0,1,2}
    References = {0}
    WindowSizes = {2}
    RunningLimits = {0}
    Allowances = {0}
    MaxEvents = 5
    MaxSamples = 3
    MaxObservations = 3
    MaxEpoch = 2
    MaxRevision = 1
    MaxReservationID = 1
    MaxTime = 2
    s2 = s2
INVARIANT NoInternalFailure
INVARIANT Fenced
INVARIANT DebtUncovered
PROPERTY ReconcileCovered
SYMMETRY SamplerSymmetry
