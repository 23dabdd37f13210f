SPECIFICATION Spec
CONSTANTS
    Backends <- SomeBackends
    ExplicitLimit = {}
    MaximumBound = 4
INVARIANT ClosedCleanly
PROPERTY SignalEnds
PROPERTY StartupEnds
PROPERTY DriftCloses
CHECK_DEADLOCK FALSE
