SPECIFICATION Spec
CONSTANTS
    Requests <- SomeRequests
    ContentLength <- SomeContentLength
    Bodies <- SomeBodies
    Parts = {"a", "b", "c"}
    Prompt <- SomePrompt
    MaximumBodyBytes = 2
    MaximumConcurrent = 2
    MaximumReservedBytes = 3
    RetainedBuffers = 1
    Capacities = {2, 4}
    WritesPriority = TRUE
INVARIANT BodiesOwned
INVARIANT NoSpeculativeHits
INVARIANT MirrorRecent
CHECK_DEADLOCK FALSE
