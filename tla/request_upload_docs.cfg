SPECIFICATION Spec
CONSTANTS
    Requests <- SomeRequests
    ContentLength <- SomeContentLength
    Bodies <- SomeBodies
    Parts = {"a", "b", "c"}
    Prompt <- SomePrompt
    MaximumBodyBytes = 2
    MaximumConcurrent = 2
    MaximumReservedBytes = 3
    RetainedBuffers = 1
    Capacities = {2, 4}
    WritesPriority = FALSE
INVARIANT SendsOwnBody
CHECK_DEADLOCK FALSE
