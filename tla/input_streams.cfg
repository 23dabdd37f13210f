SPECIFICATION Spec
CONSTANTS
    WindowSeconds = 2
    TicksPerSecond = 2
    MaximumInterval = 5
    QualifiedSamples = 2
    QualifiedTicks = 4
    Scale = 60
    Amounts <- SomeAmounts
    Intervals = {1, 3, 5, 6}
    ClockSteps = {0}
    Scrapes <- SomeScrapes
    Lines <- SomeLines
    Members <- SomeMembers
    MaximumBound = 4
    MaximumDepth = 2
    Letters = {"{", "}", "quote", "backslash"}
    RootMembers <- SomeRootMembers
    MaxInt64 = 6
    Chunks <- SomeChunks
    Sizes = {1, 2}
    Documents <- SomeDocuments
    MaximumEvent = 3
    MaximumBody = 3
    Longest <- LongestInput
INVARIANT WindowExact
INVARIANT SampleExact
INVARIANT LimitHolds
INVARIANT BodyExact
INVARIANT ShapeExact
INVARIANT UsageExact
CHECK_DEADLOCK FALSE
