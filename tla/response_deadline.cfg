SPECIFICATION Spec
CHECK_DEADLOCK FALSE
CONSTANT MaxRequests = 2
INVARIANT NoLateCallback
INVARIANT ErrorResponsePermitted
INVARIANT InterruptedForGood
PROPERTY CanceledWriteEnds
