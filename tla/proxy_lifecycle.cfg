SPECIFICATION Spec
CHECK_DEADLOCK FALSE
CONSTANTS
    Requests = {r1, r2}
    Mode = "enforce"
    MaxFaults = 1
SYMMETRY Symmetry
CONSTRAINT FewFaults
INVARIANT ReservationReleased
INVARIANT UpstreamCallsCharged
INVARIANT SuccessMeansComplete
INVARIANT EvidenceOnce
INVARIANT TokensOnlyForSuccess
INVARIANT DisconnectCountedOnce
INVARIANT CountersExact
