SPECIFICATION FairSpec
CHECK_DEADLOCK FALSE
CONSTANTS
    Requests = {r1}
    Mode = "shadow"
PROPERTY ReservationEnds
