SPECIFICATION Spec
CONSTANTS
    e1 = e1
    e2 = e2
    e3 = e3
    Events = {e1, e2}
    NoEvent = NoEvent
    Times = {1, 2}
    AttemptCap = 3
    BatchSize = 2
    Poison = {}
    MaxCrashes = 2
    MonotonicClock = FALSE
SYMMETRY EventSymmetry
INVARIANTS
    TypeOK
    DeliveredIsStored
    WriteAhead
    AttemptAccounting
PROPERTIES
    LostOnlyByCrash
    NoResendAfterAck
    Promise
