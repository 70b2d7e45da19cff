SPECIFICATION FairSpec
CONSTANTS
    e1 = e1
    e2 = e2
    e3 = e3
    NoEvent = NoEvent
    Events = {e1, e2, e3}
    Times = {1, 2}
    AttemptCap = 1
    BatchSize = 2
    Poison = {e1}
    MaxCrashes = 1
    MonotonicClock = TRUE
INVARIANTS
    OvertakenOnlyAfterAttempt
PROPERTIES
    EventuallyDelivered
