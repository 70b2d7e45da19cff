SPECIFICATION FairSpec
CONSTANTS
    e1 = e1
    e2 = e2
    e3 = e3
    NoEvent = NoEvent
    Events = {e1, e2}
    Times = {1}
    AttemptCap = 1
    BatchSize = 1
    Poison = {e1}
    MaxCrashes = 0
    MonotonicClock = TRUE
PROPERTIES
    EveryEventTried
