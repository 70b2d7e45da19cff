SPECIFICATION FairSpec
CONSTANTS
    t1 = t1
    t2 = t2
    Tags = {t1, t2}
    ExitTimeout = 3
    MaxGap = 2
    MaxMisses = 1
    MaxRestarts = 1
INVARIANTS
    TypeOK
    NoFalseExitIfShort
    NoLinger
PROPERTIES
    Alternates
    EventuallyTold
