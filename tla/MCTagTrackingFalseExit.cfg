SPECIFICATION Spec
CONSTANTS
    t1 = t1
    t2 = t2
    Tags = {t1, t2}
    ExitTimeout = 3
    MaxGap = 1
    MaxMisses = 1
    MaxRestarts = 0
INVARIANTS
    NoFalseExit
