SPECIFICATION Spec
CONSTANTS
    Threshold = 3
    MalformedCap = 1
    ModeSurvives = TRUE
    MaxHandles = 2
    MaxRestarts = 0
INVARIANTS
    StaleHandleClosed
