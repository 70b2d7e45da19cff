SPECIFICATION Spec
CONSTANTS
    Threshold = 3
    MalformedCap = 1
    ModeSurvives = FALSE
    MaxHandles = 2
    MaxRestarts = 0
INVARIANTS
    ScanInAnswerMode
