SPECIFICATION FairSpec
CONSTANTS
    Threshold = 3
    MalformedCap = 1
    ModeSurvives = TRUE
    MaxHandles = 2
    MaxRestarts = 1
INVARIANTS
    TypeOK
    HandleDiscipline
    ScanInAnswerMode
    HealthTruth
PROPERTIES
    ModeLeftAlone
    Serves
    Recovers
