SPECIFICATION FairSpec
CONSTANTS
    a1 = a1
    a2 = a2
    NoAdapter = NoAdapter
    Adapters = {a1, a2}
    Ports = {0, 1}
INVARIANTS
    TypeOK
    FilterKept
    ConnectsWhatItProbed
PROPERTIES
    FindsTheOne
    Settles
