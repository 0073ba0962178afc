SPECIFICATION FairSpec
CONSTANTS
    Comps <- MCComps
    BURST <- MCBurst
    AHEAD_EVERY = 3
    COMPETITIONS_EVERY = 3
    ATTEMPTS = 2
    CAPACITY = 3
    Period = 6
    MaxTroubles = 2
INVARIANTS
    PacedByBucket
    FiveAsked
PROPERTIES
    EverythingKeepsComing
CHECK_DEADLOCK FALSE
