SPECIFICATION Spec
CONSTANTS
    Alias <- MCAlias
    WEAK_ALIASES <- MCWeak
    CompName <- MCCompName
    PRIORITY <- MCPriority
    BLUESKY_COMPETITIONS <- MCCompetitions
    COMPETITION_TAGS <- MCTags
    FOOTBALL_TERMS <- MCTerms
    Raw <- MCRaw
    Snapshots <- MCSnapshots
    Networks <- MCNetworks
    OffSets <- MCOffSets
    Requests <- MCRequests
    Worker = {w1, w2}
    MAX_FIXTURES = 10
    MAX_AGE = 1
    AUTHOR_CAP = 2
    AUTHOR_WINDOW = 0
    KEEP_ALL = 4
    KEEP_EACH = 3
    X_PAGE = 2
    X_BUDGET = 2
    DAY = 1
    CHUNK = 2
    MAX_SCAN = 3
    LIMIT = 1
    MaxNow = 3
    MaxCycles = 2
    MaxTroubles = 1
ACTION_CONSTRAINT ReaderAlone
SYMMETRY WorkerSymmetry
INVARIANTS
    WordingsMeetAtExpiry
    AccountsAreCapped
    ReadsWithinBudget
    NextReachesEverything
CHECK_DEADLOCK FALSE
