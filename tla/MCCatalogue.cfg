SPECIFICATION Spec
CONSTANTS
    Fixture <- MCFixture
    Outcome <- MCOutcome
    QUICK <- MCQuick
    CHUNKS = 2
    MaxStarts = 3
    MaxCrashes = 1
    MaxFailures = 1
    MaxLosses = 1
INVARIANTS
    SeededIsServed
    TableFollowsRules
CHECK_DEADLOCK FALSE
