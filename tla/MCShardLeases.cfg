SPECIFICATION FairSpec
CONSTANTS
    Worker = {w1, w2, w3}
    Free = free
    SHARDS = 3
    MaxMove = 3
    MaxLapse = 1
    MaxFault = 1
    MaxMishap = 1
INVARIANTS
    TypeOK
    OwnersHoldTheirLeases
PROPERTIES
    LeaseNotStolen
    EveryShardServed
    SharesAreFair
CHECK_DEADLOCK FALSE
