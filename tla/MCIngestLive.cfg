SPECIFICATION FairSpec
CONSTANTS
    Event = {e1}
    Correction = {}
    Worker = {w1}
    Reclaimer = {rc}
    Reset = reset
    NoOne = noOne
    NoLog = {noLog}
    NoDoc = {noDoc}
    LiveMeta = TRUE
    SlowBatch = TRUE
    BatchSize = 2
    MaxStream = 3
    MaxCrash = 1
    MaxLapse = 1
    MaxFault = 1
    MaxMishap = 2
INVARIANTS
    AckedIsProjected
PROPERTIES
    EveryMessageAcked
CHECK_DEADLOCK FALSE
