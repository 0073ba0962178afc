SPECIFICATION Spec
CONSTANTS
    Event = {e1, e2}
    Correction = {}
    Worker = {w1, w2}
    Reclaimer = {}
    Reset = reset
    NoOne = noOne
    NoLog = {noLog}
    NoDoc = {noDoc}
    LiveMeta = TRUE
    SlowBatch = FALSE
    BatchSize = 1
    MaxStream = 3
    MaxCrash = 0
    MaxLapse = 1
    MaxFault = 0
    MaxMishap = 1
PROPERTIES
    DocumentOnlyGrows
CHECK_DEADLOCK FALSE
