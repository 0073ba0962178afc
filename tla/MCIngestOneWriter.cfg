SPECIFICATION OneWriterSpec
CONSTANTS
    Event = {e1, e2}
    Correction = {c1}
    Worker = {w1, w2}
    Reclaimer = {rc}
    Reset = reset
    NoOne = noOne
    NoLog = {noLog}
    NoDoc = {noDoc}
    LiveMeta = TRUE
    SlowBatch = FALSE
    BatchSize = 2
    MaxStream = 4
    MaxCrash = 1
    MaxLapse = 1
    MaxFault = 1
    MaxMishap = 2
SYMMETRY WorkerSymmetry
INVARIANTS
    AckedIsKept
    SettledIsWhole
PROPERTIES
    LedgerSpec
CHECK_DEADLOCK FALSE
