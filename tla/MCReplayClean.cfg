SPECIFICATION ReplaySpec
CONSTANTS
    e1 = e1
    c1 = c1
    Event = {e1}
    Correction = {c1}
    Worker = {w1}
    Reclaimer = {}
    Reset = reset
    NoOne = noOne
    NoLog = {noLog}
    NoDoc = {noDoc}
    LiveMeta = TRUE
    SlowBatch = FALSE
    BatchSize = 1
    MaxStream = 6
    MaxCrash = 1
    MaxLapse = 0
    MaxFault = 0
    MaxMishap = 1
    Driver = {d1, d2}
    First = d1
    Looping = {d1}
    Schedule <- GoalThenVerdict
    MaxCommand = 1
    MaxDeath = 1
INVARIANTS
    CleanRestartIsOwn
    CleanReplayIsComplete
CHECK_DEADLOCK FALSE
