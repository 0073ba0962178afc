SPECIFICATION FairSpec
CONSTANTS
    Task = {t1, t2}
    Client = {c1}
    NoTask = noTask
    Correction = {2}
    CHANLOG_MAXLEN = 1
    MAX_QUEUE = 1
    PromptSubscribe = TRUE
    MaxSeq = 3
    MaxDrop = 1
    MaxRestart = 0
INVARIANTS
    NoGap
PROPERTIES
    EveryMessageArrives
CHECK_DEADLOCK FALSE
