SPECIFICATION Spec
CONSTANTS
    Task = {t1}
    Client = {c1, c2}
    NoTask = noTask
    Correction = {}
    CHANLOG_MAXLEN = 1
    MAX_QUEUE = 1
    PromptSubscribe = TRUE
    MaxSeq = 3
    MaxDrop = 1
    MaxRestart = 1
SYMMETRY ClientSymmetry
INVARIANTS
    NoGap
    SubscribedWhileWanted
CHECK_DEADLOCK FALSE
