CONSTANTS
    Event = {e1, e2}
    Relayer = {r1, r2}
    BatchSize = 1
    MaxAttempts = 1
    StuckCap = 1
    ReplayLimit = 1
    HasDLQ = TRUE
SPECIFICATION LiveSpec
PROPERTIES
    EveryRowSettles
    SettledOrVisiblyStuck
CHECK_DEADLOCK FALSE
