CONSTANTS
    Event = {e1}
    Relayer = {r1}
    BatchSize = 2
    MaxAttempts = 2
    StuckCap = 2
    ReplayLimit = 1
    HasDLQ = TRUE
    FlushMayTimeOut = TRUE
SPECIFICATION KafkaSpec
INVARIANTS
    NoEventLostForGood
CHECK_DEADLOCK FALSE
