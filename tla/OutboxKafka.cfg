CONSTANTS
    Event = {e1, e2}
    Relayer = {r1, r2}
    BatchSize = 2
    MaxAttempts = 2
    StuckCap = 2
    ReplayLimit = 1
    HasDLQ = TRUE
    FlushMayTimeOut = FALSE
SPECIFICATION KafkaSpec
SYMMETRY Symmetry
INVARIANTS
    
    NoLostEvent
    NoPhantomEvent
    PoisonReallyFailed
PROPERTIES
    MarkIsFinal
    ImplementsPromise
CHECK_DEADLOCK FALSE
