CONSTANTS
    Caller = {c1, c2, c3}
    Cancellable = {c1}
    Reader = {r1}
    Api = api
    RedisFails = TRUE
SPECIFICATION LiveReadThroughSpec
INVARIANTS
    OneLoader
    OutcomesAreReal
    
PROPERTIES
    EveryWaiterResumes
    CacheConverges
CHECK_DEADLOCK FALSE
