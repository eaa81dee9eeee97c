CONSTANTS
    Caller = {c1, c2, c3, c4}
    Threshold = 3
    DeadlineCancels = TRUE
    Worker = {w1, w2}
    Prompt = {q1, q2}
    Dense = {q2}
    DailyCap = 2
    MaxLapses = 1
    Replica = {a1, a2}
    Limit = 2
    Window = 2
    Request = {"first", "retry", "changed", "other"}
    Key = {"key1", "key2"}
    Intent = {"post", "delete"}
    keyOf <- MCKeyOf
    intentOf <- MCIntentOf
    MaxInflight = 2
    UsesRedis = TRUE
    Process = {"api", "admin"}
    Reader = {"reader1", "reader2"}
    home <- MCHome
    MaxVersion = 2
    Client = {v1}
    MaxChanges = 3
    Interval = 1
    Metadata <- MCMetadata
    Visitor = {u1, u2}
    WindowSize = 6
    Tenant = {k1}
    NoTenant = nobody
    Address = {i1, i2}
    Task = {r1, r2}
    Thread = {t1, t2}
    MaxPuts = 1
SPECIFICATION ServicesSpec
INVARIANTS
    CountMatchesState
    
    
    InflightExact
    RepliesAreReal
    NothingOlderThanInvalidate
    ErasedStaysGone
    OldDataIsFlagged
    ContextIsOwn
PROPERTIES
    TripsWhenFailing
    ClosesWhenHealthy
    CounterEnds
    AnsweredIsRemembered
    StaleReadsEnd
    
    SheddingEnds
CHECK_DEADLOCK FALSE
