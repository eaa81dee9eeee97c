CONSTANTS
    r1 = r1
    r2 = r2
    r3 = r3
    r4 = r4
    k1 = k1
    k2 = k2
    i1 = i1
    i2 = i2
    Request = {r1, r2, r3, r4}
    Key = {k1, k2}
    Intent = {i1, i2}
    keyOf <- MCKeyOf
    intentOf <- MCIntentOf
    MaxInflight = 2
    UsesRedis = TRUE
SPECIFICATION PipelineSpec
INVARIANTS
    HandlerRunsOnce
CHECK_DEADLOCK FALSE
