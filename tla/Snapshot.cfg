CONSTANTS
    Replica = {"r1"}
    Writer = {"w1", "w2"}
    WriterDies = TRUE
    Key <- MCKey
    NoKey = NoKey
    MaxVersion = 1
    MaxWrites = 2
SPECIFICATION LiveSpec
INVARIANTS
    NotStuckStale
PROPERTIES
    ReplicasCatchUp
CHECK_DEADLOCK FALSE
