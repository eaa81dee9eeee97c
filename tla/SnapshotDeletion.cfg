CONSTANTS
    Replica = {"r1"}
    Writer = {"w1"}
    WriterDies = FALSE
    Key <- MCKey
    NoKey = NoKey
    MaxVersion = 1
    MaxWrites = 2
SPECIFICATION Spec
PROPERTIES
    ReloadShowsDeletion
CHECK_DEADLOCK FALSE
