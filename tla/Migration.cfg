CONSTANTS
    Proc = {p1, p2}
    Default = {k1, k2}
    Password = pw
    MaxStops = 0
    MaxDowngrades = 0
SPECIFICATION LiveBootSpec
PROPERTIES
    MigratedBootsServe
CHECK_DEADLOCK FALSE
