CONSTANTS
    p1 = p1
    p2 = p2
    r1 = r1
    r2 = r2
    Process = {p1, p2}
    Reader = {r1, r2}
    home <- MCHome
    MaxVersion = 1
SPECIFICATION SettingsSpec
PROPERTIES
    GetReturnsStored
CHECK_DEADLOCK FALSE
