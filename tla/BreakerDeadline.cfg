CONSTANTS
    Caller = {c1}
    Threshold = 3
    DeadlineCancels = TRUE
SPECIFICATION LiveSpec
PROPERTIES
    TripsWhenSick
