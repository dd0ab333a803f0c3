SPECIFICATION FairSpec
CONSTANTS
    Devices = {d1}
    Sessions = {s1}
    MaxIndex = 3
    MaxEvents = 1
    MaxRequests = 2
    Patient = TRUE
PROPERTIES
    PlugGoesOn
CHECK_DEADLOCK FALSE
