SPECIFICATION FairSpec
CONSTANTS
    Devices = {d1, d2}
    Sessions = {s1}
    MaxIndex = 4
    MaxEvents = 2
    MaxRequests = 2
    Patient = TRUE
INVARIANTS
    TypeOK
    CtlPerDevice
    UsesOpened
    GoneHoldsNone
PROPERTIES
    Managed
    RequestEnds
CHECK_DEADLOCK FALSE
