SPECIFICATION Spec
CONSTANTS
    MaxIndex = 5
    Threads = 1
    Tracks = {1, 2, 3}
    Phases = 2
    Alone = TRUE
    MaxCalls = 11
    MaxLate = 0
INVARIANTS
    FreshData
CHECK_DEADLOCK FALSE
