SPECIFICATION FairSpec
CONSTANTS
    MaxIndex = 4
    Threads = 2
    Tracks = {1}
    Phases = 2
    Alone = TRUE
    MaxCalls = 8
    MaxLate = 2
INVARIANTS
    TypeOK
    EachIsAnswered
    AnswersGoHome
PROPERTIES
    CallsReturn
CHECK_DEADLOCK FALSE
