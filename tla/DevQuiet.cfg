SPECIFICATION DevSpec
CONSTANTS
    MaxUid = 6
    MaxRx = 0
    RxKind = {}
    MayUnplug = FALSE
    NSession = 2
    Opens = {"open_share"}
    Ops = {"read", "write", "cancel"}
    Quota = 4
    MaxReads = 1
    SupportShare = TRUE
    MaxOpen = 20
INVARIANTS
    CancelledByOwn
    WaitingIsAsy
CHECK_DEADLOCK FALSE
