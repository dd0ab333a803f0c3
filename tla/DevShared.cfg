SPECIFICATION DevSpec
CONSTANTS
    MaxUid = 5
    MaxRx = 2
    RxKind = {"card"}
    MayUnplug = FALSE
    NSession = 2
    Opens = {"open_share"}
    Ops = {"read", "write", "close"}
    Quota = 3
    MaxReads = 2
    SupportShare = TRUE
    MaxOpen = 20
INVARIANTS
    BlockedIsServed
    ReportsInTurn
CHECK_DEADLOCK FALSE
