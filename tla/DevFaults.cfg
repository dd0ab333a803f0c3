SPECIFICATION DevSpec
CONSTANTS
    MaxUid = 4
    MaxRx = 1
    RxKind = {"card", "bad", "foreign", "lost", "null"}
    MayUnplug = TRUE
    NSession = 1
    Opens = {"open"}
    Ops = {"read", "transmit", "transmit_empty", "cancel", "write", "close", "open", "unsupported"}
    Quota = 4
    MaxReads = 2
    SupportShare = TRUE
    MaxOpen = 20
INVARIANTS
    DevTypeOK
    SyncMatch
    AnsweredOnce
PROPERTIES
    UsesDriver
CHECK_DEADLOCK FALSE
