SPECIFICATION DevFairSpec
CONSTANTS
    MaxUid = 4
    MaxRx = 1
    RxKind = {"card", "lost"}
    MayUnplug = FALSE
    NSession = 2
    Opens = {"open", "open_share"}
    Ops = {"read", "write", "cancel", "transmit", "close"}
    Quota = 3
    MaxReads = 1
    SupportShare = FALSE
    MaxOpen = 20
INVARIANTS
    ExclusiveAlone
    ReadBeingServed
PROPERTIES
    NonReadAnswered
    CompletedSent
CHECK_DEADLOCK FALSE
