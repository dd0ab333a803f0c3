SPECIFICATION HidFairSpec
CONSTANTS
    MaxUid = 3
    MaxRx = 2
    RxKind = {"card", "bad", "foreign", "lost", "null"}
    MayUnplug = TRUE
INVARIANTS
    TypeOK
    NotifyOldFirst
    InOrder
    ReportsInOrder
    RepluginJustified
PROPERTIES
    NonReadServed
CHECK_DEADLOCK FALSE
