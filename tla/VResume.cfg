SPECIFICATION Spec
CONSTANTS
    MaxCards = 2
    MaxOpens = 2
    MaxFaults = 2
INVARIANTS ReadyForCards
