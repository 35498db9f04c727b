CONSTANTS
    d1 = d1
    d2 = d2
    Deliveries <- MCTwoDeliveries
    Bypass <- MCBypass
    MaxAttempts = 2
    ClaimLimit = 1
    MaxFaults = 1
    MaxRequeues = 1
    MaxWindows = 1
SPECIFICATION FairSpec
INVARIANTS
    OwnsLease
    DuplicatesExplained
    WaitingIsFree
    BudgetEnds
PROPERTIES
    SentIsTerminal
    Settles
CHECK_DEADLOCK FALSE
