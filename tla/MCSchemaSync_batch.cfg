CONSTANTS
    d1 = d1
    d2 = d2
    o1 = o1
    o2 = o2
    Databases <- MCTwoDatabases
    Operations <- MCOneOperation
    MaxRetries = 0
    PeriodicSync = FALSE
SPECIFICATION FairSpec
INVARIANTS
    BooksBalance
PROPERTIES
    Delivered
