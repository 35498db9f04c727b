CONSTANTS
    d1 = d1
    d2 = d2
    o1 = o1
    o2 = o2
    Databases <- MCOneDatabase
    Operations <- MCOneOperation
    MaxRetries = 1
    PeriodicSync = TRUE
SPECIFICATION Spec
INVARIANTS
    TypeOK
    OneMessage
    SomebodyReports
PROPERTIES
    ExpiryIsLast
