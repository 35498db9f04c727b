CONSTANTS
    k1 = k1
    k2 = k2
    Keys <- MCOneKey
    Cached <- MCOneKey
    MaxText = 2
    MaxRetries = 1
    BatchLimit = 1
    MaxFaults = 2
SPECIFICATION FairSpec
INVARIANTS
    TypeOK
    NoLostRequest
PROPERTIES
    NeverBackwards
    Converges
