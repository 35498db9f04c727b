CONSTANTS
    x1 = x1
    x2 = x2
    c1 = c1
    c2 = c2
    Replicas <- MCReplicas
    Calls <- MCCalls
    TTL = 2
    RefreshTTL = 1
    Retention = 0
    MaxTime = 2
    MaxTokens = 2
    MaxFaults = 1
SYMMETRY MCSymmetry
SPECIFICATION Spec
INVARIANTS
    TypeOK
    SingleUse
    RefusedWithinTTL
    RefusedHereAtOnce
PROPERTIES
    RevocationIsFinal
CHECK_DEADLOCK FALSE
