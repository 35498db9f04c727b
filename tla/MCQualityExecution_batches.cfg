CONSTANTS
    r1 = r1
    r2 = r2
    w1 = w1
    w2 = w2
    c1 = c1
    c2 = c2
    Rules <- MCOneRule
    Period <- MCFollowTarget
    Workers <- MCTwoWorkers
    Callers <- MCTwoCallers
    Manual <- MCTwoManual
    Scheduled <- MCTwoScheduled
    MaxAttempts = 2
    QueueCap = 1
    MaxCycles = 1
    MaxFaults = 1
    MaxEdits = 0
SYMMETRY ActorSymmetry
SPECIFICATION Spec
INVARIANTS
    TypeOK
    OneQueryPerRule
    InstanceIsSerial
    NothingStranded
PROPERTIES
    RefinesQualityBatch
CHECK_DEADLOCK FALSE
