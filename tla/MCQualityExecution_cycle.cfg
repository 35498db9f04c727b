CONSTANTS
    r1 = r1
    r2 = r2
    w1 = w1
    w2 = w2
    c1 = c1
    c2 = c2
    Rules <- MCTwoRules
    Period <- MCOneSparse
    Workers <- MCOneWorker
    Callers <- MCNoCaller
    Manual <- MCNoManual
    Scheduled <- MCFiveScheduled
    MaxAttempts = 2
    QueueCap = 1
    MaxCycles = 1
    MaxFaults = 2
    MaxEdits = 1
SPECIFICATION Spec
PROPERTIES
    RefinesQualityBatch
    
    CycleSettles
CHECK_DEADLOCK FALSE
