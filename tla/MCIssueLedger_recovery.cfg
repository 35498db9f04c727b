CONSTANTS
    l1 = l1
    l2 = l2
    Lanes <- MCOneLane
    Verdicts = {"PASS", "WARN", "FAIL"}
    MaxExecutions = 4
    MaxFaults = 0
    MaxUser = 0
SPECIFICATION Spec
INVARIANTS
    RecoveredIsResolved
CHECK_DEADLOCK FALSE
