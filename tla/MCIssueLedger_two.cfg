CONSTANTS
    l1 = l1
    l2 = l2
    Lanes <- MCTwoLanes
    Verdicts = {"PASS", "WARN", "FAIL", "ERROR"}
    MaxExecutions = 4
    MaxFaults = 1
    MaxUser = 1
SYMMETRY MCLaneSymmetry
SPECIFICATION Spec
INVARIANTS
    TypeOK
    OneUnresolved
    FailingIsOpen
PROPERTIES
    ResolvedIsFinal
CHECK_DEADLOCK FALSE
