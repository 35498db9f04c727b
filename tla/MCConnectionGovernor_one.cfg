CONSTANTS
    c1 = c1
    c2 = c2
    c3 = c3
    c4 = c4
    Callers <- MCFourCallers
    Priorities = {0, 1, 2}
    Ceilings = {2}
    MaxSequence = 6
SPECIFICATION Spec
SYMMETRY MCSymmetry
INVARIANTS
    SlotsAccounted
    CeilingRespected
    WorkConserving

