CONSTANTS
    c1 = c1
    c2 = c2
    c3 = c3
    c4 = c4
    Callers <- MCThreeCallers
    Priorities = {0, 2}
    Ceilings = {0, 1, 2}
    MaxSequence = 5
SPECIFICATION FairSpec
INVARIANTS
    NoLostWakeup
PROPERTIES
    NoOvertaking
    TopClassServed
