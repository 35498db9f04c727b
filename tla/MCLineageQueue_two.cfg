CONSTANTS
    k1 = k1
    k2 = k2
    Keys <- MCTwoKeys
    Cached <- MCNoKey
    MaxText = 1
    MaxRetries = 1
    BatchLimit = 1
    MaxFaults = 1
SPECIFICATION Spec
SYMMETRY MCSymmetry
INVARIANTS
    NoLostRequest
