SPECIFICATION Spec
CONSTANTS
    k1 = k1
    k2 = k2
    k3 = k3
    Keys = {k1, k2, k3}
    Weight <- TwoZeros
    ChanCap = 3
INVARIANTS
    IndexIsReady
    MembersTracked
    ZeroWeightLast
CHECK_DEADLOCK FALSE
