CONSTANTS
    Keys = {k1, k2, k3, k4}
    Values = {v1, v2}
    MaxSize = 2
    Elasticity = 1
SPECIFICATION Spec
INVARIANT KeepsRecent
INVARIANT LatestValue
