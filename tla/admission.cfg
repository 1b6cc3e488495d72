SPECIFICATION Spec
CONSTANTS
    s1 = s1
    s2 = s2
    Servers = {s1, s2}
    Bodies <- MCBodies
    NoKey = "none"
    MaxActive = 1
    MaxRequests = 3
SYMMETRY ServerSymmetry
CHECK_DEADLOCK FALSE
INVARIANTS
    TypeOK
    OneActivePerAsset
    KeyNamesOneSession
    OvershootBounded
