CONSTANTS
    Key = {k1, k2}
    Overlap = {}
    Service = {a, b}
    InstanceID = {i1, i2}
    Handler = {h1, h2}
    TTL = 2
    Second = 2
    Lag = 1
    MaxDelay = 1
    StrictPatternMatching = FALSE
SPECIFICATION Spec
SYMMETRY Symmetry
PROPERTY RoutesKept
