CONSTANTS
    Literal <- MCLiteral
    Colon = {":id"}
    Brace = {"{id}"}
    Star = "*"
    HTTPMethod = {"GET"}
    RequestPaths <- MCRequestPaths
    Key <- OneKey
    Overlap <- MCOverlap
    Service = {a, b}
    InstanceID = {i1, i2}
    Handler = {h1}
    TTL = 1
    Second = 1
    Lag = 0
    MaxDelay = 0
    StrictPatternMatching = FALSE
    Handling = {g1, g2}
    MaxWait = 1
    Cycle = 2
    None = None
SPECIFICATION ProxySpec
SYMMETRY Symmetry
INVARIANTS ProxyTypeOK TargetFresh
PROPERTY ServedWhileAvailable
