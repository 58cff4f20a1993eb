CONSTANTS
    Literal <- MCLiteral
    Colon = {":id", ":page"}
    Brace = {"{id}"}
    Star = "*"
    HTTPMethod = {"GET"}
    RequestPaths <- MCRequestPaths
    Key <- ThreeKeys
    Overlap <- MCOverlap
    Service = {a, b}
    InstanceID = {i1, i2}
    Handler = {h1}
    TTL = 2
    Second = 2
    Lag = 1
    MaxDelay = 1
    StrictPatternMatching = TRUE
SPECIFICATION FairSpec
INVARIANTS TypeOK IndexConsistent RoutesBacked HealthyFresh ExpiredRemoved
           PatternsDisjoint UnambiguousRouting
PROPERTIES RoutesKept KeepsPunctual ImplementsDirectory SilentRemoved
