CONSTANTS
    Literal = {"users", "posts"}
    Colon = {":id"}
    Brace = {"{id}"}
    Star = "*"
    HTTPMethod = {"GET"}
    RequestPaths <- MCRequestPaths
    Key <- TwoKeys
    Overlap <- MCOverlap
    Service = {a, b}
    InstanceID = {i1, i2, i3}
    Handler = {h1}
    TTL = 1
    Second = 1
    Lag = 0
    MaxDelay = 0
    StrictPatternMatching = FALSE
    Handling = {g1}
    MaxWait = 1
    Cycle = 6
    None = None
SPECIFICATION FairBalance
PROPERTY EveryInstanceServed
