CONSTANTS
    a = a
    b = b
    read = read
    User = {u}
    Scope = {read}
    Service = {a, b}
    Gateway = gateway
    AuthService = auth
    GatewayAudience = "api-gateway"
    NoName = ""
    OuterKey = outer
    InnerKey = inner
    Route <- MCRoute
    AllowedIssuers <- MCAllowedIssuers
    Second = 2
    InternalTTL = 3
    ServiceTTL = 2
    RegisterTTL = 3
    ExternalTTL = {0, 3}
    ExternalAudience = {"", "api-gateway", a}
    Target = {a, b, "api-gateway"}
    Delay = {0, 1}
    Hold = 1
    MaxRoots = 1
    MaxInternal = 3
    MaxClock = 7
SPECIFICATION TokenSpec
INVARIANTS TokenTypeOK TraceIsPath LifetimeBounded NotRefusedEarly RegisteredByOwner
CHECK_DEADLOCK FALSE
