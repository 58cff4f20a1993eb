CONSTANTS
    Limit = 1
    Window = 5
    Second = 1
    MaxDelay = 1
    MaxInFlight = 2
    MaxRetries = 2
    MaxRequests = 4
    MaxResends = 2
    MaxFailures = 1
    LastStart = 6
    MaxClock = 13
SPECIFICATION FairLimiter
INVARIANTS LimiterTypeOK AdmittedBounded RefusalJustified
PROPERTY KeyReclaimed
CHECK_DEADLOCK FALSE
