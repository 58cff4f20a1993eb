CONSTANTS
    NoID = NoID
    InstanceID = {i1, i2, i3}
    MaxRetries = 1
    MaxLoss = 2
    Calls = {"Register", "Shutdown"}
    CallsInOrder = FALSE
    Service = {self, other}
    Key = {k1}
    Self = self
    SelfRoutes = {k1}
    MaxFaults = 1
SPECIFICATION FairSession
PROPERTIES Recovers ShutdownReturns LeavesForGood
CHECK_DEADLOCK FALSE
