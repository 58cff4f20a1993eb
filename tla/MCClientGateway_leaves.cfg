CONSTANTS
    NoID = NoID
    InstanceID = {i1, i2, i3}
    MaxRetries = 1
    MaxLoss = 0
    Calls = {"Register", "Shutdown"}
    CallsInOrder = TRUE
    Service = {self}
    Key = {k1}
    Self = self
    SelfRoutes = {k1}
    MaxFaults = 1
SPECIFICATION SessionSpec
INVARIANT ShutdownLeavesNothing
CHECK_DEADLOCK FALSE
