CONSTANTS
    NoID = NoID
    InstanceID = {i1, i2, i3}
    MaxRetries = 1
    MaxLoss = 0
    Calls = {"Register", "Deregister"}
    CallsInOrder = TRUE
    Service = {self}
    Key = {k1}
    Self = self
    SelfRoutes = {k1}
    MaxFaults = 0
SPECIFICATION SessionSpec
INVARIANT DeregisterSticks
CHECK_DEADLOCK FALSE
