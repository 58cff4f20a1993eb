CONSTANTS
    NoID = NoID
    InstanceID = {i1, i2, i3, i4, i5}
    MaxRetries = 1
    MaxLoss = 2
    Calls = {"Register", "Deregister", "Shutdown"}
    CallsInOrder = TRUE
    Service = {self, other}
    Key = {k1}
    Self = self
    SelfRoutes = {k1}
    MaxFaults = 1
SPECIFICATION SessionSpec
SYMMETRY Symmetry
INVARIANTS SessionTypeOK DuplicatesExplained ShutdownQuiet
CHECK_DEADLOCK FALSE
