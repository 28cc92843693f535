SPECIFICATION Spec
CHECK_DEADLOCK FALSE
CONSTANTS
    g1 = g1  g2 = g2
    Gates = {g1, g2}
    Closing = {}
    Kinds <- ControlKinds
    Traffic <- ControlTraffic
    MaxRequests = 2
    Unscoped = Unscoped
    MaxQueued = 2
    MaxPerKey = 2
    MaxBytes = 4
    MaxKeyBytes = 3
    MaxReaders = 2
    MaxControlPerKey = 1
    MaxControlBytes = 1
INVARIANT ControlIsSerialized
