SPECIFICATION FairSpec
CHECK_DEADLOCK FALSE
CONSTANTS
    g1 = g1  g2 = g2
    Gates = {g1, g2}
    Closing = {g1}
    Kinds <- LiveKinds
    Traffic <- LiveTraffic
    MaxRequests = 3
    Unscoped = Unscoped
    MaxQueued = 2
    MaxPerKey = 2
    MaxBytes = 4
    MaxKeyBytes = 3
    MaxReaders = 2
    MaxControlPerKey = 1
    MaxControlBytes = 1
PROPERTIES FreeReaderSlotsFill ControlIsNotBlocked AcceptedRequestsSettle
