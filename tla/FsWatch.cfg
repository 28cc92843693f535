SPECIFICATION FairSpec
CHECK_DEADLOCK FALSE
CONSTANTS
    Gates = {c1}
    c1 = c1  i1 = i1  i2 = i2
    Ids = {i1, i2}
    Scripts <- MCScripts
    MaxCalls = 3
    SetupSlots = 1
INVARIANTS
    TypeOK
    ClosedConnectionWatchesNothing
PROPERTIES
    ActiveWatchesAreKept
    ReservationsSettle
    NativeHandlesAreReleased
