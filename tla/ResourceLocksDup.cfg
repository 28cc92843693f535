SPECIFICATION Spec
CHECK_DEADLOCK FALSE
CONSTANTS
    c1 = c1  c2 = c2  c3 = c3
    A = A  B = B
    t1 = t1  t2 = t2  t3 = t3
    Calls = {c1, c2, c3}
    Runtimes = {A, B}
    Caller <- DuplicateCaller
    NumResources = 1
    Tokens = {t1, t2, t3}
    Cancellable = {c1}
    Expiring = {c3}
    Mortal = {A}
    Recoverable = {1}
    NoRuntime = NoRuntime
    NoWaiter = NoWaiter
    NoToken = NoToken
SYMMETRY TokenSymmetry
INVARIANTS
    TypeOK
    NoLostWakeup
    ReleasedHoldsNothing
PROPERTIES
    LostOnlyWhenReleasedOrDrained
