SPECIFICATION FairSpec
CHECK_DEADLOCK FALSE
CONSTANTS
    c1 = c1  c2 = c2  c3 = c3
    A = A  B = B
    t1 = t1  t2 = t2  t3 = t3
    Calls = {c1, c2, c3}
    Runtimes = {A, B}
    Caller <- DuplicateCaller
    NumResources = 1
    Tokens = {t1}
    Cancellable = {c1}
    Expiring = {}
    Mortal = {A}
    Recoverable = {}
    NoRuntime = NoRuntime
    NoWaiter = NoWaiter
    NoToken = NoToken
PROPERTIES
    FreeLockIsTaken
