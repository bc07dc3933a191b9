CONSTANTS
    f1 = f1
    f2 = f2
    f3 = f3
    s1 = s1
    NoScope = NoScope
    Futures = {f1, f2}
    Scopes = {}
    Blocking = {f2}
    Timed = {f1}
    Signalled = {}
    Streams = {}
    ScopeOf <- Unscoped
SPECIFICATION FairSpec
CONSTRAINT OneSubmission
CHECK_DEADLOCK FALSE
PROPERTIES
    BoundedResultReturns
    ExitReturns
    DeadlineSettles
    CancelledCoroutineUnwinds
    ShutdownCloses
