CONSTANTS
    f1 = f1
    f2 = f2
    f3 = f3
    s1 = s1
    NoScope = NoScope
    Futures = {f1, f2, f3}
    Scopes = {s1}
    Blocking = {f3}
    Timed = {f1}
    Signalled = {f1}
    Streams = {f1}
    ScopeOf <- Siblings
SPECIFICATION Spec
CONSTRAINT AloneOrTogether
CHECK_DEADLOCK FALSE
INVARIANTS
    TypeOK
    NoOrphanedCoroutine
    NoLeakedWaiter
    OutcomeIsGenuine
    SignalTellsOutcome
    SignalEndsStream
    CancellationIsolated
    GivenUpIsSignalled
PROPERTIES
    KeepsPromise
    DoneIsFinal
    ExitSettlesSubmissions
