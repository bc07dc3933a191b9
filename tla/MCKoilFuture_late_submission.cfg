CONSTANTS
    f1 = f1
    f2 = f2
    f3 = f3
    s1 = s1
    NoScope = NoScope
    Futures = {f1}
    Scopes = {}
    Blocking = {}
    Timed = {}
    Signalled = {}
    Streams = {}
    ScopeOf <- Unscoped
SPECIFICATION Spec
CHECK_DEADLOCK FALSE
INVARIANT LoopGoneWorkFinished
