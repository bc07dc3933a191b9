CONSTANTS
    j1 = j1
    j2 = j2
    j3 = j3
    NoJob = NoJob
    Jobs = {j1, j2, j3}
    Parent <- Nested
    Bridged = {j2}
    PoolSize = 2
SPECIFICATION FairSpec
CONSTRAINT OneWriter
CHECK_DEADLOCK FALSE
INVARIANTS
    TypeOK
    OutlivingWorkerIsSignalled
    CancelledOnceIsAcknowledged
    ContextComesBackOnlyOnReturn
PROPERTIES
    KeepsPromise
    CancelReachesNested
    CallsEndUnlessExhausted
