CONSTANTS
    MaxCalls = 2
    NoJob = NoJob
    PoolSize = 2
SPECIFICATION Spec
CHECK_DEADLOCK FALSE
INVARIANT CancellationIsReported
