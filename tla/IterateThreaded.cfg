CONSTANTS
    MaxCalls = 5
    NoJob = NoJob
    PoolSize = 2
SPECIFICATION Spec
CHECK_DEADLOCK FALSE
INVARIANTS
    TypeOK
    OneThreadInTheFrame
    EndingIsHonest
