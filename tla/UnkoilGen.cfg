CONSTANTS
    Timed = TRUE
    MaxValues = 2
SPECIFICATION FairSpec
CHECK_DEADLOCK FALSE
INVARIANTS
    TypeOK
    ClosedWhenLeft
    EndingIsHonest
PROPERTIES
    LeavingReturns
    CleanupRuns
