CONSTANTS
    QtFutures = {qf}
    QtGenerators = {qg}
    Timed = {qf, qg}
    MaxSays = 3
SPECIFICATION FairSpec
CONSTRAINT OneCall
CHECK_DEADLOCK FALSE
INVARIANTS
    TypeOK
    ReceivedAsSaid
    QtCanTell
PROPERTY AnswersArrive
