SPECIFICATION FairSpec
CONSTANTS
    Contacts = {c1}
    Operators = {o1}
    Workers = {w1, w2}
    NoSession = NoSession
    Ops <- HoldStopDelete
    StartStatus = "scheduled"
    BrokerMayFail = TRUE
    MayCrash = TRUE
    MaxOpen = 2
    BatchSize = 1
    MaxTime = 2
INVARIANTS
    HistoryKept
PROPERTIES
    QueueIsServed
    DrainedCompletes
CHECK_DEADLOCK FALSE
