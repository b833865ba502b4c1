SPECIFICATION Spec
CONSTANTS
    Contacts = {c1, c2}
    Operators = {o1, o2}
    Workers = {w1, w2}
    NoSession = NoSession
    Ops <- PauseStopDelete
    StartStatus = "scheduled"
    BrokerMayFail = FALSE
    MayCrash = TRUE
    MaxOpen = 3
    BatchSize = 1
    MaxTime = 2
SYMMETRY Symmetry
INVARIANTS
    TypeOK
    EnrolledOnce
    CompletedDrained
    StoppedQuiet
CHECK_DEADLOCK FALSE
