SPECIFICATION Spec
CONSTANTS
    Contacts = {c1, c2}
    Operators = {o1}
    Workers = {w1}
    NoSession = NoSession
    Ops <- AllRequests
    StartStatus = "draft"
    BrokerMayFail = FALSE
    MayCrash = FALSE
    MaxOpen = 1
    BatchSize = 1
    MaxTime = 2
INVARIANTS
    AudienceMatches
PROPERTIES
    LegalMoves
CHECK_DEADLOCK FALSE
