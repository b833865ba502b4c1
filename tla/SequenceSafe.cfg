SPECIFICATION Spec
CONSTANTS
    w1 = w1
    w2 = w2
    Steps <- WaitAndBranch
    Workers = {w1, w2}
    Ops = {"pause", "stop", "reply", "optout", "skip", "sendnow"}
    BrokerMayFail = FALSE
    MayCrash = TRUE
    MaxMessages = 3
    MaxFollowUps = 3
SYMMETRY Symmetry
INVARIANTS
    KeepsPlace
CHECK_DEADLOCK FALSE
