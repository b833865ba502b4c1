SPECIFICATION FairSpec
CONSTANTS
    w1 = w1
    w2 = w2
    Steps <- WaitFirst
    Workers = {w1}
    Ops = {"reply", "optout", "skip", "stop"}
    BrokerMayFail = TRUE
    MayCrash = TRUE
    MaxMessages = 3
    MaxFollowUps = 2
PROPERTIES
    RunEnds
CHECK_DEADLOCK FALSE
