SPECIFICATION FairSpec
CONSTANTS
    Messages = {m1}
    Workers = {w1, w2}
    Channel = "email"
    MaxAttempts = 1
    MaxAccepted = 2
    MaxReceipts = 1
    MaxFaults = 1
    MaxTasks = 1
INVARIANTS
    CountIsHonest
    OnlyApart
PROPERTIES
    MessageSettles
CHECK_DEADLOCK FALSE
