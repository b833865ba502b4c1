SPECIFICATION Spec
CONSTANTS
    Messages = {m1}
    Workers = {w1, w2}
    Channel = "sms"
    MaxAttempts = 2
    MaxAccepted = 2
    MaxReceipts = 0
    MaxFaults = 0
    MaxTasks = 1
INVARIANTS
    AcceptedOnce
CHECK_DEADLOCK FALSE
