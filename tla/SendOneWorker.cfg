SPECIFICATION Spec
CONSTANTS
    Messages = {m1, m2}
    Workers = {w1}
    Channel = "sms"
    MaxAttempts = 2
    MaxAccepted = 2
    MaxReceipts = 1
    MaxFaults = 0
    MaxTasks = 1
SYMMETRY Symmetry
INVARIANTS
    TypeOK
    AcceptedOnce
    SentIsCounted
PROPERTIES
    FinalStays
    KeepsPromise
CHECK_DEADLOCK FALSE
