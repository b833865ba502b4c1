SPECIFICATION FairSpec
CONSTANTS
    Assignments = {a1, a2}
    a1 = a1
    a2 = a2
    s1 = s1
    s2 = s2
    w1 = w1
    w2 = w2
    Slots = {j1, j2}
    Workers = {w1, w2}
    Sessions = {s1, s2}
    Setups <- Scenes
    Limit = 2
    MaxRetries = 2
    LongSlices = FALSE

    
PROPERTIES
    SentOnce
    Served
CHECK_DEADLOCK FALSE
