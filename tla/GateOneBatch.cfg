SPECIFICATION FairSpec
CONSTANTS
    m1 = m1
    m2 = m2
    m3 = m3
    Messages = {m1, m2, m3}
    FollowUps <- NoFollowUps
    Batches = {b1}
    Workers = {w1, w2}
    Cap = 2
    Period = 1
    Delay = 0
    MayCrash = TRUE
    MayReclaim = FALSE
    MayBounce = TRUE
INVARIANTS
    QueueFits
PROPERTIES
    QueuedLeaves
CHECK_DEADLOCK FALSE
