SPECIFICATION Spec
CONSTANTS
    m1 = m1
    m2 = m2
    m3 = m3
    Messages = {m1, m2, m3}
    FollowUps <- TwoFollowUps
    Batches = {b1, b2}
    Workers = {w1, w2}
    Cap = 2
    Period = 2
    Delay = 1
    MayCrash = TRUE
    MayReclaim = FALSE
    MayBounce = FALSE
SYMMETRY Symmetry
INVARIANTS
    CapHolds
PROPERTIES
    Spaced
CHECK_DEADLOCK FALSE
