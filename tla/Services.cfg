SPECIFICATION Spec
CONSTANTS
    N = 3
    Chunk = 2
    Runners = {r1}
    Overlap = FALSE
    MaxCrashes = 1
    MayCancel = TRUE
    Raced = FALSE
    People = {a1}
    K = 2
    Sweepers = {w1}
    RuleLimit = 1
    MaxLost = 1
    Leads = {a1}
    Steps = 2
    Acting = {2}
    ByHand = {m1}
    Passes = {p1}
    TaskLimit = 2
    MaxDeaths = 1
    Items = {1, 2}
    Emails = {2}
    Pollers = {w1, w2}
    PassLimit = 2
    RetryEmails = FALSE
    MaxDied = 1
    Calls = {q1, q2, q3}
    Operations = {"create", "start", "run"}
    MaxExpired = 1
    MaxCut = 1
    Turns = {t1, t2}
    Cards = {1, 2}
    Requests = {q1}
    MaxSteps = 2
    MaxCalls = 1
    MaxDropped = 1
    Refs = {f1, f2}
    Totals = {1, 2}
    LateFailure = FALSE
    MaxOpen = 2
    W = 2
    Guests = {a1}
    Same = FALSE
    MaxMoved = 1
    MaxFailed = 1
    Mails = {1, 2}
    Replies = {1, 2}
    Readers = {p1, p2}
    MaxErrors = 1
    MaxAborted = 1
    Texts = {x1, x3}
    OptOuts = {x3}
    Handlers = {w1, w2}
    MaxRefused = 1
    MaxKilled = 1
    Phones = {1, 2}
    Accounts = {s1, s2}
    Boxes = {g1}
    MaxEdited = 1
    Letters = {1, 2}
    EventKinds = {"delivered", "bounce"}
    Eventful = {1}
    WithIds = FALSE
    Hooks = {h1}
    Polls = {p1}
    AskLimit = 1
    MaxEvents = 2
    MaxSilent = 1
    Numbers = {1, 2}
    Addresses = {1, 2}
    Rows = 2
    Batch = 1
    MaxEdits = 1
    Hours = 3
    HourTicks = 2
    WaitUnit = 2
    MinWait = 2
    Classic = {c1}
    AdsRuns = {d1}
    Writers = {s1, s2}
    MaxTexts = 3
    Reports = {h1}
    Sweeps = {w1}
    MaxSent = 2
    MinSample = 2
    BounceLimit = 50
    SpamLimit = 0
    Cooldown = 2
    MaxFails = 2
    MaxUndone = 1
    Timed = {k1}
    Countable = {k2}
    Unknown = {}
    Stuck = {}
    Delays = {0, 2}
    Interval = 1
    IdleInterval = 5
    ActiveWindow = 3
    MaxPass = 1
    KeepsAsked = FALSE
INVARIANTS
    ResultsHold
    KeyHonoured
    NoneMissed
    AckedIsStored
    ChainsHold
    InboxHolds
    TimesKept
    CardsHold
    InvoiceHolds
    SenderHolds
    EventsHold
    ImportsHold
PROPERTIES
    StopUnanswered
    WorkEnds
CHECK_DEADLOCK FALSE
