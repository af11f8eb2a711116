SPECIFICATION PartsSpec
CONSTANTS
    s1 = s1
    cts1 = cts1
    liepin1 = liepin1
    worker = worker
    heartbeat = heartbeat
    other = other
    hand = hand
    auto1 = auto1
    auto2 = auto2
    r1 = r1
    r2 = r2
    b1 = b1
    b2 = b2
    w1 = w1
    w2 = w2
    qa = qa
    qb = qb
    ra = ra
    rb = rb
    Session <- MCSession
    CtsRun <- MCCtsRun
    LiepinRun <- MCLiepinRun
    SessionOf <- MCSessionOf
    Job = {j1}
    NoRun = NoRun
    LeaseTicks = 1
    Edited = {edited}
    Extracted = {extracted}
    NoCriteria = NoCriteria
    Extractor = {x1, x2}
    NoThread = NoThread
    Process = {"p1", "p2"}
    Thread = {worker, heartbeat, other}
    ProcessOf <- MCProcessOf
    NoProcess = "nobody"
    LeaseSlots = 2
    MaxSlot = 2
    MaxFacts = 1
    Request = {hand, auto1, auto2}
    AutoRequest = {auto1, auto2}
    SourceRun = {"x1", "x2"}
    RunOf <- MCRunOf
    DailyLimit = 2
    AutoLimit = 2
    ViewLeaseTicks = 1
    DayTicks = 3
    MaxClock = 3
    Browser = {b1, b2}
    WebRequest = {r1, r2}
    BrowserOf <- MCBrowserOf
    SessionTtl = 1
    LockoutWindow = 1
    FailureLimit = 2
    MaxNow = 2
    MaxTokens = 3
    MaxAttempts = 4
    Row = {w1, w2}
    MaxBackups = 2
    MaxRestores = 2
    MaxFaults = 2
    CardRequest = {ra, rb}
    Call <- MCCall
    CallerOf <- MCCallerOf
    Query = {qa, qb}
    QueryOf <- MCQueryOf
    Page = {1, 2}
    MaxActions = 3
    SearchQuotas <- MCSearchQuotas
    NoPage = 0
    NoQuery = "no query"
    LaneJob = {1, 2}
    Item = {"c1", "l1"}
    SourceOf <- MCSourceOf
    KeysOf <- MCKeysOf
    BoardQuotas <- MCBoardQuotas
SYMMETRY MCSymmetry
INVARIANTS
    TriageIsKept
    NoNoteTwice
    DailyBudgetKept
    DecisionsHoldLeases
    NewestLoginHolds
    GuessesAreBounded
    TokenFitsSession
    RestoreKeepsADatabase
    CardsAreOfTheQuery
    ActsOnSeenTab
    OpenTabsAreLeased
    PageIsCurrent
PROPERTIES
    DecisionsAreFinal
CHECK_DEADLOCK FALSE
