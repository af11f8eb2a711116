SPECIFICATION TriageSpec
CONSTANTS
    s1 = s1
    cts1 = cts1
    liepin1 = liepin1
    Session <- MCSession
    CtsRun <- MCCtsRun
    LiepinRun <- MCLiepinRun
    SessionOf <- MCSessionOf
    Job = {j1, j2}
    NoRun = NoRun
    LeaseTicks = 1
    Edited = {edited}
    Extracted = {extracted}
    NoCriteria = NoCriteria
    Extractor = {x1, x2}
    NoThread = NoThread
INVARIANT
    ClaimedTriageIsApproved
CHECK_DEADLOCK FALSE
