SPECIFICATION Spec
CONSTANTS
    s1 = s1
    s2 = s2
    cts1 = cts1
    liepin1 = liepin1
    liepin2 = liepin2
    Session <- MCSession
    CtsRun <- MCCtsRun
    LiepinRun <- MCLiepinRun
    SessionOf <- MCSessionOf
    Job = {j1, j2, j3}
    NoRun = NoRun
    LeaseTicks = 1
SYMMETRY Symmetry
INVARIANTS
    TypeOK
    OneActiveJob
    RunMirrorsJob
    ResultsFenced
    ClaimedAtMostOnce
PROPERTIES
    RunEndsOnce
    ContractKept
CHECK_DEADLOCK FALSE
