SPECIFICATION RunnerSpec
CONSTANTS
    s1 = s1
    cts1 = cts1
    liepin1 = liepin1
    Session <- MCSession
    CtsRun <- MCCtsRun
    LiepinRun <- MCLiepinRun
    SessionOf <- MCSessionOf
    Job = {j1, j2}
    NoRun = NoRun
    Request = {q1}
    NoJob = NoJob
    LeaseTicks = 1
    CtsThread = {c1, c2}
    LiepinThread = {l1, l2}
    CtsWorkerCount = 2
    LiepinWorkerCount = 1
    MaxFaults = 1
SYMMETRY Symmetry
INVARIANTS
    RunnerInv
PROPERTIES
    StoreSpec
CHECK_DEADLOCK FALSE
