SPECIFICATION FairRunnerSpec
CONSTANTS
    s1 = s1
    liepin1 = liepin1
    Session <- MCSession
    CtsRun = {}
    LiepinRun <- MCLiepinRun
    SessionOf <- MCSessionOf
    Job = {j1, j2}
    NoRun = NoRun
    Request = {q1}
    NoJob = NoJob
    LeaseTicks = 1
    CtsThread = {}
    LiepinThread = {l1}
    CtsWorkerCount = 0
    LiepinWorkerCount = 1
    MaxFaults = 0
PROPERTIES
    QueuedJobsAreClaimed
CHECK_DEADLOCK FALSE
