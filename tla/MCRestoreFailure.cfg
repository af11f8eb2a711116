SPECIFICATION FilesSpec
CONSTANTS
    Row = {r1, r2}
    MaxBackups = 2
    MaxRestores = 1
    MaxFaults = 1
INVARIANT
    FailedRestoreKeepsOriginal
CHECK_DEADLOCK FALSE
