SPECIFICATION Spec
CONSTANTS
    Files <- MCFiles
    SanitizeName <- MCSanitizeName
    MaxCalls = 1
    DiskMayFail = FALSE
    Missing = Missing
    Empty = Empty
    Bad = Bad
INVARIANT DelaysHoldInput
CHECK_DEADLOCK FALSE
