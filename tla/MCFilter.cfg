SPECIFICATION Spec
CONSTANTS
    Files <- MCFiles
    SanitizeName <- MCSanitizeName
    MaxCalls = 2
    DiskMayFail = TRUE
    Missing = Missing
    Empty = Empty
    Bad = Bad
INVARIANTS FailureKeepsInput GraphFitsSort CodeIsClosed StepIsSynchronous
CHECK_DEADLOCK FALSE
