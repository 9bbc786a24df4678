SPECIFICATION FairSpec
CONSTANTS
    c1 = c1
    c2 = c2
    CPUs <- MCCPUs
    Covered <- MCCPUs
    RingSize = 2
    DiskMayFill = FALSE
    MaxExecs = 3
    MaxTime = 1
    MaxRuns = 1
INVARIANTS
    CleanExitComplete
    FailureKeepsPrefix
PROPERTIES
    SignalStops
    AcceptedIsWritten
CHECK_DEADLOCK FALSE
