SPECIFICATION Spec
CONSTANTS
    c1 = c1
    c2 = c2
    CPUs <- MCCPUs
    Covered <- MCCPUs
    RingSize = 2
    DiskMayFill = TRUE
    MaxExecs = 2
    MaxTime = 1
    MaxRuns = 1
INVARIANT CleanExitComplete
CHECK_DEADLOCK FALSE
