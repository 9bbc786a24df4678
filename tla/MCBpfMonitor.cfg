SPECIFICATION Spec
CONSTANTS
    c1 = c1
    c2 = c2
    CPUs <- MCCPUs
    Covered <- MCCPUs
    RingSize = 2
    DiskMayFill = TRUE
    MaxExecs = 3
    MaxTime = 1
    MaxRuns = 2
SYMMETRY CPUSymmetry
INVARIANTS
    TypeOK
    AtMostOnce
    NoOvertaking
    PerCpuOrder
    ResourcesReleased
PROPERTIES
    OutputPreserved
    ImplementsEventLog
CHECK_DEADLOCK FALSE
