SPECIFICATION FairSpec
CONSTANTS
    Ctls = {k1, k2, k3}
    Users = {u1}
    Capacity = 3
    Messages = 3
    MaxLoads = 2
INVARIANTS
    TypeOK
    AnswersAddUp
PROPERTIES
    AllExit
    UsesKernelModule
CHECK_DEADLOCK FALSE
