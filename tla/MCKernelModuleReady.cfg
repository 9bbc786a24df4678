SPECIFICATION Spec
CONSTANTS
    Users = {u1}
    Capacity = 3
    Messages = 3
    MaxLoads = 2
INVARIANT ReadyIsWritten
CHECK_DEADLOCK FALSE
