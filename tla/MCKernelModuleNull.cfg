SPECIFICATION Spec
CONSTANTS
    Users = {u1}
    Capacity = 3
    Messages = 3
    MaxLoads = 2
INVARIANT MappedIsBuffer
CHECK_DEADLOCK FALSE
