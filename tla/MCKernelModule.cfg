SPECIFICATION FairSpec
CONSTANTS
    Users = {u1, u2}
    Capacity = 2
    Messages = 3
    MaxLoads = 2
INVARIANTS
    TypeOK
    FilesHoldModule
    MappingsHoldBuffer
    NothingLeft
    CountedIsWhole
    MessagesDelivered
PROPERTY LoadEnds
CHECK_DEADLOCK FALSE
