SPECIFICATION Spec
CONSTANTS
    NPages = 6
    PAGE_SIZE = 2
    PRE_ALLOC = 1
    InitialMaps <- SmallMaps
    Files <- OnlyOtherMachine
    JunkSizes <- SmallJunk
    Faulty = {}
    PoolPages = 1
    MaxModes = 2
    MaxEvents = 0
    NoMap = NoMap
INVARIANTS
    HeaderErrorStopsBoot
CHECK_DEADLOCK FALSE
