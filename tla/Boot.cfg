\* A whole boot on firmware of which any call may fail, with a firmware event anywhere.
SPECIFICATION BootSpec
CONSTANTS
    NPages = 6
    PAGE_SIZE = 2
    PRE_ALLOC = 1
    InitialMaps <- SmallMaps
    Files <- SmallFiles
    JunkSizes <- SmallJunk
    Faulty <- AllFaults
    PoolPages = 1
    MaxModes = 2
    MaxEvents = 2
    NoMap = NoMap
INVARIANTS
    TypeOK
    UndisturbedBootNeverBouncesBack
    KernelAndMapProtected
    ReadStaysInPages
    NoReturnAfterExit
    EndsForAReason
PROPERTIES
    HandsOver
    LoaderDecides
CHECK_DEADLOCK FALSE
