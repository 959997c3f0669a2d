\* One call of any function that stands alone.
SPECIFICATION FairSpec
CONSTANTS
    Screens <- AllScreens
    Bytes = 4
    Chars = {0, 1, 2}
    MaxArgs = 2
    WordSize = 256
    HEX = 4
    Bases = {2, 4, 10, 255}
    MaxSize = 6
    N = 3
    TableFrame = 2
    Junk <- Words
    Archs <- AllArchs
    Dyns <- SomeDyns
    RelWords = {1, 2}
    GotWords = {2}
    MaxRel = 2
    Buffers = {b1, b2}
    small = small
    otherSmall = otherSmall
    large = large
    otherLarge = otherLarge
    Objects <- FourObjects
    Size <- Sizes
    Absent = Absent
    FirstSize <- Starts
    MaxChanges = 2
    Calls = {"install", "uninstall", "reinstall"}
    h1 = h1
    h2 = h2
    p1 = p1
    i1 = i1
    Handles = {h1, h2}
    Protocols = {p1, p2}
    Interfaces = {i1, i2}
    None = None
    NoHandle = NoHandle
    Pointer = Pointer
    Databases <- SomeDatabases
    MaxList = 2
    MaxInstallEvents = 1
    Faulty = TRUE
    SearchHandles = {d1, d2}
    Paths <- SomePaths
    Wanted <- MyDisk
    NoPath = NoPath
    MaxSearchEvents = 1
    NodeLength <- Lengths
    DevicePaths <- ComposedPaths
    Alignment = 4
    FilePaths <- PathsOfFiles
    SourceSizes = {0, 3}
    MaxOffset = 5
    MaxUINTN = 7
    Formats <- ShortFormats
    Strings <- Texts
    Widths = {0, 2}
    PRINT_STRING_LEN = 4
    ConsoleAttrs = {0, 7, 31}
    StrSizes = {0, 1, 2, 4, 6, 8}
    FlushLen = 4
    MaxPrinted = 9
    MaxPoolUINTN = 63
    Letters = {a, b}
    StrLens = {1, 2, 3}
    Timeouts = {0, 2}
    MaxTyped = 4
    MaxTaken = 1
    MaxFailures = 1
    Orders <- SomeOrders
    BootOption <- NewOption
    MaxOrderEvents = 2
INVARIANTS
    ClearsSquareScreens
    StrcpyIsSafe
    StrcatOnlyTerminates
    DigitsWritten
    TablesFilled
    PointersMovedOnce
    NothingLeaks
    WholeObjectReturned
    AllOrNothing
    UninstallsWhatItCan
    SearchFinds
    PathsComposed
    SimpleReadLeaksNothing
    HandleReadsFile
    AttributesRight
    OutputKept
    WritesInBounds
    KeepsText
    StringIsEchoed
    TimeoutsAreOwn
    OrderSafe
PROPERTIES
    ReadsAtomically
    CallReturns
    InstallsAtomically
    FieldFilled
    KeyEndsWait
CHECK_DEADLOCK FALSE
