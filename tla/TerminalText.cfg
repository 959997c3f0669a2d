\* Any calls on small screens, and whole boots with every outcome of the header
\* checks on the smallest real one.
SPECIFICATION TextSpec
CONSTANTS
    CHARACTER_SIZE = 2
    Screens <- SmallAndVga
    Strings <- AllTexts
    Text <- Literals
    BootScreens <- OnlyVga
    MaxCalls = 20
INVARIANTS
    TypeOK
    NoOverprint
    InFramebuffer
    EveryMessageOnScreen
    KernelSparesMessages
    MessagesOnFreshLines
CHECK_DEADLOCK FALSE
