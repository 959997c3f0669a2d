SPECIFICATION Spec
CONSTANTS
    CHARACTER_SIZE = 2
    Screens <- SmallScreens
    Strings <- Multiline
    MaxCalls = 4
PROPERTIES
    WholeStringWritten
CHECK_DEADLOCK FALSE
