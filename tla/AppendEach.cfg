\* A path of two instances and one of one.
SPECIFICATION PathSpec
CONSTANTS
    NodeLength <- Lengths
    DevicePaths <- TwoInstances
    Alignment = 4
INVARIANTS
    AppendsToEachInstance
CHECK_DEADLOCK FALSE
