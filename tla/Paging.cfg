\* The tables of paging.h on any memory.
SPECIFICATION PageSpec
CONSTANTS
    N = 3
    TableFrame = 2
    Junk <- Words
INVARIANTS
    MapsFirstPages
CHECK_DEADLOCK FALSE
