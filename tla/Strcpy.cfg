\* strcpy on any memory of four bytes.
SPECIFICATION StringSpec
CONSTANTS
    Bytes = 4
    Chars = {0, 1}
    MaxArgs = 1
INVARIANTS
    StrcpyCopies
CHECK_DEADLOCK FALSE
