\* A screen that is wider than it is high.
SPECIFICATION KernelSpec
CONSTANTS
    Screens <- WideScreens
INVARIANTS
    ScreenCleared
CHECK_DEADLOCK FALSE
