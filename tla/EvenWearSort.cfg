SPECIFICATION Spec
CONSTANTS
    N = 4
    Hours = {0, 1, 2}
INVARIANTS EndsSortedAndStable
CHECK_DEADLOCK FALSE
