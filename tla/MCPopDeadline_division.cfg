SPECIFICATION Spec
CONSTANTS
    Secs <- MCSecs
    Usecs <- MCUsecs
    Timeouts <- MCTimeouts
    Microsecond = 1000
    Millisecond = 1000000
    Second = 1000000000
CHECK_DEADLOCK FALSE
INVARIANTS NormalisedAsByDivision
