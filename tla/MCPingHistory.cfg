SPECIFICATION Spec
CONSTANTS
    fast = fast
    slow = slow
    Tasks = {fast, slow}
    Interval <- Intervals
    MaxDelay = 0
    MaxTime = 30
CONSTRAINT Steady
INVARIANT SoonerIsResend
CHECK_DEADLOCK FALSE
