SPECIFICATION Spec
CONSTANTS
    None = None
    MonthLengths <- Calendar
    ResetDays = {2}
    MaxBytes = 2
    MaxReboots = 1
    MaxSessions = 2
    MaxFrames = 1
    MaxEdits = 1
    MaxRestarts = 1
INVARIANTS TrafficTypeOK CountedExactly CountedOnceInOrder CycleStartIsLatestTurn 
CHECK_DEADLOCK FALSE
