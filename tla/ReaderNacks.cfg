CONSTANTS
    Writers = {w1}
    Volatile = TRUE
    Depth = 3
    MaxRanges = 1
    MaxRetries = 2
    MaxSeq = 4
    MaxHb = 2
SPECIFICATION Spec
INVARIANTS TypeOK  TimerCovers RequestedOnce
CHECK_DEADLOCK FALSE
