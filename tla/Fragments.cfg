CONSTANTS
    NumFrags = 2
    Hbfs = 1
    MaxPending = 1
    Stale = 2
    Timeout = 3
    Depth = 1
    CachedForm = "wire"
    MaxLarge = 2
    MaxLoss = 3
    MaxDup = 1
SPECIFICATION FragSpec
INVARIANTS FragTypeOK BufferBounded
PROPERTIES Recovered Quiesces
CHECK_DEADLOCK FALSE
