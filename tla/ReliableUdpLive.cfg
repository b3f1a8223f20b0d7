SPECIFICATION FairSpec
CONSTANTS
    MaxSeq = 2
    Depth = 1
    MaxInline = 0
    MaxCount = 2
    MaxLoss = 2
    MaxDup = 0
    MaxMatch = 0
    Volatile = FALSE
PROPERTY OldestDelivered
