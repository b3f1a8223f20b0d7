SPECIFICATION Spec
CONSTANTS
    MaxSeq = 2
    Depth = 1
    MaxInline = 1
    MaxCount = 2
    MaxLoss = 0
    MaxDup = 1
    MaxMatch = 1
    Volatile = TRUE
INVARIANTS TypeOK NoPrematureGap
