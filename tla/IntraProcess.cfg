SPECIFICATION Spec
CONSTANTS
    r1 = r1
    r2 = r2
    Reader = {r1, r2}
    s1 = s1
    s2 = s2
    s3 = s3
    Slot = {s1, s2, s3}
    RingCap = 1
    Depth = 1
    Durable = {TRUE, FALSE}
    Remote = {TRUE, FALSE}
    MayDrop = TRUE
    MaxSeq = 3
SYMMETRY Symmetry
INVARIANTS TypeOK HandlesIntactSoleReader NoSlotLeakAlive StoredServed
\* every sample has been written and taken
CHECK_DEADLOCK FALSE
