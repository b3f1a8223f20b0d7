SPECIFICATION Spec
CONSTANTS
    Writer = {w1}
    MaxSeq = 4
    Window = 3
    U32Max = 1
    RingCap = 1
    MaxAdmit = 5
INVARIANTS TypeOK NoDuplicateInWindow RefusesOnlySeenOrOld WindowSpacing SlabAccounting
CHECK_DEADLOCK FALSE
