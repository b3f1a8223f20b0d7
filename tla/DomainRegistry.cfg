SPECIFICATION RegistrySpec
CONSTANTS
    w1 = w1
    w2 = w2
    r1 = r1
    r2 = r2
    r3 = r3
    zero = zero
    Writer = {w1, w2}
    Reader = {r1, r2, r3}
    ZeroGuid = zero
    Bare = {w2}
    Reliable = {w1, r1, r2}
INVARIANTS RegistryTypeOK BoundUnlessTakenOut
\* endpoints come and go until all have been created and dropped
CHECK_DEADLOCK FALSE
