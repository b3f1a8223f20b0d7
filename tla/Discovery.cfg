SPECIFICATION FairSpec
CONSTANTS
    Participants = {p1}
    EntityIds = {e1}
    AgreeFound = {e1}
    AgreeScanned = {e1}
    Silent = {}
    Entries = {w1}
    Threads = {t1, t2}
    Lease = 1
    Window = 1
    PurgeAt = 2
    MaxPending = 2
    MaxSedp = 2
    p1 = p1
    e1 = e1
    w1 = w1
    t1 = t1
    t2 = t2
INVARIANTS TypeOK NoMissedMatch
PROPERTIES GoneIsForgotten
