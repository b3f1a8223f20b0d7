SPECIFICATION FairSpec
CONSTANTS
    c1 = c1
    c2 = c2
    t1 = t1
    t2 = t2
    NoCond = NoCond
    Cond = {c1, c2}
    Thread = {t1, t2}
    NSlots = 2
    MaxSamples = 1
    Discards = TRUE
    Detachable = {c2}
    Timeouts = TRUE
    MayNotify = TRUE
INVARIANTS TypeOK NoLostSignal NeverSleepsTriggered
PROPERTY TriggeredReturns
