SPECIFICATION Spec
CONSTANTS
    Entry = {e1, e2}
    Producer = {router}
    Capacity = 4
    MaxPush = 7
    NoEntry = NoEntry
INVARIANTS TypeOK NoSlotRace
PROPERTY FifoSpec
CHECK_DEADLOCK FALSE
