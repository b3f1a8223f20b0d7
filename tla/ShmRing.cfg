SPECIFICATION Spec
CONSTANTS
    Readers = {r1}
    Capacity = 2
    Payload = {"p", "q"}
    Large = {3}
    MarkFirst = TRUE
    MaxMsg = 6
INVARIANTS TypeOK WakeCovered
PROPERTY BroadcastSpec
CHECK_DEADLOCK FALSE
