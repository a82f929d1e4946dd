CONSTANTS
    Chats = {c, d}
    Capacity = 3
    MaxMessages = 2
    MaxFaults = 0
SPECIFICATION Spec
INVARIANTS
    AckSettlesStatus
SYMMETRY Symmetric
CHECK_DEADLOCK FALSE
