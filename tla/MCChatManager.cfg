CONSTANTS
    Chats = {c, d}
    Capacity = 2
    MaxMessages = 2
    MaxFaults = 2
SPECIFICATION Spec
INVARIANTS
    EventsTellTheStore
    ReportedIsSent
PROPERTIES
    OnlyReturnTakesBack
SYMMETRY Symmetric
CHECK_DEADLOCK FALSE
