CONSTANTS
    Peers = {a, b}
    NoKey = NoKey
    Zero = Zero
    Malformed = {}
    Plain = Plain
    Unreadable = Unreadable
    ClockCollides = TRUE
    MaxSends = 2
    MaxInvites = 2
    MaxCrashes = 0
    MaxFaults = 0
SPECIFICATION Spec
INVARIANTS
    MemoryMatchesDb
CHECK_DEADLOCK FALSE
