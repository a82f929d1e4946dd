CONSTANTS
    Peers = {a, b}
    NoKey = NoKey
    Zero = Zero
    Malformed = {}
    Plain = Plain
    Unreadable = Unreadable
    ClockCollides = FALSE
    MaxSends = 2
    MaxInvites = 2
    MaxCrashes = 2
    MaxFaults = 0
SPECIFICATION Spec
INVARIANTS
    CachedKeyIsCurrent
CHECK_DEADLOCK FALSE
