CONSTANTS
    Peers = {a, b}
    NoKey = NoKey
    Zero = Zero
    Malformed = {}
    Plain = Plain
    Unreadable = Unreadable
    ClockCollides = FALSE
    MaxSends = 1
    MaxInvites = 2
    MaxCrashes = 0
    MaxFaults = 0
SPECIFICATION Spec
INVARIANTS
    AckMeansSaved
CHECK_DEADLOCK FALSE
