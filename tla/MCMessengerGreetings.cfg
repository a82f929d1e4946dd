CONSTANTS
    Peers = {a, b}
    NoKey = NoKey
    Zero = Zero
    Malformed = {}
    Plain = Plain
    Unreadable = Unreadable
    ClockCollides = FALSE
    MaxSends = 0
    MaxInvites = 2
    MaxCrashes = 2
    MaxFaults = 1
SPECIFICATION FairSpec
PROPERTIES
    HellosEnd
CHECK_DEADLOCK FALSE
