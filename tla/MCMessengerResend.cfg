CONSTANTS
    Peers = {a, b}
    NoKey = NoKey
    Zero = Zero
    Malformed = {}
    Plain = Plain
    Unreadable = Unreadable
    ClockCollides = FALSE
    MaxSends = 1
    MaxInvites = 1
    MaxCrashes = 1
    MaxFaults = 0
SPECIFICATION FairSpec
PROPERTIES
    MissedIsResent
CHECK_DEADLOCK FALSE
