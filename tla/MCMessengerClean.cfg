CONSTANTS
    Peers = {a, b}
    NoKey = NoKey
    Zero = Zero
    Malformed = {b}
    Plain = Plain
    Unreadable = Unreadable
    ClockCollides = FALSE
    MaxSends = 1
    MaxInvites = 2
    MaxCrashes = 0
    MaxFaults = 1
SPECIFICATION FairSpec
INVARIANTS
    NothingInTheClear
PROPERTIES
    QueuedIsDelivered
    HellosEnd
    InviteConnectsBoth
CHECK_DEADLOCK FALSE
