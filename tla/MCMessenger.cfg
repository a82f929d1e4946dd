CONSTANTS
    Peers = {a, b}
    NoKey = NoKey
    Zero = Zero
    Malformed = {}
    Plain = Plain
    Unreadable = Unreadable
    ClockCollides = FALSE
    MaxSends = 2
    MaxInvites = 1
    MaxCrashes = 2
    MaxFaults = 1
SPECIFICATION Spec
INVARIANTS
    TypeOK
    MemoryMatchesDb
    MessagesHaveChat
    ListedIsSaved
    ViewShowsChat
    EveryMessageReadable
PROPERTIES
    ImplementsConversation
SYMMETRY Symmetric
CHECK_DEADLOCK FALSE
