SPECIFICATION Spec
CONSTANTS
    MaxProfiles = 2
    MaxSwitches = 1
    MaxInvites = 0
    MaxMessages = 0
    MaxEvents = 1
INVARIANTS
    NoLoopLeftBehind
