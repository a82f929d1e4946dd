SPECIFICATION Spec
CONSTANTS
    MaxProfiles = 1
    MaxSwitches = 0
    MaxInvites = 0
    MaxMessages = 0
    MaxEvents = 1
INVARIANTS
    ConnectingIsTrue
