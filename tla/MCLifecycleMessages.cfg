SPECIFICATION Spec
CONSTANTS
    MaxProfiles = 2
    MaxSwitches = 2
    MaxInvites = 1
    MaxMessages = 1
    MaxEvents = 0
INVARIANTS
    MessagesUnderOwner
