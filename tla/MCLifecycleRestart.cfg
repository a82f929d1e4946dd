SPECIFICATION FairSpec
CONSTANTS
    MaxProfiles = 2
    MaxSwitches = 2
    MaxInvites = 0
    MaxMessages = 0
    MaxEvents = 0
PROPERTIES
    AutoRestarts
