SPECIFICATION FairSpec
CONSTANTS
    MaxProfiles = 2
    MaxSwitches = 2
    MaxInvites = 1
    MaxMessages = 1
    MaxEvents = 1
INVARIANTS
    TypeOK
    LiveIsActive
    OneIdentity
    StartedOnce
    OwnNodeUnlessLate
PROPERTIES
    StartsEventually
    OnlyOnboardingStalls
    ForeignKeyIsLate
