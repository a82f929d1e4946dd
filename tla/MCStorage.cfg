CONSTANTS
    Chats = {c1, c2}
    Ids = {m1, m2}
    Statuses = {"sent", "delivered"}
    MaxProfiles = 2
SPECIFICATION Spec
INVARIANTS
    TypeOK
    OneActiveProfile
    NoOrphans
    DenseNumbering
    DeleteNeverRefused
PROPERTIES
    RowsKeepTheirPlace
    ProfilesIsolated
    ImplementsChatLog
SYMMETRY Symmetric
