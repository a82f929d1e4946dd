CONSTANTS
    Chats = {c1}
    Ids = {m1}
    Statuses = {"sent", "delivered"}
    MaxProfiles = 2
SPECIFICATION Spec
PROPERTIES
    ActivationLeavesActive
