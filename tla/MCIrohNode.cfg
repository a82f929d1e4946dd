CONSTANTS
    Nodes = {a, b}
    Senders = {loop}
    Initiators = {a, b}
    MaxWrites = 2
    MaxConns = 2
    MaxEnds = 1
SPECIFICATION Spec
INVARIANTS
    TypeOK
    OneReaderPerPeer
    SoleLinksAreRead
PROPERTIES
    ImplementsTransport
    ShutDownIsFinal
CHECK_DEADLOCK FALSE
