CONSTANTS
    Nodes = {a, b}
    Senders = {loop, modal}
    Initiators = {a}
    MaxWrites = 2
    MaxConns = 2
    MaxEnds = 1
SPECIFICATION Spec
INVARIANTS
    TypeOK
    OneReaderPerPeer
    SoleLinksAreRead
PROPERTIES
    ImplementsTransport
    ShutDownIsFinal
SYMMETRY SenderSymmetry
CHECK_DEADLOCK FALSE
