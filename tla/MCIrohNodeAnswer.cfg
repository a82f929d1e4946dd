CONSTANTS
    Nodes = {a, b}
    Senders = {loop, modal}
    Initiators = {a}
    MaxWrites = 3
    MaxConns = 2
    MaxEnds = 0
SPECIFICATION FairSpec
PROPERTIES
    WrittenIsReceived
CHECK_DEADLOCK FALSE
