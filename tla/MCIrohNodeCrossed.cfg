CONSTANTS
    Nodes = {a, b}
    Senders = {loop}
    Initiators = {a, b}
    MaxWrites = 2
    MaxConns = 3
    MaxEnds = 0
SPECIFICATION Spec
INVARIANTS
    SettledLinksAreRead
CHECK_DEADLOCK FALSE
