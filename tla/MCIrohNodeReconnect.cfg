CONSTANTS
    Nodes = {a, b}
    Senders = {loop}
    Initiators = {a}
    MaxWrites = 2
    MaxConns = 3
    MaxEnds = 1
SPECIFICATION Spec
INVARIANTS
    SettledLinksAreRead
CHECK_DEADLOCK FALSE
