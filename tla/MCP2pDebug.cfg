CONSTANTS
    PoolSize = 3
    MaxLosses = 2
SPECIFICATION Spec
INVARIANTS
    PassMeansReceived
CHECK_DEADLOCK FALSE
