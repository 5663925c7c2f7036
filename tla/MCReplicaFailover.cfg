SPECIFICATION MCSpec
CONSTANTS
    t1 = t1
    t2 = t2
    N = 3
    Threads <- TwoThreads
    MaxMoves = 3
INVARIANTS
    
    ServesFromHealthy
PROPERTIES
    CallEnds
CHECK_DEADLOCK FALSE
