\* audit job
CONSTANTS
    u1 = u1
    u2 = u2
    u3 = u3
    Parts = {"job"}
    Job = "audit"
    Runners <- One
    Retention = 1
    TTL = 9
    Delay = 1
    PerSecond = 2
    BatchSize = 2
    MaxBatches = 2
    Period = 0
    Failing = {}
    MaxTime = 6
SPECIFICATION MCSpec
INVARIANTS
    Kept
