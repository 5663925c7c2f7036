CONSTANTS
    u1 = u1
    u2 = u2
    u3 = u3
    Parts = {"job", "audit"}
    Job = "eval"
    Runners <- Two
    Retention = 1
    TTL = 4
    Delay = 1
    PerSecond = 2
    BatchSize = 1
    MaxBatches = 2
    Period = 2
    Failing <- Everything
    MaxTime = 6
SPECIFICATION MCSpec
SYMMETRY RunnerSymmetry
INVARIANTS
    EvalKept
    RetentionTimely
    InOneObject
