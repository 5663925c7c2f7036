SPECIFICATION FairSpec
CONSTANTS
    c1 = c1
    c2 = c2
    c3 = c3
    Callers <- MCCallers
    FailureThreshold = 2
    RecoveryTime = 2
    MaxFailures = 6
    Outcomes <- AllOutcomes
INVARIANTS
    BreakerSafe
PROPERTIES
    BreakerSteps
    AdmitsUnlessOrphaned
CHECK_DEADLOCK FALSE
