SPECIFICATION FairSpec
CONSTANTS
    r1 = r1
    r2 = r2
    b1 = b1
    empty = empty
    Requests <- TwoRequests
    Bodies <- OneBody
    EmptyBody <- empty
    Budget = 5
    MaxCost = 1
    FailureThreshold = 2
    RecoveryTime = 1
    MaxFailures = 3
INVARIANTS
    ProxySafe
PROPERTIES
    AdmitsAgain
