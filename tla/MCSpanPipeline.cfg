SPECIFICATION FairSpec
CONSTANTS
    t1 = t1
    t2 = t2
    NoTrace = NoTrace
    NoStamp = NoStamp
    Traces <- MCTraces
    LateTraces = {t1}
    Offers <- MCOffers
    RingSize = 2
    MaxCount = 2
    MaxTraceAgg = 2
    CostThreshold = 1
    NExporters = 2
    MaxOffers = 4
INVARIANTS
    PipelineSafe
    TracesAccounted
PROPERTIES
    DeliverySpec
    ShutdownEnds
CHECK_DEADLOCK FALSE
