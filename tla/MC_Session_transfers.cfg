SPECIFICATION FairSpec
CONSTANTS
    Node <- MCNode
    Watched = {1}
    Chunks = 1
    PullDepth = 1
    Slots = 1
    UrgentDepth = 1
    CtrlDepth = 1
    DataDepth = 1
    MaxBurst = 1
    AbortsFull = FALSE
    MaxPulls = 1
    MaxWork = 2
    MaxFaults = 1
INVARIANTS
    TypeOK
    PullExact
PROPERTIES
    PullEnds
    
    
CHECK_DEADLOCK FALSE
