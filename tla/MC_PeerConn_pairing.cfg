SPECIFICATION FairSpec
CONSTANTS
    Node <- MCNode
    Higher <- MCHigher
    Slot = {1}
    None <- MCNone
    WarnAfter = 2
    Handlers = 1
    Prompt = TRUE
    MaxEvents = 1
INVARIANTS
    StatusTruthful
    
PROPERTIES
    
    Connects
    TearsDown
CHECK_DEADLOCK FALSE
