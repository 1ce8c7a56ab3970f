SPECIFICATION FairSpec
CONSTANTS
    Approval = {TRUE, FALSE}
    Races = FALSE
    MaxOps = 3
    MaxConnects = 2
INVARIANTS
    TypeOK
    Authorised
    
    QueueIsOfStrangers
PROPERTIES
    ApprovalGates
    Agrees
CHECK_DEADLOCK FALSE
