SPECIFICATION FairSpec
CONSTANTS
    Hub = 0
    Spoke <- OneSpoke
    Node <- HubAndOne
    Permission = "read-write"
    Mode <- ReceiveOnly
    Editor = {0, 1}
    Base = {f}
    MTimes = {0, 1}
    InvalidPath = {}
    MTimesPerSecond = 2
    ShasPerPrefix = 1
    NoRow = NoRow
    ScansOverlap = FALSE
    MaxCounter = 6
    MaxEdits = 4
    MaxRemoves = 0
    MaxFaults = 0
    MaxRestores = 1
 
PROPERTY ReceiveOnlyFollows
CHECK_DEADLOCK FALSE
