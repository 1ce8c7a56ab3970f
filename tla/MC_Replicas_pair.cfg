SPECIFICATION FairSpec
CONSTANTS
    Hub = 0
    Spoke <- OneSpoke
    Node <- HubAndOne
    Permission = "read-write"
    Mode <- TwoWay
    Editor = {0, 1}
    Base = {f}
    MTimes = {0, 1}
    InvalidPath = {}
    MTimesPerSecond = 2
    ShasPerPrefix = 1
    NoRow = NoRow
    ScansOverlap = FALSE
    MaxCounter = 3
    MaxEdits = 2
    MaxRemoves = 0
    MaxFaults = 0
    MaxRestores = 0
INVARIANTS TypeOK CopyVersionIdentifiesContent
PROPERTY Converges
CHECK_DEADLOCK FALSE
