SPECIFICATION Spec
CONSTANTS
    Hub = 0
    Spoke <- OneSpoke
    Node <- HubAndOne
    Permission = "read-write"
    Mode <- TwoWay
    Editor = {0, 1}
    Base = {f}
    MTimes = {0}
    InvalidPath = {}
    MTimesPerSecond = 2
    ShasPerPrefix = 1
    NoRow = NoRow
    ScansOverlap = FALSE
    MaxCounter = 2
    MaxEdits = 2
    MaxRemoves = 1
    MaxFaults = 1
    MaxRestores = 0
INVARIANTS VersionIdentifiesContent 
PROPERTY PassesNeverRegress
CHECK_DEADLOCK FALSE
