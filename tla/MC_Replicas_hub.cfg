SPECIFICATION Spec
CONSTANTS
    Hub = 0
    Spoke <- TwoSpokes
    Node <- HubAndTwo
    Permission = "read-write"
    Mode <- TwoWay
    Editor = {1, 2}
    Base = {f}
    MTimes = {0}
    InvalidPath = {}
    MTimesPerSecond = 2
    ShasPerPrefix = 1
    NoRow = NoRow
    ScansOverlap = FALSE
    MaxCounter = 1
    MaxEdits = 2
    MaxRemoves = 0
    MaxFaults = 0
    MaxRestores = 0
INVARIANT VersionIdentifiesContent
CHECK_DEADLOCK FALSE
