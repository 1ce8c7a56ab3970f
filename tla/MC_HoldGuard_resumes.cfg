SPECIFICATION FairSpec
CONSTANTS
    f1 = f1
    f2 = f2
    f3 = f3
    File <- ThreeFiles
    Peer = {p1}
    Own = own
    HoldDeletePercent = 50
    HoldDeleteMin = 2
    MayBeTaken = TRUE
    MaxFolderChanges = 2
    MaxPeerChanges = 1
    MaxConfirms = 1
    MaxAccessChanges = 1
    MaxFaults = 0
PROPERTIES FixedFolderClears PassesResume
