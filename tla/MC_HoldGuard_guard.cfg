SPECIFICATION Spec
CONSTANTS
    f1 = f1
    f2 = f2
    f3 = f3
    File <- ThreeFiles
    Peer = {p1}
    Own = own
    HoldDeletePercent = 50
    HoldDeleteMin = 2
    MayBeTaken = FALSE
    MaxFolderChanges = 2
    MaxPeerChanges = 2
    MaxConfirms = 1
    MaxAccessChanges = 1
    MaxFaults = 1
SYMMETRY Interchangeable
INVARIANTS TypeOK StoreMirrorsMemory ConfirmedIsConfirmable NeverPartlyUndone
