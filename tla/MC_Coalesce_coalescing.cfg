SPECIFICATION Spec
CONSTANTS
    Share = s1
    Caller = {c1}
    MaxEdits = 2
    MaxFolders = 2
    MaxFaults = 1
    Key = {k1, k2, k3}
    NoKey = NoKey
    Worker = {w1, w2}
    Slots = 1
    MaxPending = 2
INVARIANTS QueueInv CallerSees 
PROPERTIES JobsCoalesce ScansCoalesce EditsNoticed
CHECK_DEADLOCK FALSE
