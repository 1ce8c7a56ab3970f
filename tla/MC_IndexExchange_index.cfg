SPECIFICATION Spec
CONSTANTS
    Path = {p, q}
    Pusher = {"push1"}
    PageSize = 1
    LaneDepth = 2
    ReceiverAsks = TRUE
    MaxSeq = 2
    Events = {"pass", "prune", "ignore", "forget", "drop", "stage", "count", "commit", "delta"}
    MaxEvents = 2
INVARIANTS TypeOK CursorSound QuietMeansCaughtUp
CHECK_DEADLOCK FALSE
