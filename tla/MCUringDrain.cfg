SPECIFICATION FairSpec
CONSTANTS
    Handlers = {"io_uring"}
    Conns = {c1, c2}
    FrameUnits = 2
    ReadUnits = 3
    MaxEvents = 2
    Capacity = 1
    Rejected <- MCRejected
    LoadsInOrder = TRUE
    Faults = FALSE
    Prompt = TRUE
    MaxUnits = 2
    Busy = c1
INVARIANT
    NothingMoreIsComing
CHECK_DEADLOCK FALSE
