SPECIFICATION FairSpec
CONSTANTS
    Handlers = {"epoll", "io_uring"}
    Conns = {c1, c2}
    FrameUnits = 2
    ReadUnits = 3
    MaxEvents = 2
    Capacity = 1
    Rejected <- MCRejected
    LoadsInOrder = TRUE
    Faults = TRUE
    Prompt = FALSE
    MaxUnits = 4
    Busy = c1
INVARIANTS
    NoOrderLost
    ArrivedIsRead
    OneRequestEach
PROPERTY
    StopsAfterSignal
CHECK_DEADLOCK FALSE
