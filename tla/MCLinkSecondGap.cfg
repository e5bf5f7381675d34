SPECIFICATION LinkSpec
CONSTANTS
    NextInboundSeq = 1
    NextOutboundSeq = 1
    HeartbeatMs = 1
    Inputs <- NoInputs
    MaxQueued = 8
    MaxOut = 2
    MaxSent = 5
    Faults <- TwoLost
INVARIANT
    RecoveringWasRequested
CHECK_DEADLOCK FALSE
