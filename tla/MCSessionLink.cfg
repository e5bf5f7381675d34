SPECIFICATION LinkSpec

CONSTANTS
    NextInboundSeq = 1
    NextOutboundSeq = 1
    HeartbeatMs = 1
    Inputs <- NoInputs
    MaxQueued = 8
    MaxOut = 4
    MaxSent = 6
    Faults <- OneKind

INVARIANTS
    PassedIsActed
    RecoveringWasRequested

PROPERTY
    RecoveryCompletes

CHECK_DEADLOCK FALSE
