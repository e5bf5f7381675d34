SPECIFICATION FairCallerSpec

CONSTANTS
    NextInboundSeq = 1
    NextOutboundSeq = 0
    HeartbeatMs = 2
    MaxSeq = 3
    Inputs <- MCInputs
    MaxQueued = 2
    MaxOut = 2

INVARIANTS
    ReleasedInOrder
    
    ActedInOrder

PROPERTIES
    NoSilentSkip
    NothingHeldIsLost
    DeadOnlyAfterInterval
    SilentPeerIsDropped
