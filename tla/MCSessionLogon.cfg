SPECIFICATION FairCallerSpec
CONSTANTS
    NextInboundSeq = 1
    NextOutboundSeq = 1
    HeartbeatMs = 1
    MaxSeq = 3
    Inputs <- MCInputs
    MaxQueued = 2
    MaxOut = 2
PROPERTY
    ActsOnlyAfterLogon
