SPECIFICATION FairSpec
CONSTANTS
    Radix = 256
    Block = 21
    BodySizes <- MCBodySizes
    Streams <- MCStreams
    MaxBody = 9
    CompactAt = 9
    SeqLimit = 76
    MaxResets = 1
    MaxFrames = 2
    Damage = {9, 75}
    Hit = {0, 1, 2, 3, 4, 5, 6, 7}
INVARIANTS
    SplitsDoNotMatter
    IntactAreDecoded
    NoSilentLoss
PROPERTY
    NextReturns
