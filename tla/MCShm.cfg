SPECIFICATION MCSpec
CONSTANTS
    Procs = {p1, p2}
    Slots = {s1, s2}
    Sizes = {0, 1, 2}
    Considerate = TRUE
    MaxSegments = 2
    Values = {a, b}
    NoValue = NoValue
    Capacity = 2
    Width = 8
    OldIndex = {0, 3}
    MaxRefused = 1
    Depth = 2
    stream_count = 5
    warmup = 2
    rtt_iters = 3
INVARIANTS
    MappingFits
    NameMeansCreator
    BoundIsWhole
    CorruptionIsForeign
    VerdictIsTrue
    DepthIsOne
PROPERTIES
    SurvivesDeaths
    BothEnd
CHECK_DEADLOCK FALSE
