SPECIFICATION RouterSpec

CONSTANTS
    Names = {"A", "B", "C"}
    Symbols = {1}
    Epochs = {1, 5}
    CounterBits = {0, 2}
    IdWidth = 4
    MaxCounterBits = 3
    VenueLimit = 2
    Configs <- MCConfigs

INVARIANTS
    
    RoutesLead

PROPERTY
    ConfiguredInFull
