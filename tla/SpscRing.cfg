SPECIFICATION FairSpec
CONSTANTS
    Values = {a, b}
    NoValue = NoValue
    Capacity = 4
    Width = 8
INVARIANTS
    NoDataRace
PROPERTIES
    ImplementsFifo
    ConsumerDrains
