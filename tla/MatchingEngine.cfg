SPECIFICATION FairSpec
CONSTANTS
    Prices = {1, 2}
    OrderIds = {1, 2}
    Quantities = {0, 1, 2}
    MaxNodes = 3
INVARIANTS
    Uncrossed
    IndexSound
PROPERTIES
    StaysCancellable
    StrictPriority
    SubmitReturns
