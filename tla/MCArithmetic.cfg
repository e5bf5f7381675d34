SPECIFICATION MCSpec
CONSTANTS
    Width = 4
    max_order_qty = 3
    max_position = 4
    reference_price = 2
    price_band = 3
    Radix = 8
    Block = 2
    BodySizes <- NoBodySizes
    MaxLen = 5
    ValueBits = 5
    sub_bits_ = 3
    MaxSamples = 3
INVARIANTS
    PositionWithinLimit
    ChecksumIsResidue
    
CHECK_DEADLOCK FALSE
