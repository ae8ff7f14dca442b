\* size_t of twice SizeMax plus two, as on 32-bit builds: 2^10 and 2^9-1 here.
CONSTANTS
    SizeMax = 511
    CanarySize = 0
    SmallestAllocation = 8
    ShrinkPercent = 20
    MaxCredit = 0
    SizeT = 1024
SPECIFICATION Spec
PROPERTIES
    ShrinksOnlyBelowThreshold
CHECK_DEADLOCK FALSE
