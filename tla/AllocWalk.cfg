\* size_t wide enough for the products of the policy (64-bit builds).
CONSTANTS
    SizeMax = 60
    CanarySize = 0
    SmallestAllocation = 8
    ShrinkPercent = 20
    MaxCredit = 120
    SizeT = 100000
SPECIFICATION Spec
INVARIANTS
    Suffices
    BoundedWaste
    CopiesArePaid
PROPERTIES
    NoThrash
CHECK_DEADLOCK FALSE
