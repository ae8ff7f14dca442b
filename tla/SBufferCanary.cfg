\* Two buffers with canaries of two cells: what the calls guarantee and promise.
CONSTANTS
    b1 = b1
    b2 = b2
    NULL = NULL
    Bufs <- TwoBuffers
    Capacity <- MCCapacity
    Texts <- MCTexts
    Sizes = {0, 1, 3, 21}
    Values = {65}
    SizeMax = 20
    CanarySize = 2
SPECIFICATION Spec
VIEW View
INVARIANTS
    TypeOK
    NoFalseAlarm
    DamageStaysVisible
    ShowsAString
PROPERTIES
    DamagedIsLeftAlone
    StaysGuarded
    ErrorKeepsContent
    Implements
CHECK_DEADLOCK FALSE
