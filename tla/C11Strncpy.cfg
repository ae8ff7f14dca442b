\* A memory of four bytes.
CONSTANTS
    NULL = NULL
    MemSize = 4
    SizeMax = 4
    CanarySize = 0
    Chars = {0, 1}
    Values <- MCValues
    Message <- MCShortMessage
    Unknown <- MCUnknown
SPECIFICATION Spec
PROPERTIES
    ShortDestinationIsRejected
