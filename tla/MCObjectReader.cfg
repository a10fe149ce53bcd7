SPECIFICATION Spec
CONSTANTS
    IntSize = 1
    MaxCollection = 2
    MaxString = 2
    MaxDepth = 2
    MaxInput = 5
    Byte <- MCByte
    Members <- MCMembers
CHECK_DEADLOCK FALSE
INVARIANTS TypeOK BuildsAgree DepthIsNesting ReservedBounded
PROPERTIES ErrorIsFinal DecodeEnds
