SPECIFICATION Spec
CONSTANTS
    IntSize = 1
    MaxCollection = 2
    MaxString = 2
    MaxDepth = 2
    Byte <- MCByte
    HeaderByte = {0, 1, 2, 3, 254, 255}
    MaxInput = 5
    Known = 2
    Builds = {TRUE, FALSE}
    Garbage = {0, 3}
CHECK_DEADLOCK FALSE
INVARIANTS TypeOK ReadAtRecordedOffset EndsBehindObject
