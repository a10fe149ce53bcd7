SPECIFICATION Spec
CONSTANTS
    Byte <- MCByte
    HeaderSize = 2
    ReadBodyLength <- MCReadBodyLength
    CompactThreshold = 2
    BodyLimits = {1, 2}
    Chunks <- MCChunks
    MaxStream = 9
INVARIANTS TypeOK BufferIsSuffix HandledFramesTile DrainedAtReturn BufferBounded
PROPERTIES FeedEnds ImplementsFrameStream
