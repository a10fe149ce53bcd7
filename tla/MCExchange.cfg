SPECIFICATION Spec
CONSTANTS
    IntSize = 2
    LongSize = 3
    MaxCollection = 3
    MaxString = 6
    MaxDepth = 2
    InitialOwned = 4
    EpochTicks = 600000
    NsPerTick = 100
    Catalog <- MCCatalog
    Floats <- MCFloats
    GuidTexts <- MCGuidTexts
    TimePoints <- MCTimePoints
    Durations <- MCTimePoints
    TickCounts <- MCTickCounts
    FixedSizes = {3}
    DamageBytes = {0, 1, 2, 128, 237, 250, 255}
INVARIANTS
    TypeOK
    ReadsBack
    TruncationReported
    StringsTranscoded
    ConversionsFaithful
