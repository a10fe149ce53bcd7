SPECIFICATION SamplesSpec
CONSTANTS
    Byte <- MCByte
    HeaderSize = 2
    ReadBodyLength <- ReadHeaderLength
    CompactThreshold = 4
    BodyLimits = {1}
    Chunks = {}
    MaxStream = 18
    Radix = 8
    Packets <- MCPackets
    MaxPackets = 3
    Refused <- MCRefused
    Reply <- MCReply
    RecvSize = 4
    Window = 4
    MaxTraffic = 4
    Tests = 4
    RequestLength <- MCRequestLength
    AnswerLength <- MCAnswerLength
    StreamSize = 3
CHECK_DEADLOCK FALSE
INVARIANTS DeliveredAsWritten AnswersOwed NoDeadHandle ToldOnce OwnAnswer Verdict
PROPERTIES AllAnswered BadPeerClosed StopEnds EndNoticed ClientEnds
