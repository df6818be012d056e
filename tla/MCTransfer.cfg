SPECIFICATION FairSpec
CONSTANTS
    Bytes = {0, 1}
    Zero = 0
    MaxLen = 3
    MaxOthers = 1
    MaxCrashes = 1
    Powers <- MCPowers
    MinIo = 2
    DefIo = 4
    MaxIo = 8
    FloorIo = 1
    InitIo <- MCInitIo
    Announced <- MCAnnounced
INVARIANTS
    TypeOK
    SizesUsable
    ReadReplyTrue
    WriteReplyTrue
    DirectWritesSurvive
PROPERTIES
    WritesInPlace
    TransferEnds
