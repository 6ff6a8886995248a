CONSTANTS
    CodecBlocks <- Blocks
    MaxLost = 4
    HunkAlphabet <- Alphabet
    HunkBound <- Bound
    HeaderSizes = {1, 2}
    SegImages <- Images
    MemLongs = 16
    MaxLists = 4
    ByteBase = 16
    Kib = 8
    SmallKib = 12
    SegSize = 64
    TableEnd = 120
    KickAddr = 3968
    ExtAddr = 3584
    FillByte = 15
    HDR_256K = 4585
    HDR_512K = 5353
    TableAddrs <- Addrs
    MatchWord <- MatchWord_
    Con <- Con_
    RomFiles <- Files
    RomOptions <- Options
    RomPatches <- Patches
    MaxFiles = 4
SPECIFICATION BinSpec
CHECK_DEADLOCK FALSE
INVARIANTS
    BlocksReadBack
    FilesGrouped
    LoadedRight
    RomsRight
