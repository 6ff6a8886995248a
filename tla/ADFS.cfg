CONSTANTS
    n1 = n1
    n2 = n2
    n3 = n3
    short = short
    long = long
    NumBlocks = 7
    Root = 4
    LongBits = 4
    HashSize = 2
    PtrsPerBlk = 1
    CacheRecords = 3
    Names = {n1, n2, n3}
    DirNames = {n1}
    Hash <- OneBucket
    Contents = {short, long}
    DataBlks <- Lengths
    DirCaches = {TRUE, FALSE}
    Wipes = {TRUE}
SPECIFICATION Spec
SYMMETRY Symmetry
INVARIANTS
    DiskSound
PROPERTIES
    NoNewLeaks
    ImplementsTree
