CONSTANTS
    Heads = 2
    Secs = 2
    ImgCyls = {3}
    RdbCyls = {1, 2}
    SecPerBlk = {1, 2}
    LoadSegs = {1}
    AdjustArgs <- Adjusts
    RemapArgs <- Remaps
    DeleteFids = {0}
    MaxEdits = 4
    XFiles = {f1, f2}
    XBlocks = {b1, b2, b3}
    Labels = {l1, l2}
    NoImage = NoImage
    NumBlocks = 11
    Reserved = 2
    LongBits = 4
    Healthy <- HealthyVolumes
    MaxDamage = 2
SPECIFICATION DiskSpec
CHECK_DEADLOCK FALSE
INVARIANTS
    RdbSound
    XdfSound
    ScanSound
PROPERTIES
    PartitionsStay
    ScanProgress
