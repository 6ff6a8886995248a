CONSTANTS
    PortAddrs = {a1, a2}
    Messages = {m1}
    Packets = {p1}
    IORequests = {io1}
    Nobody = Nobody
    Gone = Gone
    ReuseOwn = FALSE
    MhLower = 8
    MhUpper = 64
    Requests = {0, 1, 8, 12, 16, 24}
    MemUnits = 5
    PoolKinds <- Kinds
    PoolSizes = {1, 2, 3}
    MaxPools = 2
    MaxPuddles = 3
    AmiTasks = {t1}
    BareTasks = {t2, t3}
    Shared = Shared
    NumSignals = 5
    Reserved = {0, 1}
    SemAddrs = {s1, s2}
    SemNames = {x1, x2}
    NoName = NoName
    Slices = {0, 1, 2}
    RunCycles = 2
    StackTop = 7
    OwnTop = 11
    RegVals = {0, 1}
    MaxNesting = 2
    MaxCycles = 4
    lib1 = lib1
    lib2 = lib2
    lib3 = lib3
    nop = nop
    swap = swap
    peek = peek
    LibNames = {lib1, lib2, lib3}
    Fd <- FdFiles
    Impl <- Methods
    MaxTraps = 6
    MaxLibs = 4
    Args <- ProxyArgs
    Results <- ProxyResults
    Width = 4
    NoMethod = NoMethod
    NoLib = NoLib
    TagMems <- TagLists
    TagArrays <- Arrays
    TagTables <- PackTables
    CloneAt = 10
    StructSize = 8
    ByteBits = 1
    ListAt = 1
    List2At = 7
    UserTags = {6, 7}
SPECIFICATION IpcSpec
SYMMETRY Symmetry
CHECK_DEADLOCK FALSE
INVARIANTS
    MailSafe
    MhSound
    PoolsSound
    RunsNest
    StubsReach
    
    NumbersExclusive
PROPERTIES
    PortsFifo
