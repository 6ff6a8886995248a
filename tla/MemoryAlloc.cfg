CONSTANTS
    Addr = 4
    Size = 28
    Owners = {o1, o2, o3, o4}
    NoMem = NoMem
    Sizes = {1, 4, 7, 12}
SPECIFICATION Spec
INVARIANTS
    BlocksSafe
    PoolAccounted
PROPERTIES
    ImplementsAllocator
