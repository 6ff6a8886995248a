CONSTANTS
    Tasks = {t1, t2}
    VLibs = {}
    ALibs = {"one"}
    Modes <- NativeModes
    Preempt = TRUE
    MaxAddr = 2
    MaxOpen = 1
SPECIFICATION Spec
INVARIANT
    NoAssertion
