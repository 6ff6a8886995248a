CONSTANTS
    Tasks = {t1, t2}
    VLibs = {"vamos"}
    ALibs = {"native", "other"}
    Modes <- MixedModes
    Preempt = FALSE
    MaxAddr = 3
    MaxOpen = 2
SPECIFICATION Spec
INVARIANTS
    LibrariesSound
