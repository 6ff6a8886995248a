CONSTANTS
    Tasks = {t1, t2, t3}
    NoTask = NoTask
    Signals = {s1}
    MaxForbid = 1
    Calls = {"forbid"}
SPECIFICATION FairSpec
PROPERTIES
    NoStarvation
