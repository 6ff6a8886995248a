CONSTANTS
    Tasks = {t1, t2, t3}
    NoTask = NoTask
    Signals = {s1}
    MaxForbid = 1
    Calls = {"forbid", "rem_task", "fail", "code"}
SPECIFICATION Spec
SYMMETRY Symmetry
INVARIANTS
    TasksPlaced
    SignalsArrive
    RightTaskRuns
PROPERTIES
    ForbidKeepsTask
