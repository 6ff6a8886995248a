CONSTANTS
    Tasks = {t1, t2, t3}
    NoTask = NoTask
    Signals = {s1}
    MaxForbid = 2
    Calls = {"forbid", "fail"}
    n1 = n1
    Lists = {l1, l2}
    Nodes = {n1, n2, n3}
    Priority <- Pri
    Null = Null
SPECIFICATION TaskListSpec
SYMMETRY Symmetry
INVARIANTS
    ExecMirrors
PROPERTIES
    EnqueueKeepsOrder
    ImplementsSequences
