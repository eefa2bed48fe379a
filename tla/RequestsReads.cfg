INIT Init
NEXT Next
CONSTANTS
    m1 = m1
    m2 = m2
    l1 = l1
    t1 = t1
    None = None
    Requests = {m1, m2, l1}
    ReadOnly = {l1}
    Tasks = {t1}
    WorkspaceTasks = {t1}
    ChanCap = 1
SYMMETRY Symmetry
PROPERTIES
    ReadsNeverWait
CHECK_DEADLOCK FALSE
