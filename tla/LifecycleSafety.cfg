INIT Init
NEXT Next
CONSTANTS
    t1 = t1
    g1 = g1
    g2 = g2
    w1 = w1
    w2 = w2
    None = None
    Tasks = {t1}
    Windows = {w1, w2}
    Goroutines = {g1, g2}
    MaxRestarts = 1
SYMMETRY Symmetry
INVARIANTS
    IInv
    ActiveHasWindow
    NoOrphanWindow
    StateTellsPlace
    ResumableNeverFails
PROPERTIES
    FollowsStates
    QuitSparesTasks
CHECK_DEADLOCK FALSE
