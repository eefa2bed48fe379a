SPECIFICATION FairSpec
CONSTANTS
    t1 = t1
    g1 = g1
    g2 = g2
    w1 = w1
    None = None
    Tasks = {t1}
    Windows = {w1}
    Goroutines = {g1, g2}
    MaxRestarts = 0
PROPERTIES
    LostWindowNoticed
CHECK_DEADLOCK FALSE
