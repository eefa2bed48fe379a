SPECIFICATION Spec
CONSTANTS
    m1 = m1
    m2 = m2
    t1 = t1
    t2 = t2
    None = None
    Requests = {m1, m2}
    ReadOnly = {}
    Tasks = {t1, t2}
    WorkspaceTasks = {t1}
    ChanCap = 1
INVARIANTS
    IInv
    HonestAnswers
    RetryIsSafeUnlessKilled
    OnlyCompletionOverlaps
PROPERTIES
    StartsInOrder
    KeepsPromise
    EveryCallEnds
    QueueMoves
CHECK_DEADLOCK FALSE
