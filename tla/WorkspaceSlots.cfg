INIT Init
NEXT Next
CONSTANTS
    t1 = t1
    t2 = t2
    None = None
    Tasks = {t1, t2}
    Words <- MCWords
    TaskNames <- MCTaskNames
    Repos <- MCRepos
    JJ <- MCJJ
    AutoLabels <- MCAutoLabels
    AgentLabels <- MCAgentLabels
    MaxOps = 3
    MaxMishaps = 1
SYMMETRY Symmetry
INVARIANTS
    Inv
    SlotNamesHold
PROPERTIES
    OnlyForksLoseWork
    IdentityGoesWithCopy
    RowsSurvive
    DirKept
    DirectoriesKeptApart
CHECK_DEADLOCK FALSE
