INIT Init
NEXT Next
CONSTANTS
    t1 = t1
    t2 = t2
    None = None
    Tasks = {t1, t2}
    Words <- MCWords
    TaskNames <- MCTaskNames
    Repos <- MCRepos
    JJ = {}
    AutoLabels <- MCAutoLabels
    AgentLabels <- MCAgentLabels
    MaxOps = 4
    MaxMishaps = 0
SYMMETRY Symmetry
PROPERTIES
    WorkKept
CHECK_DEADLOCK FALSE
