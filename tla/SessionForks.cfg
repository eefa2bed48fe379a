INIT Init
NEXT Next
CONSTANTS
    t1 = t1
    t2 = t2
    s1 = s1
    s2 = s2
    s3 = s3
    None = None
    Tasks = {t1, t2}
    Sessions = {s1, s2, s3}
    ChanCap = 2
    MaxSteps = 4
SYMMETRY Symmetry
INVARIANTS
    Inv
    RoutedToSender
PROPERTIES
    HomeTranscriptKeptAtHome
    CopyGone
CHECK_DEADLOCK FALSE
