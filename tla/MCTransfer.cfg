SPECIFICATION FairSpec
CONSTANTS
    t1 = t1
    t2 = t2
    c1 = c1
    m1 = m1
    Task = {t1, t2}
    Conn = {c1}
    Origin = Origin
    Mate = {m1}
    MaxVer = 2
    Size <- TwoChunks
    Retry = 1
    MaxRunOnce = 2
    MaxConnects = 0
    Continue = TRUE
    CalcuMd5 = FALSE
    Announcement <- Announced
    MaxSubmit = 2
    MaxFault = 2
    NoTask = NoTask
CHECK_DEADLOCK FALSE
INVARIANTS
    TasksSound
    FileIsWhole
    ClaimsAreTrue
PROPERTIES
    TaskEnds
