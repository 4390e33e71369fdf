SPECIFICATION ReportSpec
CONSTANTS
    r1 = r1
    r2 = r2
    c1 = c1
    c2 = c2
    Rep = {r1, r2}
    Conn = {c1, c2}
    MaxFile = 2
    MaxBreak = 1
    MaxCmd = 1
CHECK_DEADLOCK FALSE
INVARIANTS
    StreamSound
    CopiesBounded
PROPERTIES
    Reported
