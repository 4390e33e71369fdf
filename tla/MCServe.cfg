SPECIFICATION FairSpec
CONSTANTS
    a1 = a1
    a2 = a2
    d1 = d1
    f1 = f1
    f2 = f2
    t1 = t1
    f3 = f3
    Cs = {a1, a2}
    Dir = {d1}
    File = {f1, f2, f3}
    Task = {t1}
    NoTask = NoTask
    MaxList = 2
    MaxFile = 2
    Day = 2
    Limit = 1
    MaxVer = 2
    MaxAsk = 3
    MaxFault = 1
CHECK_DEADLOCK FALSE
INVARIANTS
    ListingSound
    LessThanTwice
PROPERTIES
    ServiceSpec
