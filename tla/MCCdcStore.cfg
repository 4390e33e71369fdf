SPECIFICATION Spec
CONSTANTS
    h1 = h1
    h2 = h2
    h3 = h3
    l1 = l1
    l2 = l2
    Host = {h1, h2, h3}
    NoHost = NoHost
    Log = {l1, l2}
    Others <- MCOthers
    HostOf <- MCHostOf
    TimeOf <- MCTimeOf
    SourceOf <- MCSourceOf
    StatusOf <- MCStatusOf
    DayOf <- MCDayOf
    MaxIp = 2
    MaxDay = 2
    MaxCrash = 1
    MaxClean = 1
CHECK_DEADLOCK FALSE
INVARIANTS
    EntrySound
    RowsBounded
PROPERTIES
    EveryLogIsLoaded
