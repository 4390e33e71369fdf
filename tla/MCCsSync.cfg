SPECIFICATION FairSpec
CONSTANTS
    Dir = {d1, d2}
    NoDir = NoDir
    m1 = m1
    x1 = x1
    Mate = {m1}
    Below = {m1}
    Far = {x1}
    Shelf = {x1}
    Nobody = Nobody
    Origin = Origin
    Faults = {"close", "late", "voss", "resync", "offline", "expire"}
    MaxFault = 1
INVARIANTS
    WaitsForSomeone
    NoDirForgotten
PROPERTIES
    OnlineIsSynced
    EventuallyInSync
