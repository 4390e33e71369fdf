SPECIFICATION ConfigSpec
CONSTANTS
    self = self
    a = a
    b = b
    v = v
    d1 = d1
    d2 = d2
    Host = {self, a, b, v}
    Self = self
    NoHost = NoHost
    CsDir = {d1, d2}
    NoIsp = NoIsp
    Dialler = {a}
    Lists <- MCLists
    MaxCell = 3
    MaxDir = 2
    DeadlockCount = 0
    Told = {self}
    Deeds = {"edit", "OFFLINE", "ONLINE", "SYNCDIR", "CONFUPDA", "NEWVOSS", "hang", "term"}
    MaxDeed = 2
CHECK_DEADLOCK FALSE
INVARIANTS
    TablesSound
PROPERTIES
    OperatorIsFollowed
    
    GoesDown
