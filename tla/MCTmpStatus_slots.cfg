SPECIFICATION FileSpec
CONSTANTS
    Name = {n1, n2, n3}
    Blank = Blank
    Items = 16
    RecLen = 4
    NodeLen = 3
    NameCell = 1
    BigIsp = TRUE
    MaxCrash = 3
SYMMETRY NameSymmetry
CHECK_DEADLOCK FALSE
INVARIANTS
    SlotsSound
    LiveIsOnDisk
