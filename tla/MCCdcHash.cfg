SPECIFICATION Spec
CONSTANTS
    k1 = k1
    k2 = k2
    h1 = h1
    h2 = h2
    Key = {k1, k2}
    NoKey = NoKey
    Host = {h1, h2}
    NoHost = NoHost
    Source = Source
    MaxIp = 1
    MaxTime = 1
    Head <- MCHeads
    HashSize = 1
    DataSize = 1
    MaxClear = 1
    MaxCrash = 1
SYMMETRY Alike
INVARIANTS
    TableSound
PROPERTIES
    MapSpec
