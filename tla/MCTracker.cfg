SPECIFICATION FairSpec
CONSTANTS
    Task = {t1, t2, t3}
    Key = {k1}
    c1 = c1
    c3 = c3
    Cs = {c1, c3}
    IspOf <- PairIspOf
    Rank <- PairRank
    MaxRunOnce = 1
    RetryTop = 2
    MaxFault = 1
    NoCs = NoCs
    Orphan = Orphan
    NoKey = NoKey
INVARIANTS
    RunIsHashed
    RestHoldsNothing
    SlotIffLive
    OwnerOnline
    LoadBounded
    RunIsAwaited
PROPERTIES
    EventuallyDone
