SPECIFICATION FairSpec
CONSTANTS
    Task = {t1, t2}
    File = {f1}
    Tracker = {p1}
    NoTracker = NoTracker
    NoFile = NoFile
    FcsMaxTask = 2
    TaskTimeout = 5
    Answers = 1
    InitStamp = 1
    Resubmits = FALSE
    Faults = {"close", "crash", "offline", "expire", "command"}
    MaxFault = 2
    Windows = {}
    MaxTime = 2
INVARIANTS
    FetchSound
    ListsSound
    StampSound
PROPERTIES
    HeldUntilAnswered
    EventuallyDone
