CONSTANTS
    p1 = p1
    p2 = p2
    Peer = {p1, p2}
    Probed = {p1}
    AtOnce = FALSE
    Timeout = 2
    Times = 2
    Tasks = 1
SPECIFICATION Spec
INVARIANTS
    LoopSound
PROPERTIES
    PassSpec
    StallEnds
