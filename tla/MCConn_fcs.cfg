CONSTANTS
    p1 = p1
    p2 = p2
    Peer = {p1}
    Probed = {}
    AtOnce = TRUE
    Timeout = 1
    Times = 3
    Tasks = 1
SPECIFICATION Spec
PROPERTIES SentAtOnce
CHECK_DEADLOCK FALSE
