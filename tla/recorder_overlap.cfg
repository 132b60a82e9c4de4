SPECIFICATION Spec
CONSTANTS
    Pushers = {p1, p2}
    Blocks = {b1, b2}
    Threads = {}
    Pushes <- SoundPushes
    Names = {n1}
    NoName = NoName
    ClientList = ClientList
    Nested = FALSE
    PushBound = 2
INVARIANTS
    RestoredOnExit
CHECK_DEADLOCK FALSE
