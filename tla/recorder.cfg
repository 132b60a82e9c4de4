SPECIFICATION Spec
CONSTANTS
    Pushers = {p1, p2}
    Blocks = {b1, b2}
    Threads = {}
    Pushes <- MCPushes
    Names = {n1}
    NoName = NoName
    ClientList = ClientList
    Nested = TRUE
    PushBound = 2
INVARIANTS
    TypeOK
    PathsAreUnique
    RestoredOnExit
    RecordedInOwnBlock
    NoSpuriousError
    RecordsAsProduction
PROPERTIES
    FrozenOnExit
\* The run ends when every pusher has made its pushes and every block is left.
CHECK_DEADLOCK FALSE
