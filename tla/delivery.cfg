SPECIFICATION Spec
CONSTANTS
    Pushes = {i1, i2}
    Names = {n1}
    NoName = NoName
    Slots = {s1, s2}
    Nobody = Nobody
    MaxAttempts = 2
    Answers = {"success", "aborted", "500"}
SYMMETRY Interchangeable
INVARIANTS
    TypeOK
PROPERTIES
    KeepsPromise
\* The run ends when every push is made and every task has left the queue.
CHECK_DEADLOCK FALSE
