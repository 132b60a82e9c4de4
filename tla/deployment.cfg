SPECIFICATION DFairSpec
CONSTANTS
    s1 = s1
    s2 = s2
    i1 = i1
    i2 = i2
    Pushes = {i1, i2}
    Names = {}
    NoName = NoName
    Slots = {s1, s2}
    Nobody = Nobody
    MaxAttempts = 2
    Answers = {"success", "500", "rejected", "404"}
    RevisionOf <- OneOfEach
    Mixes <- EveryMix
    RetryUnknownTasks = TRUE
INVARIANTS
    DeploymentTypeOK
    DeployLosesNothing
PROPERTIES
    EveryTaskSettled
\* The run ends when every push is made and every task has left the queue.
CHECK_DEADLOCK FALSE
