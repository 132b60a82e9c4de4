SPECIFICATION FairSpec
CONSTANTS
    Contexts = {c1}
    Tasks <- OneTasks
    Deps <- MCDeps
    Validation <- MCValidation
    Naming <- MCNaming
    Coroutines <- MCCoroutines
    Requests <- EveryRequest
    NoContext = NoContext
    RetryUnknownTasks = FALSE
    AddUrlFuncNameSuffix = TRUE
    Asgiref = FALSE
INVARIANTS
    TypeOK
    SuccessMeansReturned
    FailureReachesTeardown
    DroppedByDecision
    DecisionReachesQueue
    UnauthenticatedIs403
    MissingArgumentRejected
PROPERTIES
    KeepsAttemptPromise
    EveryRequestAnswered
