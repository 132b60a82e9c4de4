SPECIFICATION Spec
CONSTANTS
    Contexts = {c1}
    Tasks <- TwoTasks
    Deps <- MCDeps
    Validation <- MCValidation
    Naming <- MCNaming
    Coroutines <- MCCoroutines
    Requests <- AsyncRequests
    NoContext = NoContext
    RetryUnknownTasks = FALSE
    AddUrlFuncNameSuffix = FALSE
    Asgiref = TRUE
INVARIANTS
    CompletedNotDropped
