SPECIFICATION Spec
CONSTANTS
    Contexts = {c1}
    Tasks <- NamedTasks
    Deps <- MCDeps
    Validation <- MCValidation
    Naming <- MCNaming
    Coroutines <- MCCoroutines
    Requests <- EveryRequest
    NoContext = NoContext
    RetryUnknownTasks = FALSE
    AddUrlFuncNameSuffix = FALSE
    Asgiref = TRUE
INVARIANTS
    FitPayloadRuns
