SPECIFICATION Spec
CONSTANTS
    Contexts = {c1, c2}
    Tasks <- TwoTasks
    Deps <- MCDeps
    Validation <- MCValidation
    Naming <- MCNaming
    Coroutines <- MCCoroutines
    Requests <- AsyncRequests
    NoContext = NoContext
    RetryUnknownTasks = TRUE
    AddUrlFuncNameSuffix = FALSE
    Asgiref = TRUE
SYMMETRY ContextSymmetry
INVARIANTS
    ContextIsOwn
    ScopeRestored
    MissingArgumentRejected
PROPERTIES
    AnalysisStable
