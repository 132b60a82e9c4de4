SPECIFICATION Spec
CONSTANTS
    AppNames <- SomeNames
    SecretNames <- SomeSecretNames
    Secrets = {k1, k2}
    NoSecret = NoSecret
    Unbuilt = Unbuilt
    Oidc = TRUE
    InsecureAllowUnauthenticated = TRUE
    MaxAssigned = 2
SYMMETRY Interchangeable
INVARIANTS
    TypeOK
    SecretDecides
    CredentialsNeverShown
    PrecedenceKept
    CountIsTheQueues
    EagerLikeWorker
\* The run ends when the pushed request was answered and nothing is left to assign.
