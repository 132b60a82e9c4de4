SPECIFICATION Spec
CONSTANTS
    AppNames <- FewNames
    SecretNames <- UnderscoredSecretNames
    Secrets = {k1, k2}
    NoSecret = NoSecret
    Unbuilt = Unbuilt
    Oidc = FALSE
    InsecureAllowUnauthenticated = FALSE
    MaxAssigned = 2
INVARIANTS
    SecretNeverShown
