SPECIFICATION Spec
CONSTANTS
    Trim <- MCTrim
    AuthorizationKeys <- MCAuthorizationKeys
    UnsignedAlgorithms <- MCUnsigned
    SymmetricAlgorithms <- MCSymmetric
    Deployments <- MCDeployments
    Tokens <- MCTokens
    Documents <- MCDocuments
    Lifespan = 1
    KeyCacheSize = 1
    MaxNow = 3
    MaxRotations = 2
INVARIANT
    KeysHeldForTtl
