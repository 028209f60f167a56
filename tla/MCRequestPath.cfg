CONSTANTS
    Users = {alice}
    Addresses = {k1, k2}
    NoHeader = NoHeader
    NoOne = NoOne
    ApiKeyCaller = ApiKeyCaller
    NoBucket = NoBucket
    NoIssue = NoIssue
    Rate = 1
    Burst = 2
    CleanupAge = 2
    AccessTTL = 1
    WriteTimeout = 1
    Windows <- MCWindows
    Day = 4
    Production = FALSE
    MaxTokens = 1
    MaxTime = 3
SPECIFICATION Spec
INVARIANTS RateBounded AccessBounded
SYMMETRY MCSymmetry
