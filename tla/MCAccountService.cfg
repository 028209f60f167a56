\* Three concurrent requests; a credit of 2 on a balance of 2 exceeds MaxBalance = 3.
CONSTANTS
    acct = acct
    fresh = fresh
    Accounts <- MCAccounts
    Requests = {r1, r2, r3}
    Amounts = {2}
    MaxBalance = 3
    MaxVersion = 3
    InitialAccounts <- MCInitialAccounts
SPECIFICATION Spec
SYMMETRY MCSymmetry
INVARIANTS
    TypeOK
    ReplyTruthful
    NoLostUpdate
PROPERTIES
    OnlyActiveAccountsMove
    ImplementsBook
CHECK_DEADLOCK FALSE
