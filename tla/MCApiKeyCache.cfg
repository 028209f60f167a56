\* A key that expires or does not, two lookups at either service, a Revoke, a deactivation
\* and a change of roles.
CONSTANTS
    partner = partner
    key = key
    revoke = revoke
    off = off
    roles = roles
    Never = Never
    Forever = Forever
    Accounts = {partner}
    Keys = {key}
    AccountOf <- MCAccountOf
    Expiries = {2, Never}
    Lookups = {l1, l2}
    Calls = {revoke, off, roles}
    Op <- MCOp
    TTL = 2
    Delay = 1
    Horizon = 5
SPECIFICATION Spec
INVARIANTS
    RevokedIsGone
PROPERTIES
    BoundedStaleness
SYMMETRY Symmetry
CHECK_DEADLOCK FALSE
