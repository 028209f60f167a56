\* A user, four requests, each of the token stores.
CONSTANTS
    Requests = {r1, r2, r3, r4}
    NoToken = NoToken
    NoJob = NoJob
    Users = {u}
    Stores = {"postgres", "redis", "memory"}
SPECIFICATION Spec
INVARIANTS
    LateRefused
    OneToken
SYMMETRY Symmetry
CHECK_DEADLOCK FALSE
