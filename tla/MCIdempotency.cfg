\* A call, its retry, the same call of another caller, and of a person.
CONSTANTS
    first = first
    retry = retry
    third = third
    stranger = stranger
    person = person
    keyless = keyless
    c1 = c1
    c2 = c2
    c3 = c3
    post = post
    k = k
    Requests = {first, retry, stranger, person}
    Callers = {c1, c2, c3}
    Endpoints = {post}
    IdemKeys = {k}
    Call <- MCCall
SPECIFICATION GuardSpec
SYMMETRY MCSymmetry
INVARIANTS
    GuardTypeOK
    ExecutedOnce
    StoreIsMutex
    ReplayIsOwn
    AnswerIsKept
PROPERTIES
    InFlightIsTrue
CHECK_DEADLOCK FALSE
