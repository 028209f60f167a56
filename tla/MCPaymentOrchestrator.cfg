\* Two requests with one key; the source can pay twice, so that a repeated debit shows.
CONSTANTS
    r1 = r1
    r2 = r2
    k1 = k1
    src = src
    dst = dst
    Requests = {r1, r2}
    Keys = {k1}
    Key <- MCKey
    Payment <- MCPayment
    MaxAttempts = 2
    Accounts = {src, dst}
    Amounts = {2}
    MaxBalance = 8
    Opening <- MCOpening
SPECIFICATION FairSpec
INVARIANTS
    OneMover
    StatusMatchesMoney
    MoneyHasASource
    AnswersStand
PROPERTIES
    ImplementsLedger
    EveryRequestEnds
CHECK_DEADLOCK FALSE
