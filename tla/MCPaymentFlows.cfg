\* Four requests for one charge, three of them with the same key, and a refund.
CONSTANTS
    pay = pay
    again = again
    other = other
    scan = scan
    back = back
    back2 = back2
    k = k
    qr = qr
    Requests = {pay, again, other, scan, back}
    Keys = {k, other, back, back2}
    Key <- MCKey
    Charges = {qr}
    Flow <- MCFlow
SPECIFICATION Spec
SYMMETRY MCSymmetry
INVARIANTS
    PaidBySuccess
    SuccessMeansPaid
    RefundsOfSuccess
PROPERTIES
    PaidForGood
CHECK_DEADLOCK FALSE
