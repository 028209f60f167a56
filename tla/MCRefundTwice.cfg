\* Two refunds of one payment, under different keys.
CONSTANTS
    pay = pay
    again = again
    other = other
    scan = scan
    back = back
    back2 = back2
    k = k
    qr = qr
    Requests = {other, back, back2}
    Keys = {k, other, back, back2}
    Key <- MCKey
    Charges = {qr}
    Flow <- MCFlow
SPECIFICATION Spec
INVARIANT
    AtMostOneRefund
CHECK_DEADLOCK FALSE
