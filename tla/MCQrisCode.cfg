SPECIFICATION CodeSpec
CONSTANTS
    Merchants <- MCMerchants
    Orders <- MCOrders
    Tendered = {7}
    Misread <- MCMisread
    AcquirerGUID <- MCGUID
INVARIANTS
    PaidAsPrinted
    ShownIsPaid
CHECK_DEADLOCK FALSE
