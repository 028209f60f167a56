\* A notification, a copy of its Send, a template, a Retry and a Cancel, one instance with two workers.
CONSTANTS
    alert = alert
    copy = copy
    again = again
    undo = undo
    layout = layout
    i1 = i1
    Notifications = {alert, copy}
    Templates = {layout}
    TemplatesOf <- MCTemplatesOf
    Changes = {again, undo}
    Dispatchers = {i1}
    Workers = 2
    BatchSize = 2
    Key <- MCKey
    MaxRetries <- MCMaxRetries
    Asked <- MCOp
SPECIFICATION DispatchSpec
INVARIANTS
    DispatchTypeOK
    DeliveriesAccounted
    AttemptsBounded
PROPERTIES
    CancelHolds
    Settles
CHECK_DEADLOCK FALSE
