\* A schedule of either kind, an Update, a Disable, an Enable, a Delete, and two schedulers.
CONSTANTS
    digest = digest
    edit = edit
    off = off
    on = on
    remove = remove
    i1 = i1
    i2 = i2
    Never = Never
    Schedules = {digest}
    Crons = {1, 3}
    Barren = {3}
    Calls = {edit, off, on, remove}
    Op <- MCOp
    Instances = {i1, i2}
    Horizon = 3
SPECIFICATION Spec
INVARIANTS
    TypeOK
    OncePerRun
PROPERTIES
    QuietWhenDisabled
    DueRuns
CHECK_DEADLOCK FALSE
