\* An event that is published, one that is posted and a message that is no event; two
\* consumers, two deliveries or attempts each, pages of one row.
CONSTANTS
    Events = {login, export, noise}
    Posted = {export}
    Nameless = {}
    Garbled = {noise}
    Consumers = {c1, c2}
    MaxDeliver = 2
    BatchSize = 2
    Attempts = 2
    PageSize = 1
    MaxRows = 3
    LastTick = 1
    None = None
SPECIFICATION AuditSpec
INVARIANTS
    Accounted
    PagesComplete
SYMMETRY Symmetry
CHECK_DEADLOCK FALSE
CONSTRAINT NoiseOnce
