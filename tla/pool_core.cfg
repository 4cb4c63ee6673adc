SPECIFICATION Spec
CONSTANTS
    Requests = {r1, r2, r3}
    Conns = {c1, c2, c3}
    MaxSize = 2
    IdleExpiry = TRUE
    QueueTimeout = TRUE
    Faults = {"openFails", "resetFails", "closeFails"}
    Pool = Pool
    NoConn = NoConn
SYMMETRY Symmetry
CHECK_DEADLOCK FALSE
INVARIANTS
    ExclusiveSessions
PROPERTIES
    InUseNeverDestroyed
    ImplementsLeases
