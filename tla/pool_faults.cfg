SPECIFICATION Spec
CONSTANTS
    Requests = {r1, r2, r3}
    Conns = {c1, c2, c3}
    MaxSize = 2
    IdleExpiry = TRUE
    QueueTimeout = FALSE
    Faults = {"serverClose", "networkError", "reclose", "openFails", "resetFails", "closeFails"}
    Pool = Pool
    NoConn = NoConn
CHECK_DEADLOCK FALSE
SYMMETRY Symmetry
INVARIANTS
    TypeOK
    TicketAccounting
    WithinCapacityOnce
    
    PendingCallsAgree
