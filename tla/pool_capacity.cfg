SPECIFICATION Spec
CONSTANTS
    Requests = {r1, r2, r3}
    Conns = {c1, c2, c3}
    MaxSize = 1
    IdleExpiry = FALSE
    QueueTimeout = FALSE
    Faults = {"serverClose"}
    Pool = Pool
    NoConn = NoConn
CHECK_DEADLOCK FALSE
INVARIANT WithinCapacity
