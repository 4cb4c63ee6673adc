SPECIFICATION FairSpec
CONSTANTS
    Requests = {r1, r2}
    Conns = {c1, c2}
    MaxSize = 1
    IdleExpiry = TRUE
    QueueTimeout = TRUE
    Faults = {"openFails", "resetFails", "closeFails"}
    Pool = Pool
    NoConn = NoConn
CHECK_DEADLOCK FALSE
PROPERTIES
    PromisesSettle
