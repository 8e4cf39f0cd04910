SPECIFICATION Spec
CONSTANTS
    Workers = {w1}
    Handlers = {h1}
    Retries = 2
    MaxEvents = 3
    MaxFaults = 0
    Conns = {k1}
    NoConn = NoConn
    PageLimit = 3
    UnnamedDelivered = TRUE
INVARIANTS
    EndSeesAll
CHECK_DEADLOCK FALSE
