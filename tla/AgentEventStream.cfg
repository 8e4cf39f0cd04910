SPECIFICATION FairSpec
CONSTANTS
    Workers = {w1}
    Handlers = {h1}
    Retries = 2
    MaxEvents = 3
    MaxFaults = 1
    Conns = {k1, k2}
    NoConn = NoConn
    PageLimit = 2
    UnnamedDelivered = TRUE
INVARIANTS
    ReceivedInOrder
PROPERTIES
    ImplementsLog
    EndNotified
CHECK_DEADLOCK FALSE
