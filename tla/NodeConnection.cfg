SPECIFICATION Spec
CONSTANTS
    MaxFailures = 2
    MaxEvents = 5
INVARIANTS OneConnection RemovedIsForgotten
PROPERTY Reconnects
CHECK_DEADLOCK FALSE
