SPECIFICATION Spec
CONSTANTS
    Producers = {p1, p2}
    Consumers = {c1, c2}
    MaxPush = 3
    NULL = NULL
INVARIANTS TypeOK
PROPERTIES EveryRequestIsTaken ImplementsChannel
CHECK_DEADLOCK FALSE
