SPECIFICATION Spec
CONSTANTS
    Producers = {p1}
    Consumers = {c1, c2, c3}
    queueSize = 2
    MaxPush = 5
    NULL = NULL
INVARIANTS TypeOK WakeupsAreNotLost
PROPERTIES EveryRequestIsTaken DestroyEnds ImplementsChannel
CHECK_DEADLOCK FALSE
