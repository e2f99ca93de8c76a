SPECIFICATION Spec
CONSTANTS
    p1 = p1
    p2 = p2
    NoEvent = NoEvent
    Producers <- TwoProducers
    Capacity = 4
    MaxEvents = 2
INVARIANTS
    ExitOnlyWhenStopped
CHECK_DEADLOCK FALSE
