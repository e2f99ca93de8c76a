\* One producer, a ring of two slots, enough events to lap it, fair.
SPECIFICATION LiveSpec
CONSTANTS
    p1 = p1
    p2 = p2
    NoEvent = NoEvent
    Producers <- OneProducer
    Capacity = 2
    MaxEvents = 4
INVARIANTS
    TypeOK
    NoLostWakeup
    FifoUnlessLapped
    NothingLost
    ExitOnlyWhenStopped
PROPERTIES
    ImplementsChannel
    EventuallyDelivered
    StopJoins
CHECK_DEADLOCK FALSE
