\* Both kinds of endpoint, two clients, two descriptors besides the listener's.
SPECIFICATION LiveSpec
CONSTANTS
    Kinds <- BothKinds
    MaxFd = 2
    MaxConns = 2
    MaxPublished = 1
INVARIANTS
    TypeOK
    ListedIsOurs
    NoForeignClose
    EndedIsClosed
    ResponseFresh
PROPERTIES
    DestructorReturns
CHECK_DEADLOCK FALSE
