\* Two WebSocket clients that share a descriptor one after the other.
SPECIFICATION Spec
CONSTANTS
    Kinds <- WebSocketOnly
    MaxFd = 2
    MaxConns = 2
    MaxPublished = 0
INVARIANTS
    ServedUntilDisconnect
CHECK_DEADLOCK FALSE
