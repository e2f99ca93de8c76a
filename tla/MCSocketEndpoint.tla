-------------------------- MODULE MCSocketEndpoint --------------------------
(* SocketEndpoint for TLC. *)
EXTENDS SocketEndpoint

BothKinds == {"websocket", "http"}
WebSocketOnly == {"websocket"}
=============================================================================
