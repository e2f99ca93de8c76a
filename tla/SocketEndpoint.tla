--------------------------- MODULE SocketEndpoint ---------------------------
(***************************************************************************)
(* An endpoint that serves clients over sockets: WebSocketEndpoint         *)
(* (publisher/websocket_endpoint.hpp) or HttpEndpoint                      *)
(* (publisher/endpoints.hpp), from its constructor through its accept      *)
(* thread and the detached thread of every client to its destructor.       *)
(*                                                                         *)
(* Descriptors are numbers of the process, and a number that is closed is  *)
(* given out again at once: to the next client or to some other part of    *)
(* the program.  The endpoint keeps numbers in clients_ and in the locals  *)
(* of its threads; the subject here is whether a number still means what   *)
(* it meant.  What is sent over a socket is left out, except which payload *)
(* an HTTP response carries.                                               *)
(*                                                                         *)
(* A critical section under clients_mu_ or payload_mu_ is one step.        *)
(***************************************************************************)
EXTENDS Naturals

CONSTANTS
    Kinds,          \* the types make_endpoint() may be asked for
    MaxFd,          \* bound: descriptors of the process are 0..MaxFd
    MaxConns,       \* bound: clients that connect
    MaxPublished    \* bound: calls of publish() on an HTTP endpoint

ASSUME SocketAssumption ==
    /\ Kinds \subseteq {"websocket", "http"}
    /\ MaxFd \in Nat \ {0}
    /\ MaxConns \in Nat
    /\ MaxPublished \in Nat

VARIABLES
    kind,           \* the endpoint's type
    running,        \* running_
    clients,        \* clients_: how often each number is in it
    payload,        \* payload_: which publish() stored it, 0 for none
    table,          \* descriptor -> what it refers to
    apc,            \* accept_loop()
    dpc,            \* the destructor
    \* per connection
    peer,           \* is the client there
    cpc,            \* handshake_and_serve() or handle_client()
    cfd,            \* its argument fd
    file,           \* the connection its recv() blocks on
    asked,          \* the payload at the moment the request was complete
    answer,         \* the payload in the response, or NoAnswer
    \* history
    stray,          \* the endpoint has closed a descriptor of someone else's
    cut             \* connections closed by the thread of another one

threadVars == <<peer, cpc, cfd, file, asked, answer>>
history == <<stray, cut>>
vars == <<kind, running, clients, payload, table, apc, dpc, threadVars, history>>

-----------------------------------------------------------------------------
Fds == 0..MaxFd
Conns == 1..MaxConns
Free == 0                   \* what a number refers to: nothing,
Listener == MaxConns + 1    \* the listening socket,
Foreign == MaxConns + 2     \* something of another part, or a connection
ListenFd == 0               \* listen_fd_
NoFd == MaxFd + 1
NoConn == 0
NoAnswer == MaxPublished + 1

FreeFds == {n \in Fds : table[n] = Free}

\* open, accept and socket return the lowest number that is free.
IsNext(n) == n \in FreeFds /\ \A m \in FreeFds : n <= m

Destroyed == dpc = "done"
ListedFds == {n \in Fds : clients[n] > 0}

\* The constructor: socket, bind, listen, and the accept thread.
Init ==
    /\ kind \in Kinds
    /\ running = TRUE
    /\ clients = [n \in Fds |-> 0]
    /\ payload = 0
    /\ table = [n \in Fds |-> IF n = ListenFd THEN Listener ELSE Free]
    /\ apc = "loop"
    /\ dpc = "alive"
    /\ peer = [c \in Conns |-> "none"]
    /\ cpc = [c \in Conns |-> "none"]
    /\ cfd = [c \in Conns |-> NoFd]
    /\ file = [c \in Conns |-> NoConn]
    /\ asked = [c \in Conns |-> 0]
    /\ answer = [c \in Conns |-> NoAnswer]
    /\ stray = FALSE
    /\ cut = {}

-----------------------------------------------------------------------------
(* The clients and the rest of the process.                                *)

Connect(c) ==
    /\ peer[c] = "none"
    /\ c > 1 => peer[c - 1] # "none"
    /\ table[ListenFd] = Listener
    /\ peer' = [peer EXCEPT ![c] = "up"]
    /\ cpc' = [cpc EXCEPT ![c] = "queued"]
    /\ UNCHANGED <<kind, running, clients, payload, table, apc, dpc, cfd, file, asked, answer, history>>

\* The client closes the connection, or it breaks.
Vanish(c) ==
    /\ peer[c] = "up"
    /\ peer' = [peer EXCEPT ![c] = "gone"]
    /\ UNCHANGED <<kind, running, clients, payload, table, apc, dpc, cpc, cfd, file, asked, answer, history>>

ForeignOpen ==
    /\ \E n \in Fds : IsNext(n) /\ table' = [table EXCEPT ![n] = Foreign]
    /\ UNCHANGED <<kind, running, clients, payload, apc, dpc, threadVars, history>>

ForeignClose ==
    /\ \E n \in Fds : table[n] = Foreign /\ table' = [table EXCEPT ![n] = Free]
    /\ UNCHANGED <<kind, running, clients, payload, apc, dpc, threadVars, history>>

-----------------------------------------------------------------------------
(* accept_loop()                                                           *)

\* while (running_)
AcceptLoop ==
    /\ apc = "loop"
    /\ apc' = IF running THEN "accept" ELSE "exit"
    /\ UNCHANGED <<kind, running, clients, payload, table, dpc, threadVars, history>>

\* accept() returns a connection, which gets a detached thread.
Accept(c) ==
    /\ apc = "accept"
    /\ table[ListenFd] = Listener
    /\ cpc[c] = "queued"
    /\ \E n \in Fds :
          /\ IsNext(n)
          /\ table' = [table EXCEPT ![n] = c]
          /\ cfd' = [cfd EXCEPT ![c] = n]
    /\ cpc' = [cpc EXCEPT ![c] = "start"]
    /\ apc' = "loop"
    /\ UNCHANGED <<kind, running, clients, payload, dpc, peer, file, asked, answer, history>>

\* accept() fails: the listening socket is closed, or there is no descriptor left.
AcceptError ==
    /\ apc = "accept"
    /\ table[ListenFd] # Listener \/ FreeFds = {}
    /\ apc' = IF running THEN "loop" ELSE "exit"
    /\ UNCHANGED <<kind, running, clients, payload, table, dpc, threadVars, history>>

-----------------------------------------------------------------------------
(* What the threads of clients share.                                      *)

\* close(n) by the thread of connection c.
CloseBy(c, n) ==
    /\ table' = [table EXCEPT ![n] = Free]
    /\ stray' = (stray \/ table[n] = Foreign)
    /\ cut' = IF table[n] \in Conns \ {c} THEN cut \cup {table[n]} ELSE cut

Thread(c, k, from) == kind = k /\ cpc[c] = from
ThreadGoto(c, to) == cpc' = [cpc EXCEPT ![c] = to]

\* The thread touches a member of an endpoint that is gone: what follows is
\* undefined, and the thread is not followed further.
UseDestroyed(c) ==
    /\ Destroyed
    /\ \/ kind = "websocket" /\ cpc[c] \in {"add", "serve", "leave"}
       \/ kind = "http" /\ cpc[c] \in {"start", "read", "payload", "remove"}
    /\ ThreadGoto(c, "undefined")
    /\ UNCHANGED <<kind, running, clients, payload, table, apc, dpc,
                   peer, cfd, file, asked, answer, history>>

\* A critical section under clients_mu_ that adds to clients_.
Listing(c, to) ==
    /\ ~Destroyed
    /\ clients' = [clients EXCEPT ![cfd[c]] = @ + 1]
    /\ ThreadGoto(c, to)
    /\ UNCHANGED <<kind, running, payload, table, apc, dpc,
                   peer, cfd, file, asked, answer, history>>

-----------------------------------------------------------------------------
(* handshake_and_serve(): the thread of a WebSocket client.                *)

\* The upgrade request is complete and the answer has been sent.
Handshake(c) ==
    /\ Thread(c, "websocket", "start")
    /\ peer[c] = "up"
    /\ ThreadGoto(c, "add")
    /\ UNCHANGED <<kind, running, clients, payload, table, apc, dpc,
                   peer, cfd, file, asked, answer, history>>

\* It was no upgrade request, or the connection broke.
HandshakeFails(c) ==
    /\ Thread(c, "websocket", "start")
    /\ CloseBy(c, cfd[c])
    /\ ThreadGoto(c, "end")
    /\ UNCHANGED <<kind, running, clients, payload, apc, dpc, peer, cfd, file, asked, answer>>

AddClient(c) == Thread(c, "websocket", "add") /\ Listing(c, "serve")

\* while (running_ && ws_handle_incoming_frame(fd)): recv() keeps the file
\* that its descriptor refers to now.
Serve(c) ==
    /\ Thread(c, "websocket", "serve")
    /\ ~Destroyed
    /\ IF running /\ table[cfd[c]] \in Conns
       THEN ThreadGoto(c, "recv") /\ file' = [file EXCEPT ![c] = table[cfd[c]]]
       ELSE /\ cpc' \in {[cpc EXCEPT ![c] = pc] : pc \in
                  IF running /\ table[cfd[c]] = Foreign THEN {"serve", "leave"} ELSE {"leave"}}
            /\ UNCHANGED file
    /\ UNCHANGED <<kind, running, clients, payload, table, apc, dpc,
                   peer, cfd, asked, answer, history>>

\* A ping or a frame that is ignored.
Frame(c) ==
    /\ Thread(c, "websocket", "recv")
    /\ peer[file[c]] = "up"
    /\ ThreadGoto(c, "serve")
    /\ file' = [file EXCEPT ![c] = NoConn]
    /\ UNCHANGED <<kind, running, clients, payload, table, apc, dpc,
                   peer, cfd, asked, answer, history>>

\* A close frame, the end of the stream or an error.
EndOfFrames(c) ==
    /\ Thread(c, "websocket", "recv")
    /\ ThreadGoto(c, "leave")
    /\ file' = [file EXCEPT ![c] = NoConn]
    /\ UNCHANGED <<kind, running, clients, payload, table, apc, dpc,
                   peer, cfd, asked, answer, history>>

\* Faulty: Leave closes its descriptor whether or not it is listed still.
LeaveBlindly(c) ==
    /\ Thread(c, "websocket", "leave")
    /\ ~Destroyed
    /\ CloseBy(c, cfd[c])
    /\ clients' = [clients EXCEPT ![cfd[c]] = 0]
    /\ ThreadGoto(c, "end")
    /\ UNCHANGED <<kind, running, payload, apc, dpc, peer, cfd, file, asked, answer>>

\* Close and forget the descriptor, unless publish() has done so.
Leave(c) ==
    /\ Thread(c, "websocket", "leave")
    /\ ~Destroyed
    /\ IF cfd[c] \in ListedFds
       THEN /\ CloseBy(c, cfd[c])
            /\ clients' = [clients EXCEPT ![cfd[c]] = @ - 1]
       ELSE UNCHANGED <<clients, table, history>>
    /\ ThreadGoto(c, "end")
    /\ UNCHANGED <<kind, running, payload, apc, dpc, peer, cfd, file, asked, answer>>

-----------------------------------------------------------------------------
(* handle_client(): the thread of an HTTP client.                          *)

StartClient(c) == Thread(c, "http", "start") /\ Listing(c, "read")

\* The request is complete: it asks for the payload or for something else.
Request(c) ==
    /\ Thread(c, "http", "read")
    /\ table[cfd[c]] # Free /\ peer[c] = "up"
    /\ \E to \in {"payload", "respond"} : ThreadGoto(c, to)
    /\ asked' = [asked EXCEPT ![c] = payload]
    /\ UNCHANGED <<kind, running, clients, payload, table, apc, dpc,
                   peer, cfd, file, answer, history>>

\* Faulty: ReadFails returns without closing.
ReadFailsOpen(c) ==
    /\ Thread(c, "http", "read")
    /\ peer[c] = "gone" \/ table[cfd[c]] = Free
    /\ ThreadGoto(c, "remove")
    /\ UNCHANGED <<kind, running, clients, payload, table, apc, dpc,
                   peer, cfd, file, asked, answer, history>>

\* The connection breaks (recv() returns -1, nothing is sent) or ends early
\* (0: whatever there is of the request is answered).
ReadFails(c) ==
    /\ Thread(c, "http", "read")
    /\ peer[c] = "gone" \/ table[cfd[c]] = Free
    /\ \E to \in {"payload", "respond"} : ThreadGoto(c, to)
    /\ asked' = [asked EXCEPT ![c] = payload]
    /\ UNCHANGED <<kind, running, clients, payload, table, apc, dpc,
                   peer, cfd, file, answer, history>>

\* The copy of payload_ that the response will carry.
CopyPayload(c) ==
    /\ Thread(c, "http", "payload")
    /\ ~Destroyed
    /\ answer' = [answer EXCEPT ![c] = payload]
    /\ ThreadGoto(c, "respond")
    /\ UNCHANGED <<kind, running, clients, payload, table, apc, dpc,
                   peer, cfd, file, asked, history>>

\* Send, shut down, close: after this the number may belong to anyone.
Respond(c) ==
    /\ Thread(c, "http", "respond")
    /\ CloseBy(c, cfd[c])
    /\ ThreadGoto(c, "remove")
    /\ UNCHANGED <<kind, running, clients, payload, apc, dpc, peer, cfd, file, asked, answer>>

RemoveClient(c) ==
    /\ Thread(c, "http", "remove")
    /\ ~Destroyed
    /\ clients' = [clients EXCEPT ![cfd[c]] = IF @ > 0 THEN @ - 1 ELSE 0]
    /\ ThreadGoto(c, "end")
    /\ UNCHANGED <<kind, running, payload, table, apc, dpc,
                   peer, cfd, file, asked, answer, history>>

-----------------------------------------------------------------------------
(* publish(), called by the threads that route events.                     *)

Lost(n) == table[n] \in Conns /\ peer[table[n]] = "gone"

\* Faulty: PublishFrame closes the descriptors that fail and keeps them listed.
PublishFrameKeeps ==
    /\ kind = "websocket" /\ dpc = "alive"
    /\ \E failed \in SUBSET {n \in ListedFds : Lost(n)} :
          /\ failed # {}
          /\ table' = [n \in Fds |-> IF n \in failed THEN Free ELSE table[n]]
    /\ UNCHANGED <<kind, running, clients, payload, apc, dpc, threadVars, history>>

\* A frame to every client; where the client has gone, send() may fail.
PublishFrame ==
    /\ kind = "websocket" /\ dpc = "alive"
    /\ \E failed \in SUBSET {n \in ListedFds : Lost(n)} :
          /\ failed # {}
          /\ table' = [n \in Fds |-> IF n \in failed THEN Free ELSE table[n]]
          /\ clients' = [n \in Fds |-> IF n \in failed THEN 0 ELSE clients[n]]
    /\ UNCHANGED <<kind, running, payload, apc, dpc, threadVars, history>>

\* Faulty: PublishPayload empties the payload and lets go of the lock.
PublishPayloadInTwo ==
    /\ kind = "http" /\ dpc = "alive"
    /\ payload' \in {0, payload + 1} \cap 0..MaxPublished
    /\ UNCHANGED <<kind, running, clients, table, apc, dpc, threadVars, history>>

PublishPayload ==
    /\ kind = "http" /\ dpc = "alive"
    /\ payload < MaxPublished
    /\ payload' = payload + 1
    /\ UNCHANGED <<kind, running, clients, table, apc, dpc, threadVars, history>>

-----------------------------------------------------------------------------
(* The destructor.                                                         *)

\* Faulty: StopRunning leaves running_ set.
StopRunningForgets ==
    /\ dpc = "alive"
    /\ dpc' = "stopping"
    /\ UNCHANGED <<kind, running, clients, payload, table, apc, threadVars, history>>

StopRunning ==
    /\ dpc = "alive"
    /\ running' = FALSE
    /\ dpc' = "stopping"
    /\ UNCHANGED <<kind, clients, payload, table, apc, threadVars, history>>

\* Faulty: CloseListener leaves the socket to the end.
CloseListenerLate ==
    /\ dpc = "stopping"
    /\ dpc' = "join"
    /\ UNCHANGED <<kind, running, clients, payload, table, apc, threadVars, history>>

CloseListener ==
    /\ dpc = "stopping"
    /\ table' = [table EXCEPT ![ListenFd] = Free]
    /\ dpc' = "join"
    /\ UNCHANGED <<kind, running, clients, payload, apc, threadVars, history>>

JoinAccept ==
    /\ dpc = "join" /\ apc = "exit"
    /\ dpc' = "closing"
    /\ UNCHANGED <<kind, running, clients, payload, table, apc, threadVars, history>>

\* Shut down and close whatever the listed numbers refer to, then the members
\* are gone.
CloseClients ==
    /\ dpc = "closing"
    /\ LET shut == {table[n] : n \in ListedFds} \cap Conns
       IN /\ table' = [n \in Fds |-> IF n \in ListedFds THEN Free ELSE table[n]]
          /\ peer' = [c \in Conns |-> IF c \in shut THEN "gone" ELSE peer[c]]
          /\ stray' = (stray \/ \E n \in ListedFds : table[n] = Foreign)
    /\ dpc' = "done"
    /\ UNCHANGED <<kind, running, clients, payload, apc, cpc, cfd, file, asked, answer, cut>>

-----------------------------------------------------------------------------
Environment == ForeignOpen \/ ForeignClose \/ \E c \in Conns : Connect(c) \/ Vanish(c)

AcceptThread == AcceptLoop \/ AcceptError \/ \E c \in Conns : Accept(c)

ClientThread(c) ==
    \/ Handshake(c) \/ HandshakeFails(c) \/ AddClient(c) \/ Serve(c)
    \/ Frame(c) \/ EndOfFrames(c) \/ Leave(c)
    \/ StartClient(c) \/ Request(c) \/ ReadFails(c) \/ CopyPayload(c)
    \/ Respond(c) \/ RemoveClient(c) \/ UseDestroyed(c)

Publish == PublishFrame \/ PublishPayload

Destructor == CloseListener \/ JoinAccept \/ CloseClients

Next ==
    \/ Environment
    \/ AcceptThread
    \/ \E c \in Conns : ClientThread(c)
    \/ Publish
    \/ StopRunning \/ Destructor

Spec == Init /\ [][Next]_vars

\* The accept thread and a destructor that has begun run on.
LiveSpec == Spec /\ WF_vars(AcceptThread) /\ WF_vars(Destructor)

-----------------------------------------------------------------------------
(* Types.  A thread that holds a descriptor has one; a number is listed only
   by a thread that was given it. *)
TypeOK ==
    /\ kind \in Kinds
    /\ running \in BOOLEAN
    /\ running = (dpc = "alive")
    /\ clients \in [Fds -> Nat]
    /\ payload \in 0..MaxPublished
    /\ table \in [Fds -> Conns \cup {Free, Listener, Foreign}]
    /\ apc \in {"loop", "accept", "exit"}
    /\ dpc \in {"alive", "stopping", "join", "closing", "done"}
    /\ peer \in [Conns -> {"none", "up", "gone"}]
    /\ cpc \in [Conns -> {"none", "queued", "start", "add", "serve", "recv", "leave",
                          "read", "payload", "respond", "remove", "end", "undefined"}]
    /\ cfd \in [Conns -> Fds \cup {NoFd}]
    /\ \A c \in Conns : (cfd[c] = NoFd) = (cpc[c] \in {"none", "queued"})
    /\ file \in [Conns -> Conns \cup {NoConn}]
    /\ \A c \in Conns : (file[c] = NoConn) = (cpc[c] # "recv")
    /\ asked \in [Conns -> 0..MaxPublished]
    /\ answer \in [Conns -> 0..NoAnswer]
    /\ stray \in BOOLEAN
    /\ cut \subseteq Conns

(* publish() writes to every listed number, and Leave and the destructor close
   it: as long as a WebSocket endpoint exists, each number in clients_ is open
   on a connection of this endpoint and is listed once, in spite of threads
   that still hold numbers publish() has closed (websocket_endpoint.hpp:274). *)
ListedIsOurs ==
    kind = "websocket" /\ ~Destroyed =>
        \A n \in ListedFds : table[n] \in Conns /\ clients[n] = 1

(* Numbers are reused by the rest of the process.  No thread of an endpoint
   ever closes one that has become someone else's, except around the end of an
   HTTP endpoint, whose threads close before they unlist (endpoints.hpp:603). *)
NoForeignClose == stray => kind = "http" /\ Destroyed

(* No descriptor leaks: when the thread of a client has ended, its connection
   is closed, whichever of publish(), the thread itself, another thread and
   the destructor had to do it. *)
EndedIsClosed ==
    \A c \in Conns : cpc[c] = "end" => \A n \in Fds : table[n] # c

(* A response carries the payload of the latest publish() that was done when
   the request was complete, or of a later one. *)
ResponseFresh ==
    \A c \in Conns : answer[c] # NoAnswer => answer[c] >= asked[c]

(* The destructor wakes the accept thread out of accept() and returns, though
   clients keep connecting and numbers, the listener's among them, are reused. *)
DestructorReturns == dpc = "stopping" ~> dpc = "done"

(* "Block here reading client frames (pings/close) until disconnect"
   (websocket_endpoint.hpp:334): a connection is closed by publish() after it
   broke, by its own thread or by the destructor. *)
ServedUntilDisconnect == cut = {}
=============================================================================
