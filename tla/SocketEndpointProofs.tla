------------------------ MODULE SocketEndpointProofs ------------------------
(***************************************************************************)
(* Proofs about SocketEndpoint, for any number of clients, descriptors and *)
(* payloads, and for both kinds of endpoint.                               *)
(***************************************************************************)
EXTENDS SocketEndpoint, TLAPS

\* What a descriptor may refer to: nothing, the listener, something foreign and the
\* connections are told apart.
LEMMA Referents ==
    /\ MaxFd \in Nat /\ MaxConns \in Nat /\ MaxPublished \in Nat
    /\ Free \notin Conns /\ Listener \notin Conns /\ Foreign \notin Conns /\ NoConn \notin Conns
    /\ Free # Listener /\ Free # Foreign /\ Listener # Foreign
    /\ ListenFd \in Fds /\ NoFd \notin Fds
    /\ NoAnswer \notin 0..MaxPublished /\ NoAnswer \in Nat /\ 0..MaxPublished \subseteq 0..NoAnswer
BY SocketAssumption DEF Free, Listener, Foreign, NoConn, Conns, ListenFd, Fds, NoFd, NoAnswer

-----------------------------------------------------------------------------
(* Type correctness.                                                       *)

ThreadStates == {"none", "queued", "start", "add", "serve", "recv", "leave", "read", "payload",
                 "respond", "remove", "end", "undefined"}

\* A client that has not connected has no thread, not even a queued connection.
Arrived == \A c \in Conns : peer[c] = "none" => cpc[c] = "none"

TypeInv == TypeOK /\ Arrived

\* Initially there is the listener.
LEMMA TypeInit == Init => TypeInv
<1> SUFFICES ASSUME Init PROVE TypeInv
    OBVIOUS
<1> USE Referents
<1>1. table \in [Fds -> Conns \cup {Free, Listener, Foreign}]
    BY DEF Init
<1>2. /\ clients \in [Fds -> Nat]
      /\ asked \in [Conns -> 0..MaxPublished]
      /\ answer \in [Conns -> 0..NoAnswer]
    BY DEF Init
<1>3. /\ peer \in [Conns -> {"none", "up", "gone"}]
      /\ cfd \in [Conns -> Fds \cup {NoFd}]
      /\ file \in [Conns -> Conns \cup {NoConn}]
    BY DEF Init
<1>4. cpc \in [Conns -> ThreadStates]
    BY DEF Init, ThreadStates
<1>5. /\ \A c \in Conns : (cfd[c] = NoFd) = (cpc[c] \in {"none", "queued"})
      /\ \A c \in Conns : (file[c] = NoConn) = (cpc[c] # "recv")
    BY DEF Init
<1>6. running \in BOOLEAN /\ running = (dpc = "alive") /\ payload \in 0..MaxPublished
    <2>1. running \in BOOLEAN /\ running = (dpc = "alive")
        BY Zenon DEF Init
    <2>2. payload \in 0..MaxPublished
        BY DEF Init
    <2> QED
        BY <2>1, <2>2
<1>7. Arrived
    BY DEF Init, Arrived
<1>8. /\ kind \in Kinds /\ apc \in {"loop", "accept", "exit"}
      /\ dpc \in {"alive", "stopping", "join", "closing", "done"}
      /\ stray \in BOOLEAN /\ cut \subseteq Conns
    BY DEF Init
<1> QED
    BY <1>1, <1>2, <1>3, <1>4, <1>5, <1>6, <1>7, <1>8 DEF TypeInv, TypeOK, ThreadStates

\* The rest of the process and the accept thread preserve the types.
LEMMA AcceptTypeStep == TypeInv /\ (Environment \/ AcceptThread) => TypeInv'
<1> SUFFICES ASSUME TypeInv, Environment \/ AcceptThread PROVE TypeInv'
    OBVIOUS
<1> USE Referents DEF TypeInv, TypeOK, Arrived, threadVars, history
<1>1. ASSUME NEW c \in Conns, Connect(c) PROVE TypeInv'
    BY <1>1 DEF Connect
<1>2. ASSUME NEW c \in Conns, Vanish(c) PROVE TypeInv'
    BY <1>2 DEF Vanish
<1>3. CASE ForeignOpen
    BY <1>3 DEF ForeignOpen
<1>4. CASE ForeignClose
    BY <1>4 DEF ForeignClose
<1>5. CASE AcceptLoop
    BY <1>5 DEF AcceptLoop
<1>6. CASE AcceptError
    BY <1>6 DEF AcceptError
<1>7. ASSUME NEW c \in Conns, Accept(c) PROVE TypeInv'
    BY <1>7 DEF Accept
<1> QED
    BY <1>1, <1>2, <1>3, <1>4, <1>5, <1>6, <1>7 DEF Environment, AcceptThread

\* So do the client threads ...
LEMMA ClientTypeStep == ASSUME TypeInv, NEW c \in Conns, ClientThread(c) PROVE TypeInv'
<1> USE Referents DEF TypeInv, TypeOK, Arrived, history, Thread, ThreadGoto, CloseBy
<1>1. CASE Handshake(c)
    BY <1>1 DEF Handshake
<1>2. CASE HandshakeFails(c)
    BY <1>2 DEF HandshakeFails
<1>3. CASE AddClient(c)
    BY <1>3 DEF AddClient, Listing
<1>4. CASE Serve(c)
    BY <1>4 DEF Serve
<1>5. CASE Frame(c)
    BY <1>5 DEF Frame
<1>6. CASE EndOfFrames(c)
    BY <1>6 DEF EndOfFrames
<1>7. CASE Leave(c)
    <2>1. cfd[c] \in Fds
        BY <1>7 DEF Leave
    <2>2. CASE cfd[c] \in ListedFds
        <3>1. clients' = [clients EXCEPT ![cfd[c]] = @ - 1] /\ clients[cfd[c]] > 0
            BY <1>7, <2>2 DEF Leave, ListedFds
        <3>2. clients' \in [Fds -> Nat]
            BY <2>1, <3>1
        <3> QED
            BY <1>7, <2>1, <2>2, <3>2 DEF Leave
    <2>3. CASE cfd[c] \notin ListedFds
        BY <1>7, <2>3 DEF Leave
    <2> QED
        BY <2>2, <2>3
<1>8. CASE StartClient(c)
    BY <1>8 DEF StartClient, Listing
<1>9. CASE Request(c)
    BY <1>9 DEF Request
<1>10. CASE ReadFails(c)
    BY <1>10 DEF ReadFails
<1>11. CASE CopyPayload(c)
    BY <1>11 DEF CopyPayload
<1>12. CASE Respond(c)
    BY <1>12 DEF Respond
<1>13. CASE RemoveClient(c)
    BY <1>13 DEF RemoveClient
<1>14. CASE UseDestroyed(c)
    BY <1>14 DEF UseDestroyed
<1> QED
    BY <1>1, <1>2, <1>3, <1>4, <1>5, <1>6, <1>7, <1>8, <1>9, <1>10, <1>11, <1>12, <1>13, <1>14
    DEF ClientThread

\* ... publish() and the destructor.
LEMMA OwnerTypeStep == TypeInv /\ (Publish \/ StopRunning \/ Destructor) => TypeInv'
<1> SUFFICES ASSUME TypeInv, Publish \/ StopRunning \/ Destructor PROVE TypeInv'
    OBVIOUS
<1> USE Referents DEF TypeInv, TypeOK, Arrived, threadVars, history
<1>1. CASE PublishFrame
    BY <1>1 DEF PublishFrame
<1>2. CASE PublishPayload
    BY <1>2 DEF PublishPayload
<1>3. CASE StopRunning
    BY <1>3 DEF StopRunning
<1>4. CASE CloseListener
    BY <1>4 DEF CloseListener
<1>5. CASE JoinAccept
    BY <1>5 DEF JoinAccept
<1>6. CASE CloseClients
    BY <1>6 DEF CloseClients
<1> QED
    BY <1>1, <1>2, <1>3, <1>4, <1>5, <1>6 DEF Publish, Destructor

\* Every step preserves the types.
LEMMA TypeStep == TypeInv /\ [Next]_vars => TypeInv'
<1>1. ASSUME TypeInv, UNCHANGED vars PROVE TypeInv'
    BY <1>1 DEF TypeInv, TypeOK, Arrived, vars, threadVars, history
<1> QED
    BY <1>1, AcceptTypeStep, ClientTypeStep, OwnerTypeStep DEF Next

\* Every variable keeps its type; in particular a thread that was given a number has
\* one, and running_ is true until the destructor runs.
THEOREM TypeCorrect == Spec => []TypeOK
<1>1. TypeInv => TypeOK
    BY DEF TypeInv
<1> QED
    BY <1>1, TypeInit, TypeStep, PTL DEF Spec

-----------------------------------------------------------------------------
(* Whose descriptor a number is.                                           *)

Owns(c) == table[cfd[c]] = c

\* A connection is open on the number its thread was given, and on no other.
NumberOf == \A n \in Fds : table[n] \in Conns => cfd[table[n]] = n

\* A WebSocket thread that is not listed yet still owns its number ...
HandshakeOwns ==
    kind = "websocket" => \A c \in Conns : cpc[c] \in {"start", "add"} => Owns(c)

\* ... a listed number belongs to a thread that serves, although not necessarily to
\* the thread that listed it ...
ListedServed ==
    kind = "websocket" /\ ~Destroyed =>
        \A n \in ListedFds :
            /\ table[n] \in Conns /\ clients[n] = 1
            /\ cpc[table[n]] \in {"serve", "recv", "leave"}

\* ... and a serving thread that owns its number is listed.
OwnerListed ==
    kind = "websocket" /\ ~Destroyed =>
        \A c \in Conns : cpc[c] \in {"serve", "recv", "leave"} /\ Owns(c) => cfd[c] \in ListedFds

\* An HTTP thread owns its number until it closes it, while the endpoint exists.
RequestOwns ==
    kind = "http" /\ ~Destroyed =>
        \A c \in Conns : cpc[c] \in {"start", "read", "payload", "respond"} => Owns(c)

\* A thread that has closed its number is nowhere in the table.
ClosedIsGone ==
    \A c \in Conns : cpc[c] \in {"remove", "end"} => \A n \in Fds : table[n] # c

\* The listener keeps its number until the destructor closes it.
Listening == dpc \in {"alive", "stopping"} => table[ListenFd] = Listener

FdInv ==
    /\ TypeInv /\ NumberOf /\ HandshakeOwns /\ ListedServed /\ OwnerListed /\ RequestOwns
    /\ ClosedIsGone /\ Listening /\ NoForeignClose

\* Initially no connection is open.
LEMMA FdInit == Init => FdInv
<1> SUFFICES ASSUME Init PROVE FdInv
    OBVIOUS
<1>1. \A n \in Fds : table[n] \notin Conns /\ clients[n] = 0
    BY Referents DEF Init
<1>2. \A c \in Conns : cpc[c] = "none"
    BY DEF Init
<1>3. Listening /\ NoForeignClose
    BY Referents DEF Init, Listening, NoForeignClose
<1> QED
    BY <1>1, <1>2, <1>3, TypeInit
    DEF FdInv, NumberOf, HandshakeOwns, ListedServed, OwnerListed, RequestOwns, ClosedIsGone,
        ListedFds

\* A number that is given out again, to a client or to someone else, was nobody's;
\* a foreign number that is closed stays nobody's.
LEMMA AcceptFdStep == FdInv /\ (Environment \/ AcceptThread) => FdInv'
<1> SUFFICES ASSUME FdInv, Environment \/ AcceptThread PROVE FdInv'
    OBVIOUS
<1>1. TypeInv'
    BY AcceptTypeStep DEF FdInv
<1> USE Referents, <1>1
        DEF FdInv, TypeInv, TypeOK, NumberOf, HandshakeOwns, ListedServed, OwnerListed,
            RequestOwns, ClosedIsGone, Listening, NoForeignClose, Owns, Destroyed, ListedFds,
            threadVars, history
<1>2. ASSUME NEW c \in Conns, Connect(c) PROVE FdInv'
    BY <1>2 DEF Connect, Arrived
<1>3. ASSUME NEW c \in Conns, Vanish(c) PROVE FdInv'
    BY <1>3 DEF Vanish
<1>4. CASE ForeignOpen
    BY <1>4 DEF ForeignOpen, IsNext, FreeFds
<1>5. CASE ForeignClose
    BY <1>5 DEF ForeignClose
<1>6. CASE AcceptLoop
    BY <1>6 DEF AcceptLoop
<1>7. CASE AcceptError
    BY <1>7 DEF AcceptError
<1>8. ASSUME NEW c \in Conns, Accept(c) PROVE FdInv'
    BY <1>8 DEF Accept, IsNext, FreeFds
<1> QED
    BY <1>2, <1>3, <1>4, <1>5, <1>6, <1>7, <1>8 DEF Environment, AcceptThread

\* The thread of a client closes its own number, or one that is listed.
LEMMA ClientFdStep == ASSUME FdInv, NEW c \in Conns, ClientThread(c) PROVE FdInv'
<1>1. TypeInv'
    BY ClientTypeStep DEF FdInv
<1> USE Referents, <1>1
        DEF FdInv, TypeInv, TypeOK, NumberOf, HandshakeOwns, ListedServed, OwnerListed,
            RequestOwns, ClosedIsGone, Listening, NoForeignClose, Owns, Destroyed, ListedFds,
            history, Thread, ThreadGoto, CloseBy
<1>2. CASE Handshake(c)
    BY <1>2 DEF Handshake
<1>3. CASE HandshakeFails(c)
    BY <1>3 DEF HandshakeFails
<1>4. CASE AddClient(c)
    BY <1>4 DEF AddClient, Listing
<1>5. CASE Serve(c)
    BY <1>5 DEF Serve
<1>6. CASE Frame(c)
    BY <1>6 DEF Frame
<1>7. CASE EndOfFrames(c)
    BY <1>7 DEF EndOfFrames
<1>8. CASE Leave(c)
    BY <1>8 DEF Leave
<1>9. CASE StartClient(c)
    BY <1>9 DEF StartClient, Listing
<1>10. CASE Request(c)
    BY <1>10 DEF Request
<1>11. CASE ReadFails(c)
    BY <1>11 DEF ReadFails
<1>12. CASE CopyPayload(c)
    BY <1>12 DEF CopyPayload
<1>13. CASE Respond(c)
    BY <1>13 DEF Respond
<1>14. CASE RemoveClient(c)
    BY <1>14 DEF RemoveClient
<1>15. CASE UseDestroyed(c)
    BY <1>15 DEF UseDestroyed
<1> QED
    BY <1>2, <1>3, <1>4, <1>5, <1>6, <1>7, <1>8, <1>9, <1>10, <1>11, <1>12, <1>13, <1>14, <1>15
    DEF ClientThread

\* publish() and the destructor close listed numbers, and the listener once.
LEMMA OwnerFdStep == FdInv /\ (Publish \/ StopRunning \/ Destructor) => FdInv'
<1> SUFFICES ASSUME FdInv, Publish \/ StopRunning \/ Destructor PROVE FdInv'
    OBVIOUS
<1>1. TypeInv'
    BY OwnerTypeStep DEF FdInv
<1> USE Referents, <1>1
        DEF FdInv, TypeInv, TypeOK, NumberOf, HandshakeOwns, ListedServed, OwnerListed,
            RequestOwns, ClosedIsGone, Listening, NoForeignClose, Owns, Destroyed, ListedFds,
            threadVars, history
<1>2. CASE PublishFrame
    BY <1>2 DEF PublishFrame
<1>3. CASE PublishPayload
    BY <1>3 DEF PublishPayload
<1>4. CASE StopRunning
    BY <1>4 DEF StopRunning
<1>5. CASE CloseListener
    BY <1>5 DEF CloseListener
<1>6. CASE JoinAccept
    BY <1>6 DEF JoinAccept
<1>7. CASE CloseClients
    <2>1. \A n \in Fds : table'[n] = IF n \in ListedFds THEN Free ELSE table[n]
        BY <1>7 DEF CloseClients
    <2>2. dpc' = "done" /\ UNCHANGED <<kind, clients, cpc, cfd>>
        BY <1>7 DEF CloseClients
    <2>3. NumberOf' /\ ClosedIsGone'
        BY <2>1, <2>2
    <2>4. HandshakeOwns'
        <3>1. kind = "websocket" => \A n \in ListedFds : cpc[table[n]] \in {"serve", "recv", "leave"}
            BY <1>7 DEF CloseClients
        <3>2. \A c \in Conns : cpc[c] \in {"start", "add"} => cfd[c] \in Fds
            OBVIOUS
        <3> QED
            BY <2>1, <2>2, <3>1, <3>2
    <2>5. NoForeignClose'
        <3>1. kind = "websocket" => \A n \in ListedFds : table[n] # Foreign
            BY <1>7 DEF CloseClients
        <3>2. stray' => stray \/ \E n \in ListedFds : table[n] = Foreign
            BY <1>7 DEF CloseClients
        <3>3. kind \in {"websocket", "http"}
            BY SocketAssumption
        <3> QED
            BY <2>2, <3>1, <3>2, <3>3
    <2> QED
        BY <2>2, <2>3, <2>4, <2>5
<1> QED
    BY <1>2, <1>3, <1>4, <1>5, <1>6, <1>7 DEF Publish, Destructor

\* Every step preserves who owns which number.
LEMMA FdStep == FdInv /\ [Next]_vars => FdInv'
<1> SUFFICES ASSUME FdInv, [Next]_vars PROVE FdInv'
    OBVIOUS
<1>1. CASE UNCHANGED vars
    BY <1>1, TypeStep
    DEF vars, FdInv, NumberOf, HandshakeOwns, ListedServed, OwnerListed, RequestOwns,
        ClosedIsGone, Listening, NoForeignClose, Owns, Destroyed, ListedFds, threadVars, history
<1> QED
    BY <1>1, AcceptFdStep, ClientFdStep, OwnerFdStep DEF Next

\* As long as a WebSocket endpoint exists, every number in clients_ is open on one of
\* its connections and listed once, whichever stale numbers its threads hold.
THEOREM ListedCorrect == Spec => []ListedIsOurs
<1>1. FdInv => ListedIsOurs
    BY DEF FdInv, ListedServed, ListedIsOurs
<1> QED
    BY <1>1, FdInit, FdStep, PTL DEF Spec

\* No endpoint closes a descriptor of another part of the process, except an HTTP
\* endpoint around its end.
THEOREM CloseCorrect == Spec => []NoForeignClose
<1>1. FdInv => NoForeignClose
    BY DEF FdInv
<1> QED
    BY <1>1, FdInit, FdStep, PTL DEF Spec

\* The connection of a thread that has ended is closed: no descriptor leaks.
THEOREM EndCorrect == Spec => []EndedIsClosed
<1>1. FdInv => EndedIsClosed
    BY DEF FdInv, ClosedIsGone, EndedIsClosed
<1> QED
    BY <1>1, FdInit, FdStep, PTL DEF Spec

-----------------------------------------------------------------------------
(* Which payload a response carries.                                       *)

\* The payload only grows, and a response is built once, after the request.
NotAnswered ==
    \A c \in Conns : cpc[c] \in {"none", "queued", "start", "read", "payload"} => answer[c] = NoAnswer

AnswerInv == TypeInv /\ NotAnswered /\ (\A c \in Conns : asked[c] <= payload) /\ ResponseFresh

\* Every step preserves the order of request and payload.
LEMMA AnswerStep == AnswerInv /\ [Next]_vars => AnswerInv'
<1> SUFFICES ASSUME AnswerInv, [Next]_vars PROVE AnswerInv'
    OBVIOUS
<1>1. TypeInv'
    BY TypeStep DEF AnswerInv
<1> USE Referents, <1>1
        DEF AnswerInv, TypeInv, TypeOK, NotAnswered, ResponseFresh, threadVars, history,
            Thread, ThreadGoto
<1>2. CASE Environment
    BY <1>2 DEF Environment, ForeignOpen, ForeignClose, Connect, Vanish
<1>3. CASE AcceptThread
    BY <1>3 DEF AcceptThread, AcceptLoop, AcceptError, Accept
<1>4. ASSUME NEW c \in Conns, ClientThread(c) PROVE AnswerInv'
    <2>1. CASE Handshake(c) \/ HandshakeFails(c) \/ AddClient(c) \/ StartClient(c)
        BY <2>1 DEF Handshake, HandshakeFails, AddClient, StartClient, Listing
    <2>2. CASE Serve(c)
        BY <2>2 DEF Serve
    <2>3. CASE Frame(c) \/ EndOfFrames(c) \/ Leave(c)
        BY <2>3 DEF Frame, EndOfFrames, Leave
    <2>4. CASE Request(c) \/ ReadFails(c)
        BY <2>4 DEF Request, ReadFails
    <2>5. CASE CopyPayload(c)
        BY <2>5 DEF CopyPayload
    <2>6. CASE Respond(c) \/ RemoveClient(c) \/ UseDestroyed(c)
        BY <2>6 DEF Respond, RemoveClient, UseDestroyed
    <2> QED
        BY <1>4, <2>1, <2>2, <2>3, <2>4, <2>5, <2>6 DEF ClientThread
<1>5. CASE Publish
    BY <1>5 DEF Publish, PublishFrame, PublishPayload
<1>6. CASE StopRunning \/ Destructor
    BY <1>6 DEF StopRunning, Destructor, CloseListener, JoinAccept, CloseClients
<1>7. CASE UNCHANGED vars
    BY <1>7 DEF vars
<1> QED
    BY <1>2, <1>3, <1>4, <1>5, <1>6, <1>7 DEF Next

\* A response never carries a payload older than the latest one published before
\* the request was complete.
THEOREM FreshCorrect == Spec => []ResponseFresh
<1>1. Init => AnswerInv
    <2> SUFFICES ASSUME Init PROVE AnswerInv
        OBVIOUS
    <2>1. \A c \in Conns : asked[c] = 0 /\ answer[c] = NoAnswer
        BY DEF Init
    <2>2. payload = 0
        BY DEF Init
    <2> QED
        BY <2>1, <2>2, TypeInit DEF AnswerInv, NotAnswered, ResponseFresh
<1>2. AnswerInv => ResponseFresh
    BY DEF AnswerInv
<1> QED
    BY <1>1, <1>2, AnswerStep, PTL DEF Spec
=============================================================================
