------------------------------- MODULE Router -------------------------------
(***************************************************************************)
(* Events on their way through a configured pipeline: the configuration    *)
(* file becomes a route table (Config), ingestors and telemetry emit,      *)
(* StreamRouter::route() (core/stream_router.hpp) delivers to script       *)
(* queues and through the Publisher (publisher/publisher.hpp) to           *)
(* endpoints, scripts turn events into others (ScriptCodec) that their     *)
(* threads rename and route again.                                         *)
(*                                                                         *)
(* A queue is what ScriptQueue promises while it is not lapped: messages   *)
(* in the order of route().  Starting and stopping is the subject of       *)
(* Pipeline, the registry that route() pushes into of WindowRegistry, the  *)
(* counters of Telemetry.                                                  *)
(*                                                                         *)
(* An event carries its history: where it comes from, its number there,    *)
(* the payload it had, and the scripts it came through.                    *)
(***************************************************************************)
EXTENDS Config, ScriptCodec

CONSTANTS
    Files,          \* configuration files: sequences of lines
    Native,         \* the stream name the ingestor plugins use
    MaxEvents,      \* bound: events of the first ingestor, of the second, ...; none of others
    MaxReports      \* bound: events of the telemetry thread

ASSUME RouterAssumption ==
    /\ MaxEvents \in Seq(Nat)
    /\ MaxReports \in Nat
    /\ \A f \in Files : f \in Seq(Range(f)) /\ \A line \in Range(f) : IsLine(line)

VARIABLES
    file,           \* the file the program is started with
    status,         \* "running", "refused" (parse() threw) or "failed" (start_pipeline() did)
    route_table,    \* route_table_
    handlers,       \* handlers_: script id -> its queue
    endpoints,      \* endpoints_: id -> type
    script_data,    \* the [script] sections that have a queue and a thread, by their number
    plugins,        \* the [ingestor] sections whose plugins run, by their number
    queue,          \* per script: the events in its queue
    memory,         \* per script: the output zone of its WASM memory
    outs,           \* per script thread: emitted events it has yet to route
    job,            \* per thread: the event in route() and the targets left
    mu,             \* Publisher::mu_: its holder, or NoThread
    stalled,        \* endpoints whose publish() blocks
    sent,           \* per source: events emitted
    received        \* per endpoint: the events published to it
vars == <<file, status, route_table, handlers, endpoints, script_data, plugins, queue, memory, outs,
          job, mu, stalled, sent, received>>

tables == <<file, status, route_table, handlers, endpoints, script_data, plugins>>
scriptVars == <<queue, memory, outs>>

-----------------------------------------------------------------------------
TelemetryThread == <<"telemetry", 0>>
Sources ==
    IF status # "running" THEN {}
    ELSE {<<"ingestor", i>> : i \in DOMAIN plugins} \cup {TelemetryThread}
Workers == IF status # "running" THEN {} ELSE {<<"script", x>> : x \in DOMAIN script_data}
Threads == Sources \cup Workers
NoThread == <<"none", 0>>

Ordinal(i) == Cardinality({k \in DOMAIN plugins : k <= i})

Limit(t) ==
    IF t = TelemetryThread THEN MaxReports
    ELSE IF Ordinal(t[2]) \in DOMAIN MaxEvents THEN MaxEvents[Ordinal(t[2])]
    ELSE 0

\* The payload of a source's event: as many cells as there can be.
PayloadOf(t, n) ==
    [i \in 1..PAYLOAD_MAX |-> (IF t = TelemetryThread THEN 900 ELSE 100 * t[2]) + 10 * n + i]

\* Renaming, in an ingestor's callback and in a script's thread.
Renamed(e, name) == IF name = "" THEN e ELSE [e EXCEPT !.stream_id = name]

\* The n-th event of source t, as it enters route().
Emission(t, n) ==
    LET e == [timestamp_ns |-> 10 + n, sequence |-> IF t = TelemetryThread THEN 0 ELSE n - 1,
              lineage_depth |-> 0,
              stream_id |-> IF t = TelemetryThread THEN "telemetry" ELSE Native,
              schema_id |-> "schema", payload |-> PayloadOf(t, n)]
    IN Renamed(e, IF t = TelemetryThread THEN "" ELSE Value(plugins[t[2]], "as"))

History(t, n, path) == [src |-> t, n |-> n, path |-> path]

\* The targets of a stream; without a route the event is dropped.
Targets(stream) == Get(route_table, stream)

Idle(t) == job[t].todo = <<>>

\* The tables that parse() and start_pipeline() make of the file.
Configured ==
    /\ file \in Files
    /\ LET cfg == parse(file)
       IN /\ status = CASE ~cfg.ok -> "refused"
                        [] cfg.ok /\ Ingestors(cfg) = {} -> "failed"
                        [] OTHER -> "running"
          /\ route_table = parse_routes(cfg)
          /\ handlers = Handlers(cfg)
          /\ endpoints = AllEndpoints(cfg)
          /\ script_data = [i \in Scripts(cfg) |-> cfg.sections[i]]
          /\ plugins = [i \in Ingestors(cfg) |-> cfg.sections[i]]

Init ==
    /\ Configured
    /\ queue = [w \in Workers |-> <<>>]
    /\ memory = [w \in Workers |-> NewMemory]
    /\ outs = [w \in Workers |-> <<>>]
    /\ job = [t \in Threads |-> [ev |-> <<>>, hist |-> <<>>, todo |-> <<>>]]
    /\ mu = NoThread
    /\ stalled = {}
    /\ sent = [t \in Sources |-> 0]
    /\ received = [id \in DOMAIN endpoints |-> <<>>]

-----------------------------------------------------------------------------
(* Threads that route events.                                              *)

Enter(t, e, hist) ==
    job' = [job EXCEPT ![t] = [ev |-> e, hist |-> hist, todo |-> Targets(e.stream_id)]]

\* An ingestor or the telemetry thread calls route().
Emit(t) ==
    /\ Idle(t)
    /\ sent[t] < Limit(t)
    /\ sent' = [sent EXCEPT ![t] = @ + 1]
    /\ Enter(t, Emission(t, sent[t] + 1), History(t, sent[t] + 1, <<>>))
    /\ UNCHANGED <<tables, scriptVars, mu, stalled, received>>

\* The next target, and that it is done with.
Target(t) == Head(job[t].todo)
Next_target(t) == job' = [job EXCEPT ![t].todo = Tail(@)]

\* Faulty: Enqueue puts the event in the queue's front.
EnqueueFront(t) ==
    /\ ~Idle(t) /\ Target(t) \in DOMAIN handlers
    /\ LET w == <<"script", handlers[Target(t)]>>
       IN queue' = [queue EXCEPT ![w] = <<[ev |-> job[t].ev, hist |-> job[t].hist]>> \o @]
    /\ Next_target(t)
    /\ UNCHANGED <<tables, memory, outs, mu, stalled, sent, received>>

\* The target is a script.
Enqueue(t) ==
    /\ ~Idle(t) /\ Target(t) \in DOMAIN handlers
    /\ LET w == <<"script", handlers[Target(t)]>>
       IN queue' = [queue EXCEPT ![w] = Append(@, [ev |-> job[t].ev, hist |-> job[t].hist])]
    /\ Next_target(t)
    /\ UNCHANGED <<tables, memory, outs, mu, stalled, sent, received>>

AtEndpoint(t) == ~Idle(t) /\ Target(t) \in DOMAIN endpoints \ DOMAIN handlers

\* The target is an endpoint: publish_to() takes the publisher's mutex, as
\* has_endpoint() has done before it.
Lock(t) ==
    /\ AtEndpoint(t)
    /\ mu = NoThread
    /\ mu' = t
    /\ UNCHANGED <<tables, scriptVars, job, stalled, sent, received>>

\* Faulty: PublishTo returns without unlocking.
PublishToLocked(t) ==
    /\ AtEndpoint(t) /\ mu = t
    /\ Target(t) \notin stalled
    /\ received' = [received EXCEPT ![Target(t)] =
                        Append(@, [ev |-> job[t].ev, hist |-> job[t].hist])]
    /\ Next_target(t)
    /\ UNCHANGED <<tables, scriptVars, mu, stalled, sent>>

\* endpoint->publish(ev) returns, and publish_to() with it.
PublishTo(t) ==
    /\ AtEndpoint(t) /\ mu = t
    /\ Target(t) \notin stalled
    /\ received' = [received EXCEPT ![Target(t)] =
                        Append(@, [ev |-> job[t].ev, hist |-> job[t].hist])]
    /\ mu' = NoThread
    /\ Next_target(t)
    /\ UNCHANGED <<tables, scriptVars, stalled, sent>>

\* Neither: has_endpoint(), which takes the mutex too, says no; the target is
\* logged and skipped.
Unknown(t) ==
    /\ ~Idle(t) /\ Target(t) \notin DOMAIN endpoints \cup DOMAIN handlers
    /\ mu = NoThread
    /\ Next_target(t)
    /\ UNCHANGED <<tables, scriptVars, mu, stalled, sent, received>>

Route(t) == Enqueue(t) \/ Lock(t) \/ PublishTo(t) \/ Unknown(t)

-----------------------------------------------------------------------------
(* The thread of a script.                                                 *)

Section_of(w) == script_data[w[2]]

\* The script on an event: its memory afterwards, and what it emits.
Invocation(w, e) ==
    IF Value(Section_of(w), "runtime") = "python"
    THEN [mem |-> memory[w], emitted |-> invoke_snapshot(e)]
    ELSE invoke_zero_copy(e, memory[w])

\* History of what a script emits.
Through(w, hist) == [hist EXCEPT !.path = Append(@, Value(Section_of(w), "id"))]

\* wait_for_trigger() returns an event and the script is invoked on it.
Invoke(w) ==
    /\ Idle(w) /\ outs[w] = <<>> /\ queue[w] # <<>>
    /\ \E run \in {Invocation(w, Head(queue[w]).ev)} :
          /\ memory' = [memory EXCEPT ![w] = run.mem]
          /\ outs' = [outs EXCEPT ![w] = [i \in DOMAIN run.emitted |->
                [ev |-> run.emitted[i], hist |-> Through(w, Head(queue[w]).hist)]]]
    /\ queue' = [queue EXCEPT ![w] = Tail(@)]
    /\ UNCHANGED <<tables, job, mu, stalled, sent, received>>

\* Faulty: Reroute leaves the name the script gave the event.
RerouteAsIs(w) ==
    /\ Idle(w) /\ outs[w] # <<>>
    /\ Enter(w, Head(outs[w]).ev, Head(outs[w]).hist)
    /\ outs' = [outs EXCEPT ![w] = Tail(@)]
    /\ UNCHANGED <<tables, queue, memory, mu, stalled, sent, received>>

\* The thread calls route() with the next event of the script.
Reroute(w) ==
    /\ Idle(w) /\ outs[w] # <<>>
    /\ Enter(w, Renamed(Head(outs[w]).ev, output_stream(Section_of(w))), Head(outs[w]).hist)
    /\ outs' = [outs EXCEPT ![w] = Tail(@)]
    /\ UNCHANGED <<tables, queue, memory, mu, stalled, sent, received>>

-----------------------------------------------------------------------------
(* A client of a WebSocket endpoint stops reading, and reads on: in between
   send() blocks inside publish(). *)
Stall(id) ==
    /\ endpoints[id] = "websocket" /\ id \notin stalled
    /\ stalled' = stalled \cup {id}
    /\ UNCHANGED <<tables, scriptVars, job, mu, sent, received>>

Resume(id) ==
    /\ id \in stalled
    /\ stalled' = stalled \ {id}
    /\ UNCHANGED <<tables, scriptVars, job, mu, sent, received>>

Next ==
    \/ \E t \in Sources : Emit(t)
    \/ \E t \in Threads : Route(t)
    \/ \E w \in Workers : Invoke(w) \/ Reroute(w)
    \/ \E id \in DOMAIN endpoints : Stall(id) \/ Resume(id)

Spec == Init /\ [][Next]_vars

\* Threads that have work do it, and one that holds the mutex gets through to
\* clients that read again and again.
LiveSpec ==
    /\ Spec
    /\ WF_vars(\E t \in Threads : Enqueue(t) \/ Lock(t) \/ Unknown(t))
    /\ WF_vars(\E w \in Workers : Invoke(w) \/ Reroute(w))
    /\ WF_vars(\E id \in DOMAIN endpoints : Resume(id))
    /\ SF_vars(\E t \in Threads : PublishTo(t))

-----------------------------------------------------------------------------
(* What the file says, read off its lines.                                 *)

Headers(name) == {j \in DOMAIN file : file[j].tag = "section" /\ file[j].name = name}

\* The line that opens the i-th section.
HeaderOf(i) ==
    CHOOSE j \in DOMAIN file :
        /\ file[j].tag = "section"
        /\ Cardinality({k \in 1..j : file[k].tag = "section"}) = i

\* Line i stands in the section that line j opens.
Under(i, j) ==
    /\ j < i /\ file[i].tag = "pair" /\ file[j].tag = "section"
    /\ \A k \in j + 1 .. i : file[k].tag # "section"

Malformed ==
    \/ \E i \in DOMAIN file : file[i].tag = "junk"
    \/ \E i \in DOMAIN file : file[i].tag = "pair" /\ ~ \E j \in DOMAIN file : Under(i, j)
    \/ \E j, i, k \in DOMAIN file :
          /\ Under(i, j) /\ Under(k, j) /\ i # k
          /\ file[i].key = file[k].key /\ ~is_multi_key(file[i].key)

Entries(j, key) == {i \in DOMAIN file : Under(i, j) /\ file[i].key = key}

\* The first value written for a key, or def.
Entry(j, key, def) ==
    LET given == {i \in Entries(j, key) : file[i].val # <<>>}
    IN IF given = {} THEN def ELSE file[Min(given)].val[1]

\* A stream that has the name of a multi key cannot be routed.
Written(stream, target) ==
    /\ ~is_multi_key(stream)
    /\ \E j \in Headers("routes") : \E i \in Entries(j, stream) : target \in Range(file[i].val)

\* The [script]s that run: the last complete one of each id.
Complete ==
    {j \in Headers("script") :
        /\ \A key \in {"id", "runtime", "path", "trigger"} : Entry(j, key, "") # ""
        /\ Entry(j, "runtime", "") \in {"python", "wasm"}}
IdOf(j) == Entry(j, "id", "")
Running == {j \in Complete : \A k \in Complete : IdOf(k) = IdOf(j) => k <= j}

\* The stream on which a [script]'s events come out, and those of an [ingestor].
OutOf(j) ==
    Entry(j, "emits", IF Entry(j, "runtime", "") = "wasm" THEN "wasm_processed" ELSE "py_processed")

StreamOf(t) ==
    IF t = TelemetryThread THEN "telemetry"
    ELSE Entry(HeaderOf(t[2]), "as", Native)

\* The chains of scripts from a stream to an endpoint.  A script hides an endpoint
\* of its name.
Chains(stream, id) ==
    {p \in UNION {[1..k -> Running] : k \in 0..Cardinality(Running)} :
        /\ \A k \in DOMAIN p :
              Written(IF k = 1 THEN stream ELSE OutOf(p[k - 1]), IdOf(p[k]))
        /\ Written(IF p = <<>> THEN stream ELSE OutOf(p[Len(p)]), id)
        /\ \A j \in Running : IdOf(j) # id}

Histories(id) ==
    UNION {{History(t, n, [k \in DOMAIN p |-> IdOf(p[k])]) :
                n \in 1..sent[t], p \in Chains(StreamOf(t), id)} : t \in Sources}

-----------------------------------------------------------------------------
Quiet ==
    /\ \A t \in Threads : Idle(t)
    /\ \A w \in Workers : queue[w] = <<>> /\ outs[w] = <<>>

(* Types.  Who holds the mutex is on its way into an endpoint. *)
TypeOK ==
    /\ status \in {"running", "refused", "failed"}
    /\ Range(handlers) \subseteq DOMAIN script_data
    /\ Range(endpoints) \subseteq EndpointTypes
    /\ DOMAIN queue = Workers /\ DOMAIN outs = Workers /\ DOMAIN job = Threads
    /\ \A w \in Workers : Len(memory[w]) = Len(NewMemory)
    /\ mu # NoThread => AtEndpoint(mu)
    /\ stalled \subseteq DOMAIN endpoints
    /\ \A t \in Sources : sent[t] \in 0..Limit(t)

(* parse() refuses a file exactly if something is wrong with one of its lines,
   and the route table sends a stream where some line of some [routes] section
   sends it, and nowhere else (config.hpp:49, 109).  Looked at before the first
   event: the tables do not change. *)
ParsedAsWritten ==
    (\A t \in Sources : sent[t] = 0) =>
        /\ Malformed <=> status = "refused"
        /\ ~Malformed =>
            /\ (status = "running") = (\E j \in Headers("ingestor") : Entry(j, "plugin", "") # "")
            /\ \A i, k \in DOMAIN file :
                  file[i].tag = "pair" /\ file[k].tag = "pair" =>
                      \A target \in Range(file[k].val) :
                          Written(file[i].key, target) <=> target \in Range(Targets(file[i].key))

(* When nothing is under way, each event has reached each endpoint once for
   every chain of scripts that the file leads it through, renamed by "as" and
   "emits" on the way, and no other event has (stream_router.hpp:88). *)
EveryChainOnce ==
    Quiet => \A id \in DOMAIN endpoints :
        LET got == [i \in DOMAIN received[id] |-> received[id][i].hist]
        IN /\ Range(got) = Histories(id)
           /\ Len(got) = Cardinality(Histories(id))

(* Events of one source that take the same way arrive in the order they were
   emitted, whatever the threads of other scripts do. *)
ChainOrder ==
    \A id \in DOMAIN endpoints : \A i, j \in DOMAIN received[id] :
        LET a == received[id][i].hist
            b == received[id][j].hist
        IN i < j /\ a.src = b.src /\ a.path = b.path => a.n < b.n

Original(h) == Emission(h.src, h.n)
IsWasm(id) == Value(script_data[handlers[id]], "runtime") = "wasm"

(* Through every layout and dictionary an event keeps its sequence number and
   the size of its payload; unless it went through a WASM script the payload
   itself; and unless it went through a Python script, whose dictionary has
   neither, its timestamp and lineage. *)
FieldsKept ==
    \A id \in DOMAIN endpoints : \A i \in DOMAIN received[id] :
        LET m == received[id][i]
        IN /\ m.ev.sequence = Original(m.hist).sequence
           /\ Len(m.ev.payload) = Len(Original(m.hist).payload)
           /\ (\A k \in DOMAIN m.hist.path : ~IsWasm(m.hist.path[k])) =>
                  m.ev.payload = Original(m.hist).payload
           /\ (\A k \in DOMAIN m.hist.path : IsWasm(m.hist.path[k])) =>
                  /\ m.ev.timestamp_ns = Original(m.hist).timestamp_ns
                  /\ m.ev.lineage_depth = Original(m.hist).lineage_depth

(* Whatever is emitted gets to an end: every event in route(), in a queue or in
   a script's output is dealt with, though endpoints block under the mutex that
   all of them share (publisher.hpp:43). *)
AlwaysSettles == []<>Quiet

(* "Copy payload" (examples/scripts/passthrough.c:182): what a passthrough script emits carries
   the payload of the event that triggered it. *)
PayloadKept ==
    \A id \in DOMAIN endpoints : \A i \in DOMAIN received[id] :
        received[id][i].ev.payload = Original(received[id][i].hist).payload
=============================================================================
