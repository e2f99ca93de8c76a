----------------------------- MODULE Telemetry -----------------------------
(***************************************************************************)
(* core/telemetry.hpp and the Telemetry part of server/main.cpp: counters  *)
(* that any thread bumps, emptied once per interval by the telemetry       *)
(* thread, packed into chunks that each fit one event, and put together    *)
(* again by TelemetryStdoutEndpoint (publisher/endpoints.hpp).             *)
(*                                                                         *)
(* A critical section under a mutex that touches nothing else is one step. *)
(* The stream `telemetry' is routed to the endpoint, as in the example     *)
(* configuration, so a chunk reaches it inside the call of route(), on the *)
(* telemetry thread.  enabled_ is true throughout: start_pipeline() sets   *)
(* it and nothing clears it.                                               *)
(***************************************************************************)
EXTENDS Integers, Sequences, FiniteSets, FiniteSetsExt, SequencesExt

CONSTANTS
    Recorders,      \* threads inside route() or publish_to()
    Streams,        \* stream ids, none of them telemetry's own
    Scripts,        \* script ids, each invoked by its own worker thread
    Durations,      \* what an invocation may take
    UINT64_MAX,     \* where a minimum starts: larger than any duration
    PerChunk,       \* MAX_ENTRIES_PER_CHUNK
    ByteMod,        \* 2^8: chunk index and chunk count are uint8_t
    TsMod,          \* bound: timestamps, only ever compared for equality
    Mixes           \* bounds, one of which a behaviour has: <<calls of
                    \* record_*(), calls of record_script_invocation()>>

ASSUME TelemetryAssumption ==
    /\ IsFiniteSet(Streams)
    /\ IsFiniteSet(Scripts)
    /\ UINT64_MAX \in Nat
    /\ Durations \subseteq 0..(UINT64_MAX - 1)
    /\ PerChunk \in Nat \ {0}
    /\ ByteMod \in Nat \ {0}
    /\ TsMod \in Nat \ {0, 1}
    /\ Mixes \subseteq Nat \X Nat

VARIABLES
    mix,            \* the bounds
    running,        \* running_
    counts,         \* event_counts_ and emitted_counts_
    drops,          \* drops_
    slow,           \* recorder -> the map and stream it failed to find, or {}
    stats,          \* script_stats_
    inv,            \* script -> the invocation being recorded
    \* the telemetry thread
    epc,
    now,            \* the timestamp of the interval
    snap,           \* what pack_stream_metrics() has taken out so far
    chunks,         \* chunks still to route
    \* TelemetryStdoutEndpoint
    pending,        \* pending_stream_ and pending_script_
    latest,         \* latest_stream_ and latest_script_
    \* history
    recorded,       \* stream -> calls of record_event and record_emitted
    invoked,        \* script -> completed invocations
    shown,          \* stream -> sum of the counts rendered
    shown_inv       \* script -> sum of the counts rendered

countVars == <<counts, drops, slow, recorded>>
statVars == <<stats, inv, invoked>>
emitVars == <<epc, now, snap, chunks>>
viewVars == <<pending, latest, shown, shown_inv>>
vars == <<mix, running, countVars, statVars, emitVars, viewVars>>

Maps == {"event", "emitted"}
Kinds == {"streams", "scripts"}

Absent == -1            \* the map has no entry for the stream
NoGroup == [ts |-> -1, head |-> <<>>, size |-> 0, received |-> {}, entries |-> {}]
Fresh == [count |-> 0, total |-> 0, min |-> UINT64_MAX, max |-> 0]
Zero(S) == [s \in S |-> 0]
Value(n) == IF n = Absent THEN 0 ELSE n

-----------------------------------------------------------------------------
Init ==
    /\ mix \in Mixes
    /\ running = TRUE
    /\ counts = [m \in Maps |-> [s \in Streams |-> Absent]]
    /\ drops = 0
    /\ slow = [r \in Recorders |-> {}]
    /\ stats = [x \in Scripts |-> Fresh]
    /\ inv = [x \in Scripts |-> [pc |-> "idle", dur |-> 0]]
    /\ epc = "loop"
    /\ now = 0
    /\ snap = [event |-> Zero(Streams), emitted |-> Zero(Streams), drops |-> 0]
    /\ chunks = <<>>
    /\ pending = [k \in Kinds |-> NoGroup]
    /\ latest = [k \in Kinds |-> NoGroup]
    /\ recorded = Zero(Streams)
    /\ invoked = Zero(Scripts)
    /\ shown = Zero(Streams)
    /\ shown_inv = Zero(Scripts)

-----------------------------------------------------------------------------
(* record_event(), record_emitted(), record_drop()                         *)

Invocations ==
    MapThenSumSet(LAMBDA x : invoked[x] + (IF inv[x].pc = "idle" THEN 0 ELSE 1), Scripts)

Records == drops + snap.drops + MapThenSumSet(LAMBDA s : recorded[s], Streams)

\* Shared lock: add to the entry if there is one.
RecordFast(r, m, s) ==
    /\ slow[r] = {}
    /\ Records < mix[1]
    /\ \/ /\ counts[m][s] # Absent
          /\ counts' = [counts EXCEPT ![m][s] = @ + 1]
          /\ recorded' = [recorded EXCEPT ![s] = @ + 1]
          /\ UNCHANGED slow
       \/ /\ counts[m][s] = Absent
          /\ slow' = [slow EXCEPT ![r] = {[map |-> m, stream |-> s]}]
          /\ UNCHANGED <<counts, recorded>>
    /\ UNCHANGED <<mix, running, drops, statVars, emitVars, viewVars>>

\* Faulty RecordSlow: the entry is created without looking for it again.
RecordSlowBlind(r) ==
    \E miss \in slow[r] :
        /\ counts' = [counts EXCEPT ![miss.map][miss.stream] = 1]
        /\ recorded' = [recorded EXCEPT ![miss.stream] = @ + 1]
        /\ slow' = [slow EXCEPT ![r] = {}]
        /\ UNCHANGED <<mix, running, drops, statVars, emitVars, viewVars>>

\* Exclusive lock: look again, create the entry if it is still missing, add.
RecordSlow(r) ==
    \E miss \in slow[r] :
        /\ counts' = [counts EXCEPT ![miss.map][miss.stream] = Value(@) + 1]
        /\ recorded' = [recorded EXCEPT ![miss.stream] = @ + 1]
        /\ slow' = [slow EXCEPT ![r] = {}]
        /\ UNCHANGED <<mix, running, drops, statVars, emitVars, viewVars>>

RecordDrop ==
    /\ Records < mix[1]
    /\ drops' = drops + 1
    /\ UNCHANGED <<mix, running, counts, slow, recorded, statVars, emitVars, viewVars>>

-----------------------------------------------------------------------------
(* record_script_invocation(): four atomics, one after the other, under    *)
(* the shared lock.  A script has one worker, so its compare-exchange      *)
(* loops meet no other writer and are a step each.                         *)

\* Some thread holds script_stats_mutex_ shared.
StatsShared == \E x \in Scripts : inv[x].pc # "idle"

InvStep(x, from, to, st) ==
    /\ inv[x].pc = from
    /\ inv' = [inv EXCEPT ![x].pc = to]
    /\ stats' = [stats EXCEPT ![x] = st]
    /\ UNCHANGED <<mix, running, countVars, emitVars, viewVars>>

InvokeBegin(x, d) ==
    /\ inv[x].pc = "idle"
    /\ Invocations < mix[2]
    /\ inv' = [inv EXCEPT ![x] = [pc |-> "total", dur |-> d]]
    /\ stats' = [stats EXCEPT ![x].count = @ + 1]
    /\ UNCHANGED <<mix, running, countVars, invoked, emitVars, viewVars>>

InvokeTotal(x) ==
    /\ InvStep(x, "total", "min", [stats[x] EXCEPT !.total = @ + inv[x].dur])
    /\ UNCHANGED invoked

InvokeMin(x) ==
    /\ InvStep(x, "min", "max", [stats[x] EXCEPT !.min = Min({@, inv[x].dur})])
    /\ UNCHANGED invoked

InvokeMax(x) ==
    /\ InvStep(x, "max", "idle", [stats[x] EXCEPT !.max = Max({@, inv[x].dur})])
    /\ invoked' = [invoked EXCEPT ![x] = @ + 1]

-----------------------------------------------------------------------------
(* emit_metrics()                                                          *)

\* while (running_) { sleep; now = ...
EmitLoop ==
    /\ epc = "loop"
    /\ epc' = IF running THEN "events" ELSE "exit"
    /\ now' = IF running THEN (now + 1) % TsMod ELSE now
    /\ UNCHANGED <<mix, running, countVars, statVars, snap, chunks, viewVars>>

\* pack_stream_metrics(): exchange(0) on every entry, under the exclusive lock.
Drained(m) == [s \in Streams |-> IF counts[m][s] = Absent THEN Absent ELSE 0]

PackCounts(m, from, to) ==
    /\ epc = from
    /\ snap' = [snap EXCEPT ![m] = [s \in Streams |-> Value(counts[m][s])]]
    /\ counts' = [counts EXCEPT ![m] = Drained(m)]
    /\ epc' = to
    /\ UNCHANGED <<mix, running, drops, slow, recorded, statVars, now, chunks, viewVars>>

PackEvents == PackCounts("event", "events", "emitted")
PackEmitted == PackCounts("emitted", "emitted", "drops")

\* Faulty PackDrops: fetch_sub(1).
PackDropsOne ==
    /\ epc = "drops"
    /\ snap' = [snap EXCEPT !.drops = drops]
    /\ drops' = drops - 1
    /\ epc' = "chunk"
    /\ UNCHANGED <<mix, running, counts, slow, recorded, statVars, now, chunks, viewVars>>

PackDrops ==
    /\ epc = "drops"
    /\ snap' = [snap EXCEPT !.drops = drops]
    /\ drops' = 0
    /\ epc' = "chunk"
    /\ UNCHANGED <<mix, running, counts, slow, recorded, statVars, now, chunks, viewVars>>

\* The entries of a map, in some order, split into chunks.  Every chunk repeats
\* the header; index and count are truncated to a byte.
ChunkCount(n) == IF n = 0 THEN 1 ELSE (n + PerChunk - 1) \div PerChunk

\* Faulty Chunks: idx is not advanced, every chunk holds the first entries.
ChunksStuck(kind, head, entries) ==
    LET q == SetToSeq(entries)
        cc == ChunkCount(Len(q))
    IN  [c \in 1..cc |->
            [kind    |-> kind, ts |-> now, head |-> head,
             index   |-> (c - 1) % ByteMod,
             count   |-> cc % ByteMod,
             entries |-> {q[i] : i \in 1..Min({PerChunk, Len(q)})}]]

Chunks(kind, head, entries) ==
    LET q == SetToSeq(entries)
        cc == ChunkCount(Len(q))
    IN  [c \in 1..cc |->
            [kind    |-> kind, ts |-> now, head |-> head,
             index   |-> (c - 1) % ByteMod,
             count   |-> cc % ByteMod,
             entries |-> {q[i] : i \in ((c - 1) * PerChunk + 1)..Min({c * PerChunk, Len(q)})}]]

\* combined[sid] is the sum of both maps, without the streams that have nothing.
Combined == {<<s, snap.event[s] + snap.emitted[s]>> :
                s \in {s \in Streams : snap.event[s] + snap.emitted[s] > 0}}

Total(m) == MapThenSumSet(LAMBDA s : snap[m][s], Streams)

NoSnap == [event |-> Zero(Streams), emitted |-> Zero(Streams), drops |-> 0]

ChunkStreams ==
    /\ epc = "chunk"
    /\ chunks' = IF Combined = {} /\ snap.drops = 0 THEN <<>>
                 ELSE Chunks("streams", <<Total("event"), Total("emitted"), snap.drops>>, Combined)
    /\ snap' = NoSnap
    /\ epc' = "send_streams"
    /\ UNCHANGED <<mix, running, countVars, statVars, now, viewVars>>

\* Faulty PackScripts: script_stats_mutex_ is not taken.
PackScriptsUnlocked ==
    /\ epc = "send_streams"
    /\ chunks = <<>>
    /\ LET used == {x \in Scripts : stats[x].count > 0}
           entry(x) == [id    |-> x, count |-> stats[x].count,
                        avg   |-> stats[x].total \div stats[x].count,
                        min   |-> IF stats[x].min = UINT64_MAX THEN 0 ELSE stats[x].min,
                        max   |-> stats[x].max]
       IN  chunks' = IF used = {} THEN <<>>
                     ELSE Chunks("scripts", <<>>, {entry(x) : x \in used})
    /\ stats' = [x \in Scripts |-> Fresh]
    /\ epc' = "send_scripts"
    /\ UNCHANGED <<mix, running, countVars, inv, invoked, now, snap, viewVars>>

\* pack_script_metrics(): all four atomics of every script, under the exclusive lock.
PackScripts ==
    /\ epc = "send_streams"
    /\ chunks = <<>>
    /\ ~StatsShared
    /\ LET used == {x \in Scripts : stats[x].count > 0}
           entry(x) == [id    |-> x, count |-> stats[x].count,
                        avg   |-> stats[x].total \div stats[x].count,
                        min   |-> IF stats[x].min = UINT64_MAX THEN 0 ELSE stats[x].min,
                        max   |-> stats[x].max]
       IN  chunks' = IF used = {} THEN <<>>
                     ELSE Chunks("scripts", <<>>, {entry(x) : x \in used})
    /\ stats' = [x \in Scripts |-> Fresh]
    /\ epc' = "send_scripts"
    /\ UNCHANGED <<mix, running, countVars, inv, invoked, now, snap, viewVars>>

EmitDone ==
    /\ epc = "send_scripts"
    /\ chunks = <<>>
    /\ epc' = "loop"
    /\ UNCHANGED <<mix, running, countVars, statVars, now, snap, chunks, viewVars>>

-----------------------------------------------------------------------------
(* TelemetryStdoutEndpoint: handle_stream_chunk(), handle_script_chunk()   *)

\* The pending group, started anew when the chunk has another timestamp.
GroupFor(ch) ==
    LET g == pending[ch.kind]
    IN  IF g # NoGroup /\ g.ts = ch.ts THEN g
        ELSE [ts |-> ch.ts, head |-> ch.head, size |-> ch.count, received |-> {}, entries |-> {}]

\* Faulty Complete: received has one flag too many.
CompleteOffByOne(g) == g.received = 0..g.size

\* Faulty Complete: any chunk completes the group.
CompleteAny(g) == g.received # {}

Complete(g) == g.received = 0..(g.size - 1)

Rendered(g, kind, s) ==
    IF kind = "streams"
    THEN MapThenSumSet(LAMBDA e : e[2], {e \in g.entries : e[1] = s})
    ELSE MapThenSumSet(LAMBDA e : e.count, {e \in g.entries : e.id = s})

\* The chunk's entries join the group unless its index is out of range or already
\* received; a complete group is rendered.
RouteChunk ==
    /\ epc \in {"send_streams", "send_scripts"}
    /\ chunks # <<>>
    /\ chunks' = Tail(chunks)
    /\ LET ch == Head(chunks)
           k  == ch.kind
           g0 == GroupFor(ch)
           g  == [g0 EXCEPT !.received = @ \cup {ch.index}, !.entries = @ \cup ch.entries]
       IN  \/ /\ ch.index >= g0.size \/ ch.index \in g0.received
              /\ pending' = [pending EXCEPT ![k] = g0]
              /\ UNCHANGED <<latest, shown, shown_inv>>
           \/ /\ ch.index < g0.size /\ ch.index \notin g0.received
              /\ ~Complete(g)
              /\ pending' = [pending EXCEPT ![k] = g]
              /\ UNCHANGED <<latest, shown, shown_inv>>
           \/ /\ ch.index < g0.size /\ ch.index \notin g0.received
              /\ Complete(g)
              /\ pending' = [pending EXCEPT ![k] = NoGroup]
              /\ latest' = [latest EXCEPT ![k] = g]
              /\ shown' = [s \in Streams |->
                              shown[s] + IF k = "streams" THEN Rendered(g, k, s) ELSE 0]
              /\ shown_inv' = [x \in Scripts |->
                              shown_inv[x] + IF k = "scripts" THEN Rendered(g, k, x) ELSE 0]
    /\ UNCHANGED <<mix, running, countVars, statVars, epc, now, snap>>

-----------------------------------------------------------------------------
\* Telemetry::stop()
Stop ==
    /\ running
    /\ running' = FALSE
    /\ UNCHANGED <<mix, countVars, statVars, emitVars, viewVars>>

Emitter ==
    \/ EmitLoop \/ PackEvents \/ PackEmitted \/ PackDrops \/ ChunkStreams
    \/ RouteChunk \/ PackScripts \/ EmitDone

Recorder(r) ==
    \/ \E m \in Maps, s \in Streams : RecordFast(r, m, s)
    \/ RecordSlow(r)

Invoker(x) ==
    \/ \E d \in Durations : InvokeBegin(x, d)
    \/ InvokeTotal(x) \/ InvokeMin(x) \/ InvokeMax(x)

Next ==
    \/ \E r \in Recorders : Recorder(r)
    \/ RecordDrop
    \/ \E x \in Scripts : Invoker(x)
    \/ Emitter
    \/ Stop

Spec == Init /\ [][Next]_vars

\* The telemetry thread runs on, and a thread inside record_script_invocation()
\* leaves it.
LiveSpec ==
    /\ Spec
    /\ WF_vars(Emitter)
    /\ \A x \in Scripts : WF_vars(InvokeTotal(x) \/ InvokeMin(x) \/ InvokeMax(x))

-----------------------------------------------------------------------------
(* Properties.                                                             *)

\* Every variable stays in its type.
TypeOK ==
    /\ mix \in Mixes
    /\ running \in BOOLEAN
    /\ counts \in [Maps -> [Streams -> Nat \cup {Absent}]]
    /\ drops \in Nat
    /\ \A r \in Recorders : slow[r] \subseteq [map : Maps, stream : Streams] /\ Cardinality(slow[r]) <= 1
    /\ \A x \in Scripts : stats[x].count \in Nat /\ stats[x].total \in Nat
    /\ epc \in {"loop", "events", "emitted", "drops", "chunk", "send_streams", "send_scripts", "exit"}
    /\ now \in 0..(TsMod - 1)
    /\ \A i \in 1..Len(chunks) :
          chunks[i].kind \in Kinds /\ chunks[i].index \in 0..(ByteMod - 1)
    /\ \A k \in Kinds : pending[k].received \subseteq 0..(ByteMod - 1)

\* The count of stream s in a set of chunk entries.
CountIn(entries, s) == MapThenSumSet(LAMBDA e : e[2], {e \in entries : e[1] = s})

\* Nothing is counted twice and nothing is lost between record_event() or
\* record_emitted() and the screen: a recorded event is in a counter, in the
\* snapshot being packed, in a chunk on its way, in the group being put together,
\* or has been rendered.
NothingUncounted ==
    \A s \in Streams :
        recorded[s] =
            Value(counts["event"][s]) + Value(counts["emitted"][s])
            + snap.event[s] + snap.emitted[s]
            + MapThenSumSet(LAMBDA i : CountIn(chunks[i].entries, s),
                            {i \in 1..Len(chunks) : chunks[i].kind = "streams"})
            + CountIn(pending["streams"].entries, s)
            + shown[s]

\* A rendered dashboard belongs to one interval: the counts it lists add up to the
\* totals in its header.
DashboardAddsUp ==
    LET g == latest["streams"]
    IN  g # NoGroup =>
            MapThenSumSet(LAMBDA s : CountIn(g.entries, s), Streams) = g.head[1] + g.head[2]

\* The latencies rendered for a script come from whole invocations: there is at
\* least one, and the average lies between the minimum and the maximum.
LatenciesConsistent ==
    \A e \in latest["scripts"].entries :
        e.count > 0 /\ e.min <= e.avg /\ e.avg <= e.max /\ e.max \in Durations

\* Completed invocations reach the screen exactly once.
NothingUninvoked ==
    \A x \in Scripts :
        invoked[x] + (IF inv[x].pc = "idle" THEN 0 ELSE 1) =
            stats[x].count
            + MapThenSumSet(LAMBDA i : Rendered(chunks[i], "scripts", x),
                            {i \in 1..Len(chunks) : chunks[i].kind = "scripts"})
            + Rendered(pending["scripts"], "scripts", x)
            + shown_inv[x]

\* Recorded events are rendered eventually, while telemetry runs.
EventuallyShown ==
    \A s \in Streams :
        shown[s] < recorded[s] ~> (shown[s] = recorded[s] \/ ~running)
=============================================================================
