--------------------------- MODULE TelemetryProofs ---------------------------
(***************************************************************************)
(* Proofs about Telemetry, for all threads, streams, scripts and latencies *)
(* and every size of a chunk.                                              *)
(***************************************************************************)
EXTENDS Telemetry, DataProofs, FiniteSetTheorems, TLAPS

-----------------------------------------------------------------------------
(* Type correctness.                                                       *)

Misses == [map : Maps, stream : Streams]
Stats == [count : Nat, total : Nat, min : Nat, max : Nat]
InvPcs == {"idle", "total", "min", "max"}

\* The groups that the endpoint puts together are records of these fields.
IsGroup(g) ==
    g = [ts |-> g.ts, head |-> g.head, size |-> g.size, received |-> g.received, entries |-> g.entries]

\* What TypeOK leaves open of the variables that are updated in part.
Shapes ==
    /\ slow \in [Recorders -> SUBSET Misses]
    /\ stats \in [Scripts -> Stats]
    /\ inv \in [Scripts -> [pc : InvPcs, dur : Nat]]
    /\ chunks \in Seq(Range(chunks))
    /\ pending = [k \in Kinds |-> pending[k]]
    /\ \A k \in Kinds : IsGroup(pending[k])
    /\ latest = [k \in Kinds |-> latest[k]]

TypeInv == TypeOK /\ Shapes

-----------------------------------------------------------------------------
(* Latencies.                                                              *)

\* The n invocations recorded so far took `total' altogether, each of them no less
\* than lo and no more than hi.
Took(n, total, lo, hi) ==
    /\ n = 0 => total = 0 /\ lo = UINT64_MAX /\ hi = 0
    /\ n > 0 => lo \in Durations /\ hi \in Durations /\ n * lo <= total /\ total <= n * hi

\* The statistics of x are those of whole invocations, and of the parts of the one
\* being recorded that were stored already.
StatOf(x) ==
    LET st == stats[x]
        d == inv[x].dur
    IN  /\ inv[x].pc = "idle" => Took(st.count, st.total, st.min, st.max)
        /\ inv[x].pc # "idle" => st.count > 0 /\ d \in Durations
        /\ inv[x].pc = "total" => Took(st.count - 1, st.total, st.min, st.max)
        /\ inv[x].pc = "min" => st.total >= d /\ Took(st.count - 1, st.total - d, st.min, st.max)
        /\ inv[x].pc = "max" =>
              /\ st.total >= d /\ st.min \in Durations /\ st.min <= d
              /\ st.count = 1 => st.total = d /\ st.max = 0
              /\ st.count > 1 => Took(st.count - 1, st.total - d, st.min, st.max)

\* Entries of scripts whose latencies come from whole invocations.
Consistent(entries) ==
    \A e \in entries : e.count > 0 /\ e.min <= e.avg /\ e.avg <= e.max /\ e.max \in Durations

\* All latencies are consistent, from the statistics to the screen.
LatencyInv ==
    /\ \A x \in Scripts : StatOf(x)
    /\ \A i \in 1..Len(chunks) : chunks[i].kind = "scripts" => Consistent(chunks[i].entries)
    /\ Consistent(pending["scripts"].entries)
    /\ Consistent(latest["scripts"].entries)

-----------------------------------------------------------------------------
\* The smaller and the larger of two.
LEMMA MinOfTwo == \A a, b \in Nat : Min({a, b}) = IF a <= b THEN a ELSE b
BY DEF Min

LEMMA MaxOfTwo == \A a, b \in Nat : Max({a, b}) = IF a >= b THEN a ELSE b
BY DEF Max

\* A finite set can be listed.
LEMMA ListIs ==
    ASSUME NEW S, IsFiniteSet(S)
    PROVE  SetToSeq(S) \in Seq(S) /\ Len(SetToSeq(S)) \in Nat
<1>1. PICK n \in Nat : ExistsBijection(1..n, S)
    BY FS_NatBijection
<1>2. Cardinality(S) = n
    BY <1>1, FS_CountingElements
<1>3. \E f \in [1..Cardinality(S) -> S] : IsInjective(f)
    BY <1>1, <1>2 DEF ExistsBijection, Bijection, Injection
<1>4. SetToSeq(S) \in [1..n -> S]
    BY <1>2, <1>3 DEF SetToSeq
<1> QED
    BY <1>4

\* A sequence is one of the things it lists, and so is what is left of it.
LEMMA OwnRange ==
    ASSUME NEW T, NEW q \in Seq(T)
    PROVE  q \in Seq(Range(q))
<1>1. Len(q) \in Nat /\ q \in [1..Len(q) -> Range(q)]
    BY DEF Range
<1> QED
    BY <1>1

LEMMA TailIs ==
    ASSUME NEW q, q \in Seq(Range(q)), q # <<>>
    PROVE  /\ Len(q) \in Nat /\ Len(q) > 0 /\ Head(q) = q[1]
           /\ Tail(q) \in Seq(Range(Tail(q)))
           /\ Len(Tail(q)) = Len(q) - 1
           /\ \A i \in 1..Len(Tail(q)) : Tail(q)[i] = q[i + 1] /\ i + 1 \in 1..Len(q)
<1> DEFINE T == Range(q)
<1>1. q \in Seq(T)
    OBVIOUS
<1> HIDE DEF T
<1>2. Len(q) \in Nat /\ Len(q) > 0 /\ Head(q) = q[1]
    BY <1>1
<1>3. Tail(q) \in Seq(T) /\ Len(Tail(q)) = Len(q) - 1
    BY <1>1
<1>4. \A i \in 1..Len(Tail(q)) : Tail(q)[i] = q[i + 1] /\ i + 1 \in 1..Len(q)
    BY <1>1, <1>2, <1>3
<1> QED
    BY <1>2, <1>3, <1>4, OwnRange

\* How many chunks there are.
LEMMA ChunkCountIs == ASSUME NEW n \in Nat PROVE ChunkCount(n) \in Nat
<1>1. PerChunk \in Nat /\ PerChunk > 0
    BY TelemetryAssumption
<1>2. n + PerChunk - 1 \in Nat
    BY <1>1
<1>3. (n + PerChunk - 1) \div PerChunk \in Nat
    BY <1>1, <1>2
<1> QED
    BY <1>3 DEF ChunkCount

\* Every chunk holds entries of the map that was packed.
LEMMA ChunksIs ==
    ASSUME NEW kind, NEW head, NEW entries, IsFiniteSet(entries),
           NEW q, q = Chunks(kind, head, entries)
    PROVE  /\ q \in Seq(Range(q)) /\ Len(q) \in Nat
           /\ \A i \in 1..Len(q) : /\ q[i].kind = kind
                                   /\ q[i].index \in 0..(ByteMod - 1)
                                   /\ q[i].entries \subseteq entries
<1> DEFINE l == SetToSeq(entries)
           n == ChunkCount(Len(l))
           last(c) == Min({c * PerChunk, Len(l)})
           part(c) == {l[i] : i \in ((c - 1) * PerChunk + 1)..last(c)}
<1>1. l \in Seq(entries) /\ Len(l) \in Nat /\ n \in Nat
    BY ListIs, ChunkCountIs
<1>2. q = [c \in 1..n |->
              [kind    |-> kind, ts |-> now, head |-> head,
               index   |-> (c - 1) % ByteMod,
               count   |-> n % ByteMod,
               entries |-> part(c)]]
    BY DEF Chunks
<1> HIDE DEF l, n, part, last
<1>3. /\ ByteMod \in Nat /\ ByteMod > 0 /\ PerChunk \in Nat /\ PerChunk > 0
    BY TelemetryAssumption
<1>4. Len(q) = n /\ q \in Seq(Range(q))
    <2>1. q \in [1..n -> Range(q)]
        BY <1>2 DEF Range
    <2> QED
        BY <1>1, <2>1
<1>5. ASSUME NEW c \in 1..n
      PROVE  /\ q[c].kind = kind /\ q[c].index \in 0..(ByteMod - 1)
             /\ q[c].entries \subseteq entries
    <2>1. q[c].kind = kind /\ q[c].index = (c - 1) % ByteMod /\ q[c].entries = part(c)
        BY <1>2
    <2>2. (c - 1) % ByteMod \in 0..(ByteMod - 1)
        BY <1>1, <1>3
    <2>3. (c - 1) * PerChunk \in Nat /\ c * PerChunk \in Nat
        BY <1>1, <1>3
    <2>4. last(c) \in Nat /\ last(c) <= Len(l)
        BY <1>1, <2>3, MinOfTwo DEF last
    <2>5. ((c - 1) * PerChunk + 1)..last(c) \subseteq 1..Len(l)
        BY <1>1, <2>3, <2>4
    <2>6. \A i \in 1..Len(l) : l[i] \in entries
        BY <1>1
    <2>7. part(c) \subseteq entries
        BY <2>5, <2>6 DEF part
    <2> QED
        BY <2>1, <2>2, <2>7
<1> QED
    BY <1>1, <1>4, <1>5

\* What a function makes of a finite set is finite, and no larger.
LEMMA ImageFinite ==
    ASSUME NEW S, IsFiniteSet(S), NEW f, NEW T, T = {f[x] : x \in S}
    PROVE  IsFiniteSet(T) /\ Cardinality(T) <= Cardinality(S)
<1> DEFINE g == [x \in S |-> f[x]]
<1>1. g \in Surjection(S, T)
    BY DEF Surjection
<1> HIDE DEF g
<1> QED
    BY <1>1, FS_Surjection

\* The maps that are packed are finite.
LEMMA CombinedFinite == IsFiniteSet(Combined)
<1> DEFINE f == [s \in Streams |-> <<s, snap.event[s] + snap.emitted[s]>>]
           S == {s \in Streams : snap.event[s] + snap.emitted[s] > 0}
<1>1. IsFiniteSet(S)
    BY TelemetryAssumption, FS_Subset
<1>2. Combined = {f[s] : s \in S}
    BY DEF Combined
<1> HIDE DEF f, S
<1> QED
    BY <1>1, <1>2, ImageFinite

\* What pack_script_metrics() makes of the statistics of x.
EntryOf(x) ==
    [id    |-> x, count |-> stats[x].count,
     avg   |-> stats[x].total \div stats[x].count,
     min   |-> IF stats[x].min = UINT64_MAX THEN 0 ELSE stats[x].min,
     max   |-> stats[x].max]

Used == {x \in Scripts : stats[x].count > 0}

LEMMA PackScriptsIs ==
    ASSUME PackScripts
    PROVE  /\ IsFiniteSet({EntryOf(x) : x \in Used})
           /\ chunks' = <<>> \/ chunks' = Chunks("scripts", <<>>, {EntryOf(x) : x \in Used})
<1> DEFINE f == [x \in Scripts |-> EntryOf(x)]
<1>1. IsFiniteSet(Used)
    BY TelemetryAssumption, FS_Subset DEF Used
<1>2. {EntryOf(x) : x \in Used} = {f[x] : x \in Used}
    BY DEF Used
<1>3. IsFiniteSet({EntryOf(x) : x \in Used})
    <2> HIDE DEF f
    <2> QED
        BY <1>1, <1>2, ImageFinite
<1>4. chunks' = <<>> \/ chunks' = Chunks("scripts", <<>>, {EntryOf(x) : x \in Used})
    BY DEF PackScripts, Used, EntryOf
<1> QED
    BY <1>3, <1>4

\* A chunk that is routed leaves its entries in the pending group or on the screen.
LEMMA Routed ==
    ASSUME TypeInv, RouteChunk, NEW ch, ch = chunks[1], NEW k, k = ch.kind
    PROVE  /\ 1 \in 1..Len(chunks) /\ k \in Kinds /\ chunks' = Tail(chunks) /\ chunks # <<>>
           /\ \E p : /\ pending' = [pending EXCEPT ![k] = p]
                     /\ IsGroup(p) /\ p.received \subseteq 0..(ByteMod - 1)
                     /\ p.entries \subseteq pending[k].entries \cup ch.entries
           /\ \/ latest' = latest
              \/ \E g : /\ latest' = [latest EXCEPT ![k] = g]
                        /\ g.entries \subseteq pending[k].entries \cup ch.entries
<1>1. /\ chunks # <<>> /\ chunks' = Tail(chunks) /\ chunks \in Seq(Range(chunks))
    BY DEF RouteChunk, TypeInv, Shapes
<1>2. Head(chunks) = ch /\ 1 \in 1..Len(chunks)
    BY <1>1, TailIs
<1>3. k \in Kinds /\ ch.index \in 0..(ByteMod - 1)
    BY <1>2 DEF TypeInv, TypeOK
<1>4. pending[k].received \subseteq 0..(ByteMod - 1) /\ IsGroup(pending[k])
    BY <1>3 DEF TypeInv, TypeOK, Shapes
<1> DEFINE g0 == GroupFor(ch)
           r == g0.received \cup {ch.index}
           e == g0.entries \cup ch.entries
           g == [g0 EXCEPT !.received = r, !.entries = e]
<1>5. /\ IsGroup(g0) /\ g0.received \subseteq 0..(ByteMod - 1)
      /\ g0.entries \subseteq pending[k].entries
    <2>1. g0 = pending[k] \/ g0 = [ts |-> ch.ts, head |-> ch.head, size |-> ch.count, received |-> {}, entries |-> {}]
        BY DEF GroupFor
    <2> HIDE DEF g0
    <2>2. CASE g0 = pending[k]
        BY <1>4, <2>2
    <2>3. CASE g0 = [ts |-> ch.ts, head |-> ch.head, size |-> ch.count, received |-> {}, entries |-> {}]
        BY <2>3 DEF IsGroup
    <2> QED
        BY <2>1, <2>2, <2>3
<1>6. /\ \/ pending' = [pending EXCEPT ![k] = g0] /\ latest' = latest
         \/ pending' = [pending EXCEPT ![k] = g] /\ latest' = latest
         \/ pending' = [pending EXCEPT ![k] = NoGroup] /\ latest' = [latest EXCEPT ![k] = g]
    BY <1>2 DEF RouteChunk
<1> HIDE DEF g0, r, e
<1>7. IsGroup(g) /\ g.received = r /\ g.entries = e
    <2>1. IsGroup(g0) /\ g = [g0 EXCEPT !.received = r, !.entries = e]
        BY <1>5
    <2> HIDE DEF g
    <2> QED
        BY <2>1 DEF IsGroup
<1> HIDE DEF g
<1>8. /\ IsGroup(g) /\ g.received \subseteq 0..(ByteMod - 1)
      /\ g.entries \subseteq pending[k].entries \cup ch.entries
    BY <1>3, <1>5, <1>7 DEF r, e
<1>9. /\ IsGroup(NoGroup) /\ NoGroup.received \subseteq 0..(ByteMod - 1)
      /\ NoGroup.entries \subseteq pending[k].entries \cup ch.entries
    BY DEF NoGroup, IsGroup
<1> QED
    BY <1>1, <1>2, <1>3, <1>5, <1>6, <1>8, <1>9

\* A counter's value.
LEMMA ValueIs == \A n \in Nat \cup {Absent} : Value(n) \in Nat
BY DEF Value, Absent

\* Initially everything is well-typed.
LEMMA TypeInit == Init => TypeInv
<1> SUFFICES ASSUME Init PROVE TypeInv
    OBVIOUS
<1>1. Fresh \in Stats
    BY TelemetryAssumption DEF Fresh, Stats
<1>2. IsGroup(NoGroup) /\ NoGroup.received = {}
    BY DEF NoGroup, IsGroup
<1>3. counts \in [Maps -> [Streams -> Nat \cup {Absent}]]
    BY DEF Init
<1>4. \A r \in Recorders : slow[r] = {} /\ Cardinality(slow[r]) <= 1
    BY FS_EmptySet DEF Init
<1>5. now \in 0..(TsMod - 1)
    BY TelemetryAssumption DEF Init
<1>6. chunks = <<>> /\ chunks \in Seq(Range(chunks))
    BY DEF Init
<1>7. stats \in [Scripts -> Stats]
    BY <1>1 DEF Init
<1>8. inv \in [Scripts -> [pc : InvPcs, dur : Nat]]
    BY DEF Init, InvPcs
<1>9. Shapes
    BY <1>2, <1>4, <1>6, <1>7, <1>8 DEF Init, Shapes
<1>10. TypeOK
    BY <1>2, <1>3, <1>4, <1>5, <1>6, <1>7 DEF Init, TypeOK, Stats
<1> QED
    BY <1>9, <1>10 DEF TypeInv

\* Recording an event keeps the types.
LEMMA RecordTypes ==
    ASSUME TypeInv, NEW r \in Recorders, Recorder(r)
    PROVE  TypeInv'
<1>1. /\ counts \in [Maps -> [Streams -> Nat \cup {Absent}]] /\ drops \in Nat
      /\ slow \in [Recorders -> SUBSET Misses]
      /\ \A q \in Recorders : Cardinality(slow[q]) <= 1
    BY DEF TypeInv, TypeOK, Shapes
<1>2. SUFFICES /\ counts' \in [Maps -> [Streams -> Nat \cup {Absent}]] /\ drops' \in Nat
               /\ slow' \in [Recorders -> SUBSET Misses]
               /\ \A q \in Recorders : Cardinality(slow'[q]) <= 1
    <2>1. UNCHANGED <<mix, running, statVars, emitVars, viewVars>>
        BY DEF Recorder, RecordFast, RecordSlow
    <2> QED
        BY <2>1 DEF TypeInv, TypeOK, Shapes, statVars, emitVars, viewVars, Misses, Range
<1>3. \A e : Cardinality({e}) <= 1
    <2>1. \A e : Cardinality({e}) = 1
        BY FS_Singleton
    <2> QED
        BY <2>1
<1>4. \A q \in Recorders : Cardinality({}) <= 1
    BY FS_EmptySet
<1>5. ASSUME NEW m \in Maps, NEW s \in Streams
      PROVE  counts[m][s] # Absent => counts[m][s] + 1 \in Nat
    BY <1>1 DEF Absent
<1>6. ASSUME NEW m \in Maps, NEW s \in Streams, RecordFast(r, m, s)
      PROVE  /\ counts' \in [Maps -> [Streams -> Nat \cup {Absent}]] /\ drops' \in Nat
             /\ slow' \in [Recorders -> SUBSET Misses]
             /\ \A q \in Recorders : Cardinality(slow'[q]) <= 1
    <2>1. CASE counts[m][s] # Absent
        <3>1. counts' = [counts EXCEPT ![m][s] = counts[m][s] + 1] /\ UNCHANGED <<slow, drops>>
            BY <1>6, <2>1 DEF RecordFast
        <3> QED
            BY <1>1, <1>5, <2>1, <3>1
    <2>2. CASE counts[m][s] = Absent
        <3> DEFINE miss == [map |-> m, stream |-> s]
        <3>1. slow' = [slow EXCEPT ![r] = {miss}] /\ UNCHANGED <<counts, drops>>
            BY <1>6, <2>2 DEF RecordFast
        <3>2. {miss} \in SUBSET Misses
            BY DEF Misses
        <3> HIDE DEF miss
        <3> QED
            BY <1>1, <1>3, <3>1, <3>2
    <2> QED
        BY <2>1, <2>2
<1>7. ASSUME NEW miss \in slow[r], NEW m, NEW s, m = miss.map, s = miss.stream,
             counts' = [counts EXCEPT ![m][s] = Value(counts[m][s]) + 1],
             slow' = [slow EXCEPT ![r] = {}], drops' = drops
      PROVE  /\ counts' \in [Maps -> [Streams -> Nat \cup {Absent}]] /\ drops' \in Nat
             /\ slow' \in [Recorders -> SUBSET Misses]
             /\ \A q \in Recorders : Cardinality(slow'[q]) <= 1
    <2>1. m \in Maps /\ s \in Streams
        <3>1. miss \in Misses
            BY <1>1
        <3> QED
            BY <1>7, <3>1 DEF Misses
    <2>2. Value(counts[m][s]) + 1 \in Nat
        <3>1. counts[m][s] \in Nat \cup {Absent}
            BY <1>1, <2>1
        <3>2. Value(counts[m][s]) \in Nat
            BY <3>1, ValueIs
        <3> QED
            BY <3>2
    <2>3. counts' \in [Maps -> [Streams -> Nat \cup {Absent}]]
        BY <1>1, <1>7, <2>1, <2>2
    <2> QED
        BY <1>1, <1>4, <1>7, <2>3
<1>8. CASE RecordSlow(r)
    <2>1. PICK miss \in slow[r] :
              /\ counts' = [counts EXCEPT ![miss.map][miss.stream] = Value(counts[miss.map][miss.stream]) + 1]
              /\ slow' = [slow EXCEPT ![r] = {}] /\ drops' = drops
        BY <1>8 DEF RecordSlow
    <2> QED
        BY <1>7, <2>1
<1> QED
    BY <1>6, <1>8 DEF Recorder

\* Recording an invocation keeps the types.
LEMMA InvokeTypes ==
    ASSUME TypeInv, NEW x \in Scripts, Invoker(x)
    PROVE  TypeInv'
<1>1. stats \in [Scripts -> Stats] /\ inv \in [Scripts -> [pc : InvPcs, dur : Nat]]
    BY DEF TypeInv, Shapes
<1>2. SUFFICES stats' \in [Scripts -> Stats] /\ inv' \in [Scripts -> [pc : InvPcs, dur : Nat]]
    <2>1. UNCHANGED <<mix, running, countVars, emitVars, viewVars>>
        BY DEF Invoker, InvokeBegin, InvokeTotal, InvokeMin, InvokeMax, InvStep
    <2>2. /\ UNCHANGED <<mix, running, counts, drops, slow, epc, now, chunks, pending, latest>>
          /\ Range(chunks)' = Range(chunks)
        BY <2>1 DEF countVars, emitVars, viewVars, Range
    <2> SUFFICES ASSUME stats' \in [Scripts -> Stats], inv' \in [Scripts -> [pc : InvPcs, dur : Nat]]
                 PROVE  TypeOK' /\ Shapes'
        BY DEF TypeInv
    <2>3. \A y \in Scripts : stats'[y].count \in Nat /\ stats'[y].total \in Nat
        BY DEF Stats
    <2>4. TypeOK'
        BY <2>2, <2>3 DEF TypeInv, TypeOK
    <2>5. Shapes'
        BY <2>2 DEF TypeInv, Shapes
    <2> QED
        BY <2>4, <2>5
<1>3. /\ stats[x].count \in Nat /\ stats[x].total \in Nat /\ stats[x].min \in Nat /\ stats[x].max \in Nat
      /\ inv[x].dur \in Nat
      /\ stats[x] = [count |-> stats[x].count, total |-> stats[x].total, min |-> stats[x].min, max |-> stats[x].max]
    BY <1>1 DEF Stats
<1>4. ASSUME NEW d \in Durations, InvokeBegin(x, d)
      PROVE  stats' \in [Scripts -> Stats] /\ inv' \in [Scripts -> [pc : InvPcs, dur : Nat]]
    <2>1. d \in Nat
        BY TelemetryAssumption
    <2>2. stats' = [stats EXCEPT ![x].count = stats[x].count + 1] /\ inv' = [inv EXCEPT ![x] = [pc |-> "total", dur |-> d]]
        BY <1>4 DEF InvokeBegin
    <2> QED
        BY <1>1, <1>3, <2>1, <2>2 DEF Stats, InvPcs
<1>5. ASSUME NEW from, NEW to \in InvPcs, NEW st \in Stats, InvStep(x, from, to, st)
      PROVE  stats' \in [Scripts -> Stats] /\ inv' \in [Scripts -> [pc : InvPcs, dur : Nat]]
    BY <1>1, <1>5 DEF InvStep
<1>6. CASE InvokeTotal(x)
    <2>1. [stats[x] EXCEPT !.total = stats[x].total + inv[x].dur] \in Stats
        BY <1>1, <1>3 DEF Stats
    <2> QED
        BY <1>5, <1>6, <2>1 DEF InvokeTotal, InvPcs
<1>7. CASE InvokeMin(x)
    <2>1. Min({stats[x].min, inv[x].dur}) \in Nat
        BY <1>3, MinOfTwo
    <2>2. [stats[x] EXCEPT !.min = Min({stats[x].min, inv[x].dur})] \in Stats
        BY <1>1, <2>1 DEF Stats
    <2> QED
        BY <1>5, <1>7, <2>2 DEF InvokeMin, InvPcs
<1>8. CASE InvokeMax(x)
    <2>1. Max({stats[x].max, inv[x].dur}) \in Nat
        BY <1>3, MaxOfTwo
    <2>2. [stats[x] EXCEPT !.max = Max({stats[x].max, inv[x].dur})] \in Stats
        BY <1>1, <2>1 DEF Stats
    <2> QED
        BY <1>5, <1>8, <2>2 DEF InvokeMax, InvPcs
<1> QED
    BY <1>4, <1>6, <1>7, <1>8 DEF Invoker

\* Packing, sending and putting together keep the types.
LEMMA EmitTypes ==
    ASSUME TypeInv, Emitter
    PROVE  TypeInv'
<1> DEFINE Epcs == {"loop", "events", "emitted", "drops", "chunk", "send_streams", "send_scripts", "exit"}
           ChunksOK == /\ chunks \in Seq(Range(chunks))
                       /\ \A i \in 1..Len(chunks) :
                             chunks[i].kind \in Kinds /\ chunks[i].index \in 0..(ByteMod - 1)
<1>1. ChunksOK /\ <<>> \in Seq(Range(<<>>)) /\ Len(<<>>) = 0
    BY DEF TypeInv, TypeOK, Shapes
<1>2. CASE EmitLoop
    <2>1. now \in Nat /\ (now + 1) % TsMod \in 0..(TsMod - 1)
        BY TelemetryAssumption DEF TypeInv, TypeOK
    <2>2. now' \in 0..(TsMod - 1) /\ epc' \in Epcs
        BY <1>2, <2>1 DEF EmitLoop, TypeInv, TypeOK
    <2>3. UNCHANGED <<mix, running, countVars, statVars, snap, chunks, viewVars>>
        BY <1>2 DEF EmitLoop
    <2> QED
        BY <2>2, <2>3 DEF TypeInv, TypeOK, Shapes, countVars, statVars, viewVars
<1>3. ASSUME NEW m \in Maps, NEW from, NEW to \in Epcs, PackCounts(m, from, to) PROVE TypeInv'
    <2>1. counts \in [Maps -> [Streams -> Nat \cup {Absent}]]
        BY DEF TypeInv, TypeOK
    <2>2. Drained(m) \in [Streams -> Nat \cup {Absent}]
        BY DEF Drained
    <2>3. counts' \in [Maps -> [Streams -> Nat \cup {Absent}]] /\ epc' \in Epcs
        BY <1>3, <2>1, <2>2 DEF PackCounts
    <2>4. UNCHANGED <<mix, running, drops, slow, recorded, statVars, now, chunks, viewVars>>
        BY <1>3 DEF PackCounts
    <2> QED
        BY <2>3, <2>4 DEF TypeInv, TypeOK, Shapes, statVars, viewVars
<1>4. CASE PackDrops
    BY <1>4 DEF PackDrops, TypeInv, TypeOK, Shapes, statVars, viewVars
\* The chunks are replaced.
<1>5. ASSUME ChunksOK', epc' \in Epcs, stats' \in [Scripts -> Stats],
             UNCHANGED <<mix, running, countVars, inv, now, viewVars>>
      PROVE  TypeInv'
    BY <1>5 DEF TypeInv, TypeOK, Shapes, countVars, viewVars, Stats
<1>6. CASE ChunkStreams
    <2> DEFINE head == <<Total("event"), Total("emitted"), snap.drops>>
    <2>1. chunks' = <<>> \/ chunks' = Chunks("streams", head, Combined)
        BY <1>6 DEF ChunkStreams
    <2> HIDE DEF head
    <2>2. ChunksOK'
        <3>1. CASE chunks' = <<>>
            BY <1>1, <3>1
        <3>2. CASE chunks' = Chunks("streams", head, Combined)
            BY <3>2, CombinedFinite, ChunksIs DEF Kinds
        <3> QED
            BY <2>1, <3>1, <3>2
    <2>3. epc' \in Epcs /\ UNCHANGED <<mix, running, countVars, statVars, now, viewVars>>
        BY <1>6 DEF ChunkStreams
    <2>4. stats' \in [Scripts -> Stats] /\ inv' = inv
        BY <2>3 DEF statVars, TypeInv, Shapes
    <2> QED
        BY <1>5, <2>2, <2>3, <2>4
<1>7. CASE PackScripts
    <2>1. ChunksOK'
        <3> DEFINE E == {EntryOf(x) : x \in Used}
        <3>1. IsFiniteSet(E) /\ (chunks' = <<>> \/ chunks' = Chunks("scripts", <<>>, E))
            BY <1>7, PackScriptsIs
        <3> HIDE DEF E
        <3>2. CASE chunks' = <<>>
            BY <1>1, <3>2
        <3>3. CASE chunks' = Chunks("scripts", <<>>, E)
            BY <3>1, <3>3, ChunksIs DEF Kinds
        <3> QED
            BY <3>1, <3>2, <3>3
    <2>2. Fresh \in Stats
        BY TelemetryAssumption DEF Fresh, Stats
    <2>3. epc' \in Epcs /\ stats' \in [Scripts -> Stats] /\ UNCHANGED <<mix, running, countVars, inv, now, viewVars>>
        BY <1>7, <2>2 DEF PackScripts
    <2> QED
        BY <1>5, <2>1, <2>3
<1>8. CASE EmitDone
    BY <1>8 DEF EmitDone, TypeInv, TypeOK, Shapes, countVars, statVars, viewVars
<1>9. CASE RouteChunk
    <2> DEFINE ch == chunks[1]
               k == ch.kind
    <2>1. /\ 1 \in 1..Len(chunks) /\ k \in Kinds /\ chunks' = Tail(chunks) /\ chunks # <<>>
          /\ \E p : /\ pending' = [pending EXCEPT ![k] = p]
                    /\ IsGroup(p) /\ p.received \subseteq 0..(ByteMod - 1)
                    /\ p.entries \subseteq pending[k].entries \cup ch.entries
          /\ \/ latest' = latest
             \/ \E g : /\ latest' = [latest EXCEPT ![k] = g]
                       /\ g.entries \subseteq pending[k].entries \cup ch.entries
        BY <1>9, Routed
    <2>2. /\ k \in Kinds /\ chunks' = Tail(chunks) /\ chunks # <<>>
          /\ \E p : /\ pending' = [pending EXCEPT ![k] = p]
                    /\ IsGroup(p) /\ p.received \subseteq 0..(ByteMod - 1)
          /\ latest' = latest \/ \E g : latest' = [latest EXCEPT ![k] = g]
        BY <2>1
    <2> HIDE DEF k, ch
    <2>3. ChunksOK'
        BY <1>1, <2>2, TailIs
    <2>4. /\ pending = [j \in Kinds |-> pending[j]] /\ latest = [j \in Kinds |-> latest[j]]
          /\ \A j \in Kinds : IsGroup(pending[j]) /\ pending[j].received \subseteq 0..(ByteMod - 1)
        BY DEF TypeInv, TypeOK, Shapes
    <2>5. /\ pending' = [j \in Kinds |-> pending'[j]]
          /\ \A j \in Kinds : IsGroup(pending'[j]) /\ pending'[j].received \subseteq 0..(ByteMod - 1)
        BY <2>2, <2>4
    <2>6. latest' = [j \in Kinds |-> latest'[j]]
        BY <2>2, <2>4
    <2>7. UNCHANGED <<mix, running, countVars, statVars, epc, now>>
        BY <1>9 DEF RouteChunk
    <2> QED
        BY <2>3, <2>5, <2>6, <2>7 DEF TypeInv, TypeOK, Shapes, countVars, statVars
<1> QED
    BY <1>2, <1>3, <1>4, <1>6, <1>7, <1>8, <1>9 DEF Emitter, PackEvents, PackEmitted, Maps

\* Every step keeps the types.
LEMMA TypeStep == TypeInv /\ [Next]_vars => TypeInv'
<1> SUFFICES ASSUME TypeInv, [Next]_vars PROVE TypeInv'
    OBVIOUS
<1>1. CASE RecordDrop
    <2>1. drops' \in Nat
        BY <1>1 DEF RecordDrop, TypeInv, TypeOK
    <2>2. UNCHANGED <<mix, running, counts, slow, recorded, statVars, emitVars, viewVars>>
        BY <1>1 DEF RecordDrop
    <2> QED
        BY <2>1, <2>2 DEF TypeInv, TypeOK, Shapes, statVars, emitVars, viewVars
<1>2. CASE Stop
    BY <1>2 DEF TypeInv, TypeOK, Shapes, Stop, countVars, statVars, emitVars, viewVars
<1>3. CASE UNCHANGED vars
    BY <1>3 DEF TypeInv, TypeOK, Shapes, vars, countVars, statVars, emitVars, viewVars
<1> QED
    BY <1>1, <1>2, <1>3, RecordTypes, InvokeTypes, EmitTypes DEF Next

\* Counters, statistics, chunks and groups have their types.
THEOREM TypeCorrect == Spec => []TypeOK
<1>1. TypeInv => TypeOK
    BY DEF TypeInv
<1> QED
    BY <1>1, TypeInit, TypeStep, PTL DEF Spec

-----------------------------------------------------------------------------
(* The latencies.                                                          *)

\* A product grows with its factors.
LEMMA ProductGrows == \A n, a, b \in Nat : a <= b => n * a <= n * b
<1> SUFFICES ASSUME NEW n \in Nat, NEW a \in Nat, NEW b \in Nat, a <= b
             PROVE  n * a <= n * b
    OBVIOUS
<1>1. PICK c \in Nat : b = a + c
    <2>1. b - a \in Nat /\ b = a + (b - a)
        OBVIOUS
    <2> QED
        BY <2>1
<1>2. n * (a + c) = n * a + n * c /\ n * a \in Nat /\ n * c \in Nat
    OBVIOUS
<1> QED
    BY <1>1, <1>2

LEMMA NextProduct == \A n, a \in Nat : n * a \in Nat /\ (n + 1) * a = n * a + a
OBVIOUS

\* One more invocation keeps the total between the bounds.
LEMMA OneMore ==
    ASSUME NEW n \in Nat, NEW t \in Nat, NEW lo \in Nat, NEW hi \in Nat, NEW d \in Durations,
           Took(n, t, lo, hi), NEW m \in Nat, m = Min({lo, d}), NEW M \in Nat, M = Max({hi, d})
    PROVE  Took(n + 1, t + d, m, M)
<1>1. d \in Nat /\ d < UINT64_MAX /\ UINT64_MAX \in Nat
    BY TelemetryAssumption
<1>2. m = (IF lo <= d THEN lo ELSE d) /\ M = (IF hi >= d THEN hi ELSE d)
    BY <1>1, MinOfTwo, MaxOfTwo
<1>3. m \in Durations /\ M \in Durations
    BY <1>1, <1>2 DEF Took
<1>4. n * lo <= t /\ t <= n * hi
    <2>1. CASE n = 0
        BY <2>1 DEF Took
    <2>2. CASE n > 0
        BY <2>2 DEF Took
    <2> QED
        BY <2>1, <2>2
<1>5. n * m <= n * lo /\ n * hi <= n * M
    BY <1>1, <1>2, ProductGrows
<1>6. /\ (n + 1) * m = n * m + m /\ n * m \in Nat
      /\ (n + 1) * M = n * M + M /\ n * M \in Nat
      /\ n * lo \in Nat /\ n * hi \in Nat
    BY NextProduct
<1>7. m <= d /\ d <= M
    BY <1>1, <1>2
<1>8. \A a, b, c \in Nat : a <= b /\ b <= t /\ c <= d => a + c <= t + d
    BY <1>1
<1>9. \A a, b, c \in Nat : t <= b /\ b <= a /\ d <= c => t + d <= a + c
    BY <1>1
<1>10. n * m + m <= t + d
    BY <1>4, <1>5, <1>6, <1>7, <1>8, Zenon
<1>11. t + d <= n * M + M
    BY <1>4, <1>5, <1>6, <1>7, <1>9, Zenon
<1>12. n + 1 > 0 /\ n + 1 # 0
    OBVIOUS
<1> QED
    BY <1>3, <1>6, <1>10, <1>11, <1>12, Zenon DEF Took

\* Rounding down.
LEMMA QuotientIs ==
    ASSUME NEW n \in Nat, n > 0, NEW t \in Nat
    PROVE  t \div n \in Nat /\ n * (t \div n) <= t /\ t < n * ((t \div n) + 1)
<1>1. t \div n \in Nat
    OBVIOUS
<1>2. n * (t \div n) <= t
    BY SMTT(30)
<1>3. t < n * ((t \div n) + 1)
    BY SMTT(30)
<1> QED
    BY <1>1, <1>2, <1>3

\* The average lies between the bounds.
LEMMA AverageBetween ==
    ASSUME NEW n \in Nat, n > 0, NEW t \in Nat, NEW lo \in Nat, NEW hi \in Nat,
           n * lo <= t, t <= n * hi
    PROVE  lo <= t \div n /\ t \div n <= hi
<1> DEFINE a == t \div n
<1>1. a \in Nat /\ n * a <= t /\ t < n * (a + 1)
    BY QuotientIs
<1> HIDE DEF a
<1>2. lo <= a
    <2> SUFFICES ASSUME a + 1 <= lo PROVE FALSE
        BY <1>1
    <2>1. n * (a + 1) <= n * lo
        BY <1>1, ProductGrows
    <2>2. n * (a + 1) \in Nat /\ n * lo \in Nat
        BY <1>1
    <2> QED
        BY <1>1, <2>1, <2>2
<1>3. a <= hi
    <2> SUFFICES ASSUME hi + 1 <= a PROVE FALSE
        BY <1>1
    <2>1. n * (hi + 1) <= n * a
        BY <1>1, ProductGrows
    <2>2. n * (hi + 1) = n * hi + n /\ n * hi \in Nat /\ n * a \in Nat
        BY <1>1
    <2> QED
        BY <1>1, <2>1, <2>2
<1> QED
    BY <1>2, <1>3 DEF a

\* Initially nothing has been recorded.
LEMMA LatencyInit == Init => LatencyInv
<1> SUFFICES ASSUME Init PROVE LatencyInv
    OBVIOUS
<1>1. Took(0, 0, UINT64_MAX, 0)
    BY DEF Took
<1>2. ASSUME NEW x \in Scripts PROVE StatOf(x)
    <2>1. /\ inv[x].pc = "idle" /\ stats[x].count = 0 /\ stats[x].total = 0
          /\ stats[x].min = UINT64_MAX /\ stats[x].max = 0
        BY DEF Init, Fresh
    <2> QED
        BY <1>1, <2>1 DEF StatOf
<1>3. Len(chunks) = 0
    BY DEF Init
<1>4. pending["scripts"].entries = {} /\ latest["scripts"].entries = {}
    BY DEF Init, Kinds, NoGroup
<1> QED
    BY <1>2, <1>3, <1>4 DEF LatencyInv, Consistent

\* Storing the parts of an invocation one after the other keeps what StatOf says.
LEMMA InvokeStats ==
    ASSUME TypeInv, NEW x \in Scripts, StatOf(x), Invoker(x)
    PROVE  StatOf(x)'
<1> DEFINE n == stats[x].count
           t == stats[x].total
           lo == stats[x].min
           hi == stats[x].max
           d == inv[x].dur
<1>1. /\ stats \in [Scripts -> Stats] /\ inv \in [Scripts -> [pc : InvPcs, dur : Nat]]
    BY DEF TypeInv, Shapes
<1>2. n \in Nat /\ t \in Nat /\ lo \in Nat /\ hi \in Nat /\ d \in Nat /\ UINT64_MAX \in Nat
      /\ \A e \in Durations : e \in Nat /\ e < UINT64_MAX
    BY <1>1, TelemetryAssumption DEF Stats
<1>3. ASSUME NEW e \in Durations, InvokeBegin(x, e) PROVE StatOf(x)'
    <2>1. /\ stats'[x].count = n + 1 /\ stats'[x].total = t /\ stats'[x].min = lo /\ stats'[x].max = hi
          /\ inv'[x].pc = "total" /\ inv'[x].dur = e /\ inv[x].pc = "idle"
        BY <1>1, <1>3 DEF InvokeBegin, Stats
    <2>2. Took(n, t, lo, hi)
        BY <2>1 DEF StatOf
    <2>3. (n + 1) - 1 = n /\ n + 1 > 0
        BY <1>2
    <2> HIDE DEF n, t, lo, hi, d
    <2> QED
        BY <2>1, <2>2, <2>3 DEF StatOf, Took
<1>4. CASE InvokeTotal(x)
    <2>1. /\ stats'[x].count = n /\ stats'[x].total = t + d /\ stats'[x].min = lo /\ stats'[x].max = hi
          /\ inv'[x].pc = "min" /\ inv'[x].dur = d /\ inv[x].pc = "total"
        BY <1>1, <1>4 DEF InvokeTotal, InvStep, Stats
    <2>2. Took(n - 1, t, lo, hi) /\ n > 0 /\ d \in Durations
        BY <2>1 DEF StatOf
    <2>3. (t + d) - d = t /\ t + d >= d
        BY <1>2
    <2> HIDE DEF n, t, lo, hi, d
    <2> QED
        BY <2>1, <2>2, <2>3 DEF StatOf, Took
<1>5. CASE InvokeMin(x)
    <2> DEFINE m == Min({lo, d})
    <2>1. /\ stats'[x].count = n /\ stats'[x].total = t /\ stats'[x].min = m /\ stats'[x].max = hi
          /\ inv'[x].pc = "max" /\ inv'[x].dur = d /\ inv[x].pc = "min"
        BY <1>1, <1>5 DEF InvokeMin, InvStep, Stats
    <2>2. Took(n - 1, t - d, lo, hi) /\ n > 0 /\ d \in Durations /\ t >= d
        BY <2>1 DEF StatOf
    <2>3. m = IF lo <= d THEN lo ELSE d
        BY <1>2, MinOfTwo
    <2> HIDE DEF n, t, lo, hi, d, m
    <2>4. m \in Durations /\ m \in Nat /\ m <= d
        BY <1>2, <2>2, <2>3 DEF Took
    <2>5. n = 1 => t = d /\ hi = 0
        BY <1>2, <2>2 DEF Took
    <2>6. n > 1 => Took(n - 1, t - d, m, hi)
        <3> SUFFICES ASSUME n > 1 PROVE Took(n - 1, t - d, m, hi)
            OBVIOUS
        <3> DEFINE k == n - 1
                   u == t - d
        <3>1. k \in Nat /\ k > 0 /\ u \in Nat
            BY <1>2, <2>2
        <3>2. lo \in Durations /\ hi \in Durations /\ k * lo <= u /\ u <= k * hi
            BY <2>2, <3>1 DEF Took
        <3> HIDE DEF k, u
        <3>3. m <= lo
            BY <1>2, <2>3
        <3>4. k * m <= k * lo /\ k * m \in Nat /\ k * lo \in Nat
            BY <1>2, <2>4, <3>1, <3>3, ProductGrows
        <3>5. k * m <= u
            BY <3>1, <3>2, <3>4
        <3>6. Took(k, u, m, hi)
            BY <2>4, <3>1, <3>2, <3>5 DEF Took
        <3> QED
            BY <3>6 DEF k, u
    <2> QED
        BY <2>1, <2>2, <2>4, <2>5, <2>6 DEF StatOf
<1>6. CASE InvokeMax(x)
    <2> DEFINE M == Max({hi, d})
    <2>1. /\ stats'[x].count = n /\ stats'[x].total = t /\ stats'[x].min = lo /\ stats'[x].max = M
          /\ inv'[x].pc = "idle" /\ inv'[x].dur = d /\ inv[x].pc = "max"
        BY <1>1, <1>6 DEF InvokeMax, InvStep, Stats
    <2>2. /\ n > 0 /\ d \in Durations /\ t >= d /\ lo \in Durations /\ lo <= d
          /\ n = 1 => t = d /\ hi = 0
          /\ n > 1 => Took(n - 1, t - d, lo, hi)
        BY <2>1 DEF StatOf
    <2>3. M = IF hi >= d THEN hi ELSE d
        BY <1>2, MaxOfTwo
    <2> HIDE DEF n, t, lo, hi, d, M
    <2>4. M \in Nat
        BY <1>2, <2>3
    <2>5. Took(n, t, lo, M)
        <3>1. CASE n = 1
            <4>1. M = d /\ t = d
                BY <1>2, <2>2, <2>3, <3>1
            <4>2. 1 * lo <= d /\ d <= 1 * d
                BY <1>2, <2>2
            <4> QED
                BY <2>2, <3>1, <4>1, <4>2 DEF Took
        <3>2. CASE n > 1
            <4>1. lo = Min({lo, d})
                BY <1>2, <2>2, MinOfTwo
            <4>2. n - 1 \in Nat /\ t - d \in Nat /\ (n - 1) + 1 = n /\ (t - d) + d = t
                BY <1>2, <2>2
            <4>3. Took((n - 1) + 1, (t - d) + d, lo, M)
                BY <1>2, <2>2, <2>4, <3>2, <4>1, <4>2, OneMore DEF M
            <4> QED
                BY <4>2, <4>3
        <3> QED
            BY <1>2, <2>2, <3>1, <3>2
    <2> QED
        BY <2>1, <2>5 DEF StatOf
<1> QED
    BY <1>3, <1>4, <1>5, <1>6 DEF Invoker

\* The entry of a script that nobody is recording is consistent.
LEMMA EntryConsistent ==
    ASSUME TypeInv, NEW x \in Used, StatOf(x), inv[x].pc = "idle",
           NEW e, e = EntryOf(x)
    PROVE  e.count > 0 /\ e.min <= e.avg /\ e.avg <= e.max /\ e.max \in Durations
<1> DEFINE n == stats[x].count
           t == stats[x].total
           lo == stats[x].min
           hi == stats[x].max
<1>1. n \in Nat /\ t \in Nat /\ lo \in Nat /\ hi \in Nat /\ n > 0
    BY DEF TypeInv, Shapes, Stats, Used
<1>2. Took(n, t, lo, hi)
    BY DEF StatOf
<1>3. e.count = n /\ e.avg = t \div n /\ e.min = (IF lo = UINT64_MAX THEN 0 ELSE lo) /\ e.max = hi
    BY DEF EntryOf
<1> HIDE DEF n, t, lo, hi
<1>4. lo \in Durations /\ hi \in Durations /\ n * lo <= t /\ t <= n * hi
    BY <1>1, <1>2 DEF Took
<1>5. lo # UINT64_MAX
    BY <1>4, TelemetryAssumption
<1>6. lo <= t \div n /\ t \div n <= hi
    BY <1>1, <1>4, AverageBetween
<1> QED
    BY <1>1, <1>3, <1>4, <1>5, <1>6

\* Recording an invocation leaves the latencies consistent.
LEMMA InvokeLatency ==
    ASSUME TypeInv, LatencyInv, NEW x \in Scripts, Invoker(x)
    PROVE  LatencyInv'
<1>1. UNCHANGED <<chunks, pending, latest>>
    BY DEF Invoker, InvokeBegin, InvokeTotal, InvokeMin, InvokeMax, InvStep, emitVars, viewVars
<1>2. ASSUME NEW y \in Scripts PROVE StatOf(y)'
    <2>1. StatOf(y)
        BY DEF LatencyInv
    <2>2. CASE y = x
        BY <2>1, <2>2, InvokeStats
    <2>3. CASE y # x
        <3>1. stats \in [Scripts -> Stats] /\ inv \in [Scripts -> [pc : InvPcs, dur : Nat]]
            BY DEF TypeInv, Shapes
        <3>2. stats'[y] = stats[y] /\ inv'[y] = inv[y]
            BY <2>3, <3>1 DEF Invoker, InvokeBegin, InvokeTotal, InvokeMin, InvokeMax, InvStep
        <3> QED
            BY <2>1, <3>2 DEF StatOf, Took
    <2> QED
        BY <2>2, <2>3
<1> QED
    BY <1>1, <1>2 DEF LatencyInv, Consistent

\* Packing, sending and putting together leave the latencies consistent: the
\* exclusive lock is free only while no invocation is being recorded.
LEMMA EmitLatency ==
    ASSUME TypeInv, LatencyInv, Emitter
    PROVE  LatencyInv'
<1> DEFINE ChunksOK == \A i \in 1..Len(chunks) : chunks[i].kind = "scripts" => Consistent(chunks[i].entries)
<1>1. /\ ChunksOK /\ Len(<<>>) = 0
      /\ Consistent(pending["scripts"].entries) /\ Consistent(latest["scripts"].entries)
    BY DEF LatencyInv
<1>2. CASE EmitLoop \/ PackEvents \/ PackEmitted \/ PackDrops \/ EmitDone
    <2>1. UNCHANGED <<stats, inv, chunks, pending, latest>>
        BY <1>2 DEF EmitLoop, PackEvents, PackEmitted, PackCounts, PackDrops, EmitDone, statVars, viewVars
    <2> QED
        BY <2>1 DEF LatencyInv, StatOf, Took, Consistent
<1>3. CASE ChunkStreams
    <2> DEFINE head == <<Total("event"), Total("emitted"), snap.drops>>
    <2>1. chunks' = <<>> \/ chunks' = Chunks("streams", head, Combined)
        BY <1>3 DEF ChunkStreams
    <2> HIDE DEF head
    <2>2. \A i \in 1..Len(chunks') : chunks'[i].kind = "streams"
        <3>1. CASE chunks' = <<>>
            BY <1>1, <3>1
        <3>2. CASE chunks' = Chunks("streams", head, Combined)
            BY <3>2, CombinedFinite, ChunksIs
        <3> QED
            BY <2>1, <3>1, <3>2
    <2>3. UNCHANGED <<stats, inv, pending, latest>>
        BY <1>3 DEF ChunkStreams, statVars, viewVars
    <2>4. ChunksOK'
        BY <2>2
    <2> QED
        BY <2>3, <2>4 DEF LatencyInv, StatOf, Took, Consistent
<1>4. CASE PackScripts
    <2> DEFINE E == {EntryOf(x) : x \in Used}
    <2>1. IsFiniteSet(E) /\ (chunks' = <<>> \/ chunks' = Chunks("scripts", <<>>, E))
        BY <1>4, PackScriptsIs
    <2>2. \A x \in Scripts : inv[x].pc = "idle" /\ StatOf(x)
        BY <1>4 DEF PackScripts, StatsShared, LatencyInv
    <2>3. Consistent(E)
        BY <2>2, EntryConsistent DEF Consistent, Used
    <2> HIDE DEF E
    <2>4. \A i \in 1..Len(chunks') : Consistent(chunks'[i].entries)
        <3>1. CASE chunks' = <<>>
            BY <1>1, <3>1
        <3>2. CASE chunks' = Chunks("scripts", <<>>, E)
            BY <2>1, <2>3, <3>2, ChunksIs DEF Consistent
        <3> QED
            BY <2>1, <3>1, <3>2
    <2>5. /\ \A x \in Scripts : stats'[x] = Fresh /\ inv'[x] = inv[x]
          /\ pending' = pending /\ latest' = latest
        BY <1>4 DEF PackScripts, viewVars
    <2>6. ASSUME NEW x \in Scripts PROVE StatOf(x)'
        <3>1. /\ stats'[x].count = 0 /\ stats'[x].total = 0 /\ stats'[x].min = UINT64_MAX
              /\ stats'[x].max = 0 /\ inv'[x].pc = "idle"
            BY <2>2, <2>5 DEF Fresh
        <3> QED
            BY <3>1 DEF StatOf, Took
    <2>7. ChunksOK'
        BY <2>4 DEF Consistent
    <2> QED
        BY <1>1, <2>5, <2>6, <2>7 DEF LatencyInv, Consistent
<1>5. CASE RouteChunk
    <2> DEFINE ch == chunks[1]
               k == ch.kind
    <2>1. /\ 1 \in 1..Len(chunks) /\ k \in Kinds /\ chunks' = Tail(chunks) /\ chunks # <<>>
          /\ \E p : /\ pending' = [pending EXCEPT ![k] = p]
                    /\ p.entries \subseteq pending[k].entries \cup ch.entries
          /\ \/ latest' = latest
             \/ \E g : /\ latest' = [latest EXCEPT ![k] = g]
                       /\ g.entries \subseteq pending[k].entries \cup ch.entries
        BY <1>5, Routed
    <2>2. k = "scripts" => Consistent(ch.entries)
        BY <1>1, <2>1
    <2>3. chunks \in Seq(Range(chunks))
        BY DEF TypeInv, Shapes
    <2> HIDE DEF k, ch
    <2>4. ChunksOK'
        <3>1. ASSUME NEW i \in 1..Len(chunks'), chunks'[i].kind = "scripts" PROVE Consistent(chunks'[i].entries)
            BY <1>1, <2>1, <2>3, <3>1, TailIs
        <3> QED
            BY <3>1 DEF Consistent
    <2>5. k = "scripts" => \A S : S \subseteq pending[k].entries \cup ch.entries => Consistent(S)
        BY <1>1, <2>2 DEF Consistent
    <2>6. pending = [j \in Kinds |-> pending[j]] /\ latest = [j \in Kinds |-> latest[j]] /\ "scripts" \in Kinds
        BY DEF TypeInv, Shapes, Kinds
    <2>7. Consistent(pending'["scripts"].entries) /\ Consistent(latest'["scripts"].entries)
        BY <1>1, <2>1, <2>5, <2>6
    <2>8. UNCHANGED <<stats, inv>>
        BY <1>5 DEF RouteChunk, statVars
    <2> QED
        BY <2>4, <2>7, <2>8 DEF LatencyInv, StatOf, Took, Consistent
<1> QED
    BY <1>2, <1>3, <1>4, <1>5 DEF Emitter

\* Every step leaves the latencies consistent.
LEMMA LatencyStep == TypeInv /\ LatencyInv /\ [Next]_vars => LatencyInv'
<1>1. LatencyInv /\ (RecordDrop \/ Stop \/ (\E r \in Recorders : Recorder(r)) \/ UNCHANGED vars) => LatencyInv'
    <2> SUFFICES ASSUME LatencyInv, RecordDrop \/ Stop \/ (\E r \in Recorders : Recorder(r)) \/ UNCHANGED vars
                 PROVE  LatencyInv'
        OBVIOUS
    <2>1. UNCHANGED <<stats, inv, chunks, pending, latest>>
        BY DEF RecordDrop, Stop, Recorder, RecordFast, RecordSlow, vars, statVars, emitVars, viewVars
    <2> QED
        BY <2>1 DEF LatencyInv, StatOf, Took, Consistent
<1> QED
    BY <1>1, InvokeLatency, EmitLatency DEF Next

\* The latencies rendered for a script come from whole invocations: the exclusive
\* lock of pack_script_metrics() waits for every record_script_invocation().
THEOREM LatencyCorrect == Spec => []LatenciesConsistent
<1>1. LatencyInv => LatenciesConsistent
    BY DEF LatencyInv, LatenciesConsistent, Consistent
<1> QED
    BY <1>1, TypeInit, TypeStep, LatencyInit, LatencyStep, PTL DEF Spec

-----------------------------------------------------------------------------
(* Counts.                                                                 *)

\* The stream or the script of an entry, and what the entry counts.
Key(k, e) == IF k = "streams" THEN e[1] ELSE e.id
Amount(k, e) == IF k = "streams" THEN e[2] ELSE e.count

\* What the screen makes of entries is a sum of amounts.
LEMMA RenderedIs ==
    ASSUME NEW k \in Kinds, NEW g, IsFiniteSet(g.entries), NEW s,
           NEW f, \A e \in g.entries : f[e] = Amount(k, e)
    PROVE  Rendered(g, k, s) = SumOf(f, {e \in g.entries : Key(k, e) = s})
<1> DEFINE T == {e \in g.entries : Key(k, e) = s}
<1>1. IsFiniteSet(T) /\ T \subseteq g.entries
    BY FS_Subset
<1>2. CASE k = "streams"
    <2>1. T = {e \in g.entries : e[1] = s} /\ \A e \in T : f[e] = e[2]
        BY <1>1, <1>2 DEF Key, Amount
    <2>2. Rendered(g, k, s) = MapThenSumSet(LAMBDA e : e[2], T)
        BY <1>2, <2>1 DEF Rendered
    <2> HIDE DEF T
    <2>3. PICK h : Iterates(f, T, h) /\ SumOf(f, T) = h[T]
        BY <1>1, SumIs
    <2>4. h = [u \in SUBSET T |-> IF u = {} THEN 0 ELSE Pick(u)[2] + h[u \ {Pick(u)}]]
        BY <2>1, <2>3 DEF Iterates, Adds, Pick
    <2>5. \E n : /\ n = [u \in SUBSET T |-> IF u = {} THEN 0 ELSE Pick(u)[2] + n[u \ {Pick(u)}]]
                 /\ Rendered(g, k, s) = n[T]
        BY <2>2, <2>4 DEF MapThenSumSet, MapThenFoldSet, Pick
    <2>6. PICK n : /\ n = [u \in SUBSET T |-> IF u = {} THEN 0 ELSE Pick(u)[2] + n[u \ {Pick(u)}]]
                   /\ Rendered(g, k, s) = n[T]
        BY <2>5
    <2>7. Iterates(f, T, n)
        BY <2>1, <2>6 DEF Iterates, Adds, Pick
    <2> QED
        BY <1>1, <2>3, <2>6, <2>7, IterationUnique DEF T
<1>3. CASE k = "scripts"
    <2>1. T = {e \in g.entries : e.id = s} /\ \A e \in T : f[e] = e.count
        BY <1>1, <1>3 DEF Key, Amount
    <2>2. Rendered(g, k, s) = MapThenSumSet(LAMBDA e : e.count, T)
        BY <1>3, <2>1 DEF Rendered
    <2> HIDE DEF T
    <2>3. PICK h : Iterates(f, T, h) /\ SumOf(f, T) = h[T]
        BY <1>1, SumIs
    <2>4. h = [u \in SUBSET T |-> IF u = {} THEN 0 ELSE Pick(u).count + h[u \ {Pick(u)}]]
        BY <2>1, <2>3 DEF Iterates, Adds, Pick
    <2>5. \E n : /\ n = [u \in SUBSET T |-> IF u = {} THEN 0 ELSE Pick(u).count + n[u \ {Pick(u)}]]
                 /\ Rendered(g, k, s) = n[T]
        BY <2>2, <2>4 DEF MapThenSumSet, MapThenFoldSet, Pick
    <2>6. PICK n : /\ n = [u \in SUBSET T |-> IF u = {} THEN 0 ELSE Pick(u).count + n[u \ {Pick(u)}]]
                   /\ Rendered(g, k, s) = n[T]
        BY <2>5
    <2>7. Iterates(f, T, n)
        BY <2>1, <2>6 DEF Iterates, Adds, Pick
    <2> QED
        BY <1>1, <2>3, <2>6, <2>7, IterationUnique DEF T
<1> QED
    BY <1>2, <1>3 DEF Kinds

\* The chunks of kind k, and what they count for a stream or a script, as the
\* properties say it.
Queued(k) == {i \in 1..Len(chunks) : chunks[i].kind = k}
InStreamChunks(s) == MapThenSumSet(LAMBDA i : CountIn(chunks[i].entries, s), Queued("streams"))
InScriptChunks(x) == MapThenSumSet(LAMBDA i : Rendered(chunks[i], "scripts", x), Queued("scripts"))

\* These sums, as sums of functions.
LEMMA InStreamChunksIs ==
    ASSUME NEW s, NEW J, IsFiniteSet(J), J = Queued("streams"),
           NEW h, \A i \in J : h[i] = Rendered(chunks[i], "streams", s)
    PROVE  InStreamChunks(s) = SumOf(h, J)
<1>1. PICK m : Iterates(h, J, m) /\ SumOf(h, J) = m[J]
    BY SumIs
<1>2. \A i \in J : h[i] = CountIn(chunks[i].entries, s)
    BY DEF CountIn, Rendered
<1>3. m = [u \in SUBSET J |-> IF u = {} THEN 0 ELSE CountIn(chunks[Pick(u)].entries, s) + m[u \ {Pick(u)}]]
    BY <1>1, <1>2 DEF Iterates, Adds, Pick
<1>4. InStreamChunks(s) = MapThenSumSet(LAMBDA i : CountIn(chunks[i].entries, s), J)
    BY DEF InStreamChunks
<1>5. \E n : /\ n = [u \in SUBSET J |-> IF u = {} THEN 0 ELSE CountIn(chunks[Pick(u)].entries, s) + n[u \ {Pick(u)}]]
             /\ InStreamChunks(s) = n[J]
    BY <1>3, <1>4 DEF MapThenSumSet, MapThenFoldSet, Pick
<1>6. PICK n : /\ n = [u \in SUBSET J |-> IF u = {} THEN 0 ELSE CountIn(chunks[Pick(u)].entries, s) + n[u \ {Pick(u)}]]
               /\ InStreamChunks(s) = n[J]
    BY <1>5
<1>7. Iterates(h, J, n)
    BY <1>2, <1>6 DEF Iterates, Adds, Pick
<1> QED
    BY <1>1, <1>6, <1>7, IterationUnique

LEMMA InScriptChunksIs ==
    ASSUME NEW s, NEW J, IsFiniteSet(J), J = Queued("scripts"),
           NEW h, \A i \in J : h[i] = Rendered(chunks[i], "scripts", s)
    PROVE  InScriptChunks(s) = SumOf(h, J)
<1>1. PICK m : Iterates(h, J, m) /\ SumOf(h, J) = m[J]
    BY SumIs
<1>2. \A i \in J : h[i] = Rendered(chunks[i], "scripts", s)
    BY DEF CountIn, Rendered
<1>3. m = [u \in SUBSET J |-> IF u = {} THEN 0 ELSE Rendered(chunks[Pick(u)], "scripts", s) + m[u \ {Pick(u)}]]
    BY <1>1, <1>2 DEF Iterates, Adds, Pick
<1>4. InScriptChunks(s) = MapThenSumSet(LAMBDA i : Rendered(chunks[i], "scripts", s), J)
    BY DEF InScriptChunks
<1>5. \E n : /\ n = [u \in SUBSET J |-> IF u = {} THEN 0 ELSE Rendered(chunks[Pick(u)], "scripts", s) + n[u \ {Pick(u)}]]
             /\ InScriptChunks(s) = n[J]
    BY <1>3, <1>4 DEF MapThenSumSet, MapThenFoldSet, Pick
<1>6. PICK n : /\ n = [u \in SUBSET J |-> IF u = {} THEN 0 ELSE Rendered(chunks[Pick(u)], "scripts", s) + n[u \ {Pick(u)}]]
               /\ InScriptChunks(s) = n[J]
    BY <1>5
<1>7. Iterates(h, J, n)
    BY <1>2, <1>6 DEF Iterates, Adds, Pick
<1> QED
    BY <1>1, <1>6, <1>7, IterationUnique

LEMMA StreamSumIs ==
    ASSUME NEW E, NEW h, \A s \in Streams : h[s] = CountIn(E, s)
    PROVE  MapThenSumSet(LAMBDA s : CountIn(E, s), Streams) = SumOf(h, Streams)
<1>1. IsFiniteSet(Streams)
    BY TelemetryAssumption
<1>2. PICK m : Iterates(h, Streams, m) /\ SumOf(h, Streams) = m[Streams]
    BY <1>1, SumIs
<1>3. m = [u \in SUBSET Streams |-> IF u = {} THEN 0 ELSE CountIn(E, Pick(u)) + m[u \ {Pick(u)}]]
    BY <1>2 DEF Iterates, Adds, Pick
<1>4. \E n : /\ n = [u \in SUBSET Streams |-> IF u = {} THEN 0 ELSE CountIn(E, Pick(u)) + n[u \ {Pick(u)}]]
             /\ MapThenSumSet(LAMBDA s : CountIn(E, s), Streams) = n[Streams]
    BY <1>3 DEF MapThenSumSet, MapThenFoldSet, Pick
<1>5. PICK n : /\ n = [u \in SUBSET Streams |-> IF u = {} THEN 0 ELSE CountIn(E, Pick(u)) + n[u \ {Pick(u)}]]
               /\ MapThenSumSet(LAMBDA s : CountIn(E, s), Streams) = n[Streams]
    BY <1>4
<1>6. Iterates(h, Streams, n)
    BY <1>5 DEF Iterates, Adds, Pick
<1>7. m[Streams] = n[Streams]
    BY <1>1, <1>2, <1>6, IterationUnique
<1> QED
    BY <1>2, <1>5, <1>7

LEMMA TotalIs == \A m \in Maps : Total(m) = SumOf(snap[m], Streams)
BY DEF Total, SumOf, MapThenSumSet, MapThenFoldSet

-----------------------------------------------------------------------------
(* Entries on their way.                                                   *)

\* The entries of kind k between the packing and the screen.
Left(k) == UNION {chunks[i].entries : i \in Queued(k)}
InHand(k) == Left(k) \cup pending[k].entries

\* What a set of entries counts for s.
Tally(k, E, s) == Rendered([entries |-> E], k, s)

\* An entry is in one place, and counts a natural number.
EntriesInv ==
    /\ \A k \in Kinds : IsFiniteSet(pending[k].entries)
    /\ \A i \in 1..Len(chunks) : IsFiniteSet(chunks[i].entries)
    /\ \A k \in Kinds : Left(k) \cap pending[k].entries = {}
    /\ \A i, j \in 1..Len(chunks) : i # j => chunks[i].entries \cap chunks[j].entries = {}
    /\ \A k \in Kinds : \A e \in InHand(k) : Amount(k, e) \in Nat

\* A set of entries, all of them of natural amounts, counts a natural number.
LEMMA TallyType ==
    ASSUME NEW k \in Kinds, NEW E, IsFiniteSet(E), \A e \in E : Amount(k, e) \in Nat, NEW s
    PROVE  Tally(k, E, s) \in Nat
<1> DEFINE g == [entries |-> E]
           f == [e \in E |-> Amount(k, e)]
           T == {e \in E : Key(k, e) = s}
<1>1. g.entries = E /\ \A e \in E : f[e] = Amount(k, e) /\ f[e] \in Nat
    OBVIOUS
<1> HIDE DEF g, f
<1>2. Rendered(g, k, s) = SumOf(f, T)
    BY <1>1, RenderedIs
<1>3. IsFiniteSet(T) /\ \A e \in T : f[e] \in Nat
    BY <1>1, FS_Subset
<1>4. SumOf(f, T) \in Nat
    <2> HIDE DEF T
    <2> QED
        BY <1>3, SumType
<1> QED
    BY <1>2, <1>4 DEF Tally, g

LEMMA TallyEmpty == \A k \in Kinds : \A s : Tally(k, {}, s) = 0
<1> SUFFICES ASSUME NEW k \in Kinds, NEW s PROVE Tally(k, {}, s) = 0
    OBVIOUS
<1> DEFINE g == [entries |-> {}]
           f == [e \in {} |-> 0]
<1>1. g.entries = {} /\ IsFiniteSet({})
    BY FS_EmptySet
<1> HIDE DEF g, f
<1>2. Rendered(g, k, s) = SumOf(f, {e \in g.entries : Key(k, e) = s})
    BY <1>1, RenderedIs
<1>3. {e \in g.entries : Key(k, e) = s} = {}
    BY <1>1
<1> QED
    BY <1>2, <1>3, SumEmpty DEF Tally, g

\* The tallies of the chunks and of the pending group make one tally.
LEMMA InHandIs ==
    ASSUME EntriesInv, chunks \in Seq(Range(chunks)), NEW k \in Kinds, NEW s
    PROVE  /\ IsFiniteSet(InHand(k))
           /\ \E a, b \in Nat :
                 /\ k = "streams" => InStreamChunks(s) = a
                 /\ k = "scripts" => InScriptChunks(s) = a
                 /\ Rendered(pending[k], k, s) = b
                 /\ a + b = Tally(k, InHand(k), s)
<1> DEFINE J == Queued(k)
           E == InHand(k)
           f == [e \in E |-> Amount(k, e)]
           Of(S) == {e \in S : Key(k, e) = s}
           h == [i \in J |-> Rendered(chunks[i], k, s)]
           p == [i \in J |-> Of(chunks[i].entries)]
           L == Left(k)
           P == pending[k].entries
<1>1. IsFiniteSet(J)
    <2> DEFINE A == 1..Len(chunks)
    <2>1. Len(chunks) \in Nat /\ Queued(k) \subseteq A
        BY DEF Queued
    <2>2. IsFiniteSet(A)
        BY <2>1, FS_Interval
    <2> HIDE DEF A
    <2> QED
        BY <2>1, <2>2, FS_Subset
<1>2. /\ E = L \cup P /\ L \cap P = {} /\ IsFiniteSet(P)
      /\ \A i \in J : IsFiniteSet(chunks[i].entries) /\ chunks[i].entries \subseteq L
      /\ \A i, j \in J : i # j => chunks[i].entries \cap chunks[j].entries = {}
      /\ L = UNION {chunks[i].entries : i \in J}
      /\ \A e \in E : f[e] = Amount(k, e) /\ f[e] \in Nat
    BY DEF EntriesInv, InHand, Left, Queued
<1>3. \A i \in J : h[i] = Rendered(chunks[i], k, s) /\ p[i] = Of(chunks[i].entries)
    OBVIOUS
<1>4. L = UNION {chunks[i].entries : i \in J} /\ Of(L) = UNION {p[i] : i \in J}
    BY <1>2, <1>3
<1> HIDE DEF J, E, f, h, p, L, P
<1>5. ASSUME NEW i \in J
      PROVE  IsFiniteSet(p[i]) /\ h[i] = SumOf(f, p[i]) /\ \A e \in p[i] : f[e] \in Nat
    <2>1. Rendered(chunks[i], k, s) = SumOf(f, Of(chunks[i].entries))
        BY <1>2, RenderedIs
    <2>2. IsFiniteSet(Of(chunks[i].entries))
        BY <1>2, FS_Subset
    <2> QED
        BY <1>2, <1>3, <2>1, <2>2
<1>6. \A i, j \in J : i # j => p[i] \cap p[j] = {}
    BY <1>2, <1>3
<1>7. IsFiniteSet(Of(L)) /\ SumOf(h, J) = SumOf(f, Of(L))
    <2>1. Parts(f, J, p, h)
        BY <1>1, <1>5, <1>6 DEF Parts
    <2> DEFINE O == Of(L)
    <2>2. O = UNION {p[i] : i \in J}
        BY <1>4
    <2> HIDE DEF O
    <2>3. IsFiniteSet(O) /\ SumOf(h, J) = SumOf(f, O)
        BY <2>1, <2>2, SumParts
    <2> QED
        BY <2>3 DEF O
<1>8. IsFiniteSet(L)
    <2> DEFINE q == [i \in J |-> chunks[i].entries]
               r == [i \in J |-> SumOf(f, q[i])]
    <2>1. \A i \in J : q[i] = chunks[i].entries /\ r[i] = SumOf(f, q[i])
        OBVIOUS
    <2> HIDE DEF q, r
    <2>2. \A i \in J : IsFiniteSet(q[i]) /\ \A e \in q[i] : f[e] \in Nat
        BY <1>2, <2>1
    <2>3. \A i, j \in J : i # j => q[i] \cap q[j] = {}
        BY <1>2, <2>1
    <2>4. Parts(f, J, q, r)
        BY <1>1, <2>1, <2>2, <2>3 DEF Parts
    <2>5. L = UNION {q[i] : i \in J}
        BY <1>2, <2>1
    <2> QED
        BY <2>4, <2>5, SumParts
<1>9. Rendered(pending[k], k, s) = SumOf(f, Of(P))
    BY <1>2, RenderedIs DEF P
<1>10. IsFiniteSet(E)
    BY <1>2, <1>8, FS_Union
<1>11. Tally(k, E, s) = SumOf(f, Of(E))
    <2> DEFINE g == [entries |-> E]
    <2>1. g.entries = E /\ IsFiniteSet(g.entries) /\ \A e \in g.entries : f[e] = Amount(k, e)
        BY <1>2, <1>10
    <2> HIDE DEF g
    <2>2. Rendered(g, k, s) = SumOf(f, {e \in g.entries : Key(k, e) = s})
        BY <2>1, RenderedIs
    <2> QED
        BY <2>1, <2>2 DEF Tally, g
<1>12. SumOf(f, Of(E)) = SumOf(f, Of(L)) + SumOf(f, Of(P))
    <2> DEFINE A == Of(L)
               B == Of(P)
    <2>1. A \cap B = {} /\ Of(E) = A \cup B /\ \A x \in A \cup B : f[x] \in Nat
        BY <1>2
    <2>2. IsFiniteSet(A)
        BY <1>7
    <2>3. IsFiniteSet(B)
        BY <1>2, FS_Subset
    <2> HIDE DEF A, B
    <2>4. SumOf(f, A \cup B) = SumOf(f, A) + SumOf(f, B)
        BY <2>1, <2>2, <2>3, SumUnion
    <2> QED
        BY <2>1, <2>4 DEF A, B
<1>13. /\ k = "streams" => InStreamChunks(s) = SumOf(h, J)
       /\ k = "scripts" => InScriptChunks(s) = SumOf(h, J)
    <2>1. J = Queued(k) /\ \A i \in J : h[i] = Rendered(chunks[i], k, s)
        BY <1>3 DEF J
    <2> QED
        BY <1>1, <2>1, InStreamChunksIs, InScriptChunksIs
<1>14. SumOf(f, Of(L)) \in Nat /\ SumOf(f, Of(P)) \in Nat
    <2> DEFINE A == Of(L)
               B == Of(P)
    <2>1. (\A x \in A : f[x] \in Nat) /\ \A x \in B : f[x] \in Nat
        BY <1>2
    <2>2. IsFiniteSet(A)
        BY <1>7
    <2>3. IsFiniteSet(B)
        BY <1>2, FS_Subset
    <2> HIDE DEF A, B
    <2>4. SumOf(f, A) \in Nat /\ SumOf(f, B) \in Nat
        BY <2>1, <2>2, <2>3, SumType
    <2> QED
        BY <2>4 DEF A, B
<1>15. /\ k = "streams" => InStreamChunks(s) = SumOf(f, Of(L))
       /\ k = "scripts" => InScriptChunks(s) = SumOf(f, Of(L))
       /\ Rendered(pending[k], k, s) = SumOf(f, Of(P))
       /\ SumOf(f, Of(L)) + SumOf(f, Of(P)) = Tally(k, E, s)
    BY <1>7, <1>9, <1>11, <1>12, <1>13
<1> QED
    BY <1>10, <1>14, <1>15 DEF E, J

-----------------------------------------------------------------------------
(* Chunks.                                                                 *)

\* A map takes at least one chunk, a larger map no fewer, and each of its entries
\* falls to one.
LEMMA ChunkOf ==
    ASSUME NEW l \in Nat
    PROVE  /\ ChunkCount(l) \in Nat /\ ChunkCount(l) > 0
           /\ \A m \in Nat : m <= l => ChunkCount(m) <= ChunkCount(l)
           /\ \A i \in 1..l : \E c \in 1..ChunkCount(l) :
                 (c - 1) * PerChunk + 1 <= i /\ i <= c * PerChunk
<1> DEFINE P == PerChunk
<1>1. P \in Nat /\ P > 0
    BY TelemetryAssumption
<1>2. \A m : ChunkCount(m) = IF m = 0 THEN 1 ELSE (m + P - 1) \div P
    BY DEF ChunkCount
<1> HIDE DEF P
<1> DEFINE n == ChunkCount(l)
<1>3. \A m \in Nat : m > 0 =>
          /\ ChunkCount(m) \in Nat /\ P * ChunkCount(m) <= m + P - 1
          /\ m + P - 1 < P * ChunkCount(m) + P
    <2> SUFFICES ASSUME NEW m \in Nat, m > 0
                 PROVE  /\ ChunkCount(m) \in Nat /\ P * ChunkCount(m) <= m + P - 1
                        /\ m + P - 1 < P * ChunkCount(m) + P
        OBVIOUS
    <2> DEFINE t == m + P - 1
               d == t \div P
    <2>1. t \in Nat /\ ChunkCount(m) = d
        BY <1>1, <1>2
    <2>2. d \in Nat /\ P * d <= t /\ t < P * (d + 1)
        <3> HIDE DEF t
        <3> QED
            BY <1>1, <2>1, QuotientIs
    <2> HIDE DEF d
    <2>3. P * (d + 1) = P * d + P
        BY <1>1, <2>2
    <2> QED
        BY <2>1, <2>2, <2>3
<1>4. \A m \in Nat : ChunkCount(m) \in Nat /\ ChunkCount(m) > 0
    <2> SUFFICES ASSUME NEW m \in Nat PROVE ChunkCount(m) \in Nat /\ ChunkCount(m) > 0
        OBVIOUS
    <2>1. CASE m = 0
        BY <1>2, <2>1
    <2>2. CASE m > 0
        <3>1. ChunkCount(m) \in Nat /\ m + P - 1 < P * ChunkCount(m) + P
            BY <1>3, <2>2
        <3>2. P * 0 = 0
            BY <1>1
        <3>3. ChunkCount(m) # 0
            BY <1>1, <2>2, <3>1, <3>2
        <3> QED
            BY <3>1, <3>3
    <2> QED
        BY <2>1, <2>2
<1>5. ASSUME NEW m \in Nat, m <= l PROVE ChunkCount(m) <= n
    <2>1. CASE m = 0
        BY <1>2, <1>4, <2>1
    <2>2. CASE m > 0
        <3> SUFFICES ASSUME n + 1 <= ChunkCount(m) PROVE FALSE
            BY <1>4
        <3>1. P * (n + 1) <= P * ChunkCount(m)
            BY <1>1, <1>4, ProductGrows
        <3>2. P * (n + 1) = P * n + P /\ P * n \in Nat /\ P * ChunkCount(m) \in Nat
            BY <1>1, <1>4
        <3>3. P * ChunkCount(m) <= m + P - 1 /\ l + P - 1 < P * n + P
            BY <1>3, <1>5, <2>2
        <3> HIDE DEF n
        <3> QED
            BY <1>1, <1>5, <3>1, <3>2, <3>3
    <2> QED
        BY <2>1, <2>2
<1>6. ASSUME NEW i \in 1..l
      PROVE  \E c \in 1..n : (c - 1) * P + 1 <= i /\ i <= c * P
    <2> DEFINE d == (i - 1) \div P
    <2>1. i - 1 \in Nat /\ l > 0
        OBVIOUS
    <2>2. d \in Nat /\ P * d <= i - 1 /\ i - 1 < P * (d + 1)
        BY <1>1, <2>1, QuotientIs
    <2> HIDE DEF d
    <2>3. d + 1 <= n
        <3> SUFFICES ASSUME n <= d PROVE FALSE
            BY <1>4, <2>2
        <3>1. P * n <= P * d /\ P * n \in Nat /\ P * d \in Nat
            BY <1>1, <1>4, <2>2, ProductGrows
        <3>2. l + P - 1 < P * n + P
            BY <1>3, <2>1
        <3> HIDE DEF n
        <3> QED
            BY <1>1, <2>2, <3>1, <3>2
    <2>4. ((d + 1) - 1) * P = P * d /\ (d + 1) * P = P * (d + 1) /\ P * d \in Nat /\ P * (d + 1) \in Nat
        BY <1>1, <2>2
    <2>5. d + 1 \in 1..n
        BY <1>4, <2>2, <2>3
    <2>6. ((d + 1) - 1) * P + 1 <= i /\ i <= (d + 1) * P
        BY <2>2, <2>4
    <2> HIDE DEF n
    <2> QED
        BY <2>5, <2>6
<1> QED
    BY <1>4, <1>5, <1>6 DEF P

\* A listing has every element once.
LEMMA ListsOnce ==
    ASSUME NEW S, IsFiniteSet(S), NEW l, l = SetToSeq(S)
    PROVE  /\ l \in Seq(S) /\ Len(l) = Cardinality(S) /\ Len(l) \in Nat
           /\ \A i, j \in 1..Len(l) : l[i] = l[j] => i = j
           /\ \A e \in S : \E i \in 1..Len(l) : l[i] = e
<1> DEFINE n == Cardinality(S)
           D == 1..n
<1>1. n \in Nat /\ ExistsBijection(D, S)
    BY FS_CardinalityType
<1>2. IsFiniteSet(D) /\ Cardinality(D) = n
    <2>1. 0 <= n
        BY <1>1
    <2> QED
        BY <1>1, <2>1, FS_Interval
<1>3. l \in [D -> S] /\ IsInjective(l)
    <2>1. \E f \in [D -> S] : IsInjective(f)
        BY <1>1 DEF ExistsBijection, Bijection, Injection
    <2> QED
        BY <2>1 DEF SetToSeq
<1>4. l \in Seq(S) /\ Len(l) = n /\ DOMAIN l = D
    BY <1>1, <1>3
<1> HIDE DEF D
<1>5. l \in Surjection(D, S)
    <2>1. l \in Injection(D, S)
        BY <1>3 DEF Injection
    <2> QED
        BY <1>2, <2>1, FS_Injection
<1> QED
    BY <1>1, <1>3, <1>4, <1>5 DEF D, IsInjective, Surjection

\* The chunks of a map, when their number fits its byte: numbered from 0, each with
\* the number of all of them, and every entry of the map in just one of them.
LEMMA ChunksSplit ==
    ASSUME NEW kind, NEW head, NEW entries, IsFiniteSet(entries),
           ChunkCount(Cardinality(entries)) < ByteMod,
           NEW q, q = Chunks(kind, head, entries)
    PROVE  /\ q \in Seq(Range(q)) /\ q # <<>> /\ Len(q) \in Nat /\ Len(q) > 0
           /\ \A i \in 1..Len(q) :
                 /\ q[i].kind = kind /\ q[i].ts = now /\ q[i].head = head
                 /\ q[i].index = i - 1 /\ q[i].count = Len(q)
                 /\ q[i].entries \subseteq entries
           /\ \A i, j \in 1..Len(q) : i # j => q[i].entries \cap q[j].entries = {}
           /\ \A e \in entries : \E i \in 1..Len(q) : e \in q[i].entries
<1> DEFINE l == SetToSeq(entries)
           n == ChunkCount(Len(l))
           last(c) == Min({c * PerChunk, Len(l)})
           part(c) == {l[i] : i \in ((c - 1) * PerChunk + 1)..last(c)}
<1>1. /\ l \in Seq(entries) /\ Len(l) \in Nat /\ Len(l) = Cardinality(entries)
      /\ \A i, j \in 1..Len(l) : l[i] = l[j] => i = j
      /\ \A e \in entries : \E i \in 1..Len(l) : l[i] = e
    BY ListsOnce
<1>2. q = [c \in 1..n |->
              [kind    |-> kind, ts |-> now, head |-> head,
               index   |-> (c - 1) % ByteMod,
               count   |-> n % ByteMod,
               entries |-> part(c)]]
    BY DEF Chunks
<1> HIDE DEF l
<1>3. /\ ByteMod \in Nat /\ ByteMod > 0 /\ PerChunk \in Nat /\ PerChunk > 0
    BY TelemetryAssumption
<1>4. /\ n \in Nat /\ n > 0 /\ n < ByteMod
      /\ \A i \in 1..Len(l) : \E c \in 1..n : (c - 1) * PerChunk + 1 <= i /\ i <= c * PerChunk
    BY <1>1, ChunkOf
<1> HIDE DEF n, part
<1>5. Len(q) = n /\ q \in Seq(Range(q)) /\ q # <<>>
    <2>1. q \in [1..n -> Range(q)]
        BY <1>2 DEF Range
    <2>2. Len(q) = n /\ q \in Seq(Range(q))
        BY <1>4, <2>1
    <2> QED
        BY <1>4, <2>2
<1>6. ASSUME NEW c \in 1..n
      PROVE  /\ q[c].kind = kind /\ q[c].ts = now /\ q[c].head = head
             /\ q[c].index = c - 1 /\ q[c].count = n /\ q[c].entries = part(c)
    <2>1. \A m \in Nat : m < ByteMod => m % ByteMod = m
        BY <1>3
    <2>2. c - 1 \in Nat /\ c - 1 < ByteMod
        BY <1>3, <1>4
    <2>3. (c - 1) % ByteMod = c - 1 /\ n % ByteMod = n
        BY <1>4, <2>1, <2>2
    <2> QED
        BY <1>2, <2>3
<1>7. ASSUME NEW c \in 1..n, NEW e \in part(c)
      PROVE  \E i \in 1..Len(l) : e = l[i] /\ (c - 1) * PerChunk + 1 <= i /\ i <= c * PerChunk
    <2>1. (c - 1) * PerChunk \in Nat /\ c * PerChunk \in Nat
        BY <1>3, <1>4
    <2>2. last(c) \in Nat /\ last(c) <= Len(l) /\ last(c) <= c * PerChunk
        BY <1>1, <2>1, MinOfTwo
    <2> HIDE DEF last
    <2>3. PICK i \in ((c - 1) * PerChunk + 1)..last(c) : e = l[i]
        BY <1>7 DEF part
    <2> QED
        BY <1>1, <2>1, <2>2, <2>3
<1>8. ASSUME NEW c \in 1..n, NEW d \in 1..n, c < d PROVE part(c) \cap part(d) = {}
    <2> SUFFICES ASSUME NEW e, e \in part(c), e \in part(d) PROVE FALSE
        OBVIOUS
    <2>1. PICK i \in 1..Len(l) : e = l[i] /\ i <= c * PerChunk
        BY <1>7
    <2>2. PICK j \in 1..Len(l) : e = l[j] /\ (d - 1) * PerChunk + 1 <= j
        BY <1>7
    <2>3. PerChunk * c <= PerChunk * (d - 1)
        <3>1. c \in Nat /\ d - 1 \in Nat /\ c <= d - 1
            BY <1>4, <1>8
        <3> QED
            BY <1>3, <3>1, ProductGrows
    <2>4. PerChunk * c = c * PerChunk /\ PerChunk * (d - 1) = (d - 1) * PerChunk
          /\ c * PerChunk \in Nat /\ (d - 1) * PerChunk \in Nat
        BY <1>3, <1>4
    <2>5. i < j
        BY <1>1, <2>1, <2>2, <2>3, <2>4
    <2>6. i = j
        BY <1>1, <2>1, <2>2
    <2> QED
        BY <1>1, <2>5, <2>6
<1>9. ASSUME NEW e \in entries PROVE \E c \in 1..n : e \in part(c)
    <2>1. PICK i \in 1..Len(l) : l[i] = e
        BY <1>1
    <2>2. PICK c \in 1..n : (c - 1) * PerChunk + 1 <= i /\ i <= c * PerChunk
        BY <1>4
    <2>3. (c - 1) * PerChunk \in Nat /\ c * PerChunk \in Nat
        BY <1>3, <1>4
    <2> DEFINE top == c * PerChunk
    <2>4. i <= last(c) /\ last(c) \in Nat
        <3>1. top \in Nat /\ Len(l) \in Nat /\ i <= top /\ i <= Len(l) /\ last(c) = Min({top, Len(l)})
            BY <1>1, <2>2, <2>3
        <3> HIDE DEF top, last
        <3> QED
            BY <3>1, MinOfTwo
    <2> HIDE DEF last
    <2>5. i \in ((c - 1) * PerChunk + 1)..last(c)
        BY <1>1, <2>2, <2>3, <2>4
    <2> QED
        BY <2>1, <2>5 DEF part
<1>10. ASSUME NEW c \in 1..n PROVE part(c) \subseteq entries
    BY <1>1, <1>7
<1>11. ASSUME NEW c \in 1..n, NEW d \in 1..n, c # d PROVE part(c) \cap part(d) = {}
    <2>1. c < d \/ d < c
        BY <1>4, <1>11
    <2> QED
        BY <1>8, <2>1
<1>12. \A i \in 1..n : /\ q[i].kind = kind /\ q[i].ts = now /\ q[i].head = head
                       /\ q[i].index = i - 1 /\ q[i].count = n
                       /\ q[i].entries \subseteq entries
    BY <1>6, <1>10
<1>13. \A i, j \in 1..n : i # j => q[i].entries \cap q[j].entries = {}
    BY <1>6, <1>11
<1>14. \A e \in entries : \E i \in 1..n : e \in q[i].entries
    BY <1>6, <1>9
<1> QED
    BY <1>4, <1>5, <1>12, <1>13, <1>14

-----------------------------------------------------------------------------
(* Routing chunks.                                                         *)

\* The chunks of one map are routed one after the other, in order and before
\* anything else is packed, so the endpoint has the ones with smaller indices and
\* none of another map.
GroupInv ==
    /\ epc \notin {"send_streams", "send_scripts"} => chunks = <<>>
    /\ \A i \in 1..Len(chunks) :
          /\ chunks[i].kind = chunks[1].kind
          /\ chunks[i].ts = now
          /\ chunks[i].head = chunks[1].head
          /\ chunks[i].index = chunks[1].index + i - 1
          /\ chunks[i].count = chunks[1].index + Len(chunks)
    /\ \A k \in Kinds :
          pending[k] =
              IF chunks # <<>> /\ k = chunks[1].kind /\ chunks[1].index > 0
              THEN [ts |-> now, head |-> chunks[1].head, size |-> chunks[1].count,
                    received |-> 0..(chunks[1].index - 1), entries |-> pending[k].entries]
              ELSE NoGroup

FlowInv == EntriesInv /\ GroupInv

\* What is taken out of the counters is packed before the counters are read again.
SnapInv ==
    /\ snap \in [event : [Streams -> Nat], emitted : [Streams -> Nat], drops : Nat]
    /\ epc \notin {"emitted", "drops", "chunk"} => snap.event = Zero(Streams)
    /\ epc \notin {"drops", "chunk"} => snap.emitted = Zero(Streams)
    /\ recorded \in [Streams -> Nat] /\ shown \in [Streams -> Nat]
    /\ invoked \in [Scripts -> Nat] /\ shown_inv \in [Scripts -> Nat]

\* NothingUncounted and NothingUninvoked over the entries on their way.
CountInv ==
    /\ \A s \in Streams :
          recorded[s] =
              Value(counts["event"][s]) + Value(counts["emitted"][s])
              + snap.event[s] + snap.emitted[s]
              + Tally("streams", InHand("streams"), s)
              + shown[s]
    /\ \A x \in Scripts :
          invoked[x] + (IF inv[x].pc = "idle" THEN 0 ELSE 1) =
              stats[x].count + Tally("scripts", InHand("scripts"), x) + shown_inv[x]

\* The counts of some entries add up to the totals of a header.
AddsUp(E, head) == MapThenSumSet(LAMBDA s : CountIn(E, s), Streams) = head[1] + head[2]

\* The entries on their way add up to the header of each chunk, those on the screen
\* to the header shown.
AddsUpInv ==
    /\ chunks # <<>> /\ chunks[1].kind = "streams" => AddsUp(InHand("streams"), chunks[1].head)
    /\ latest["streams"] # NoGroup => AddsUp(latest["streams"].entries, latest["streams"].head)

\* What the endpoint has of a map after one more chunk of it.
Joined ==
    [ts |-> now, head |-> chunks[1].head, size |-> chunks[1].count,
     received |-> 0..chunks[1].index,
     entries |-> pending[chunks[1].kind].entries \cup chunks[1].entries]

\* No chunk is refused, and the last one completes the group.
LEMMA RouteIs ==
    ASSUME TypeInv, GroupInv, RouteChunk, NEW k, k = chunks[1].kind
    PROVE  /\ 1 \in 1..Len(chunks) /\ k \in Kinds /\ chunks # <<>> /\ chunks' = Tail(chunks)
           /\ \/ /\ Len(chunks) > 1
                 /\ pending' = [pending EXCEPT ![k] = Joined]
                 /\ UNCHANGED <<latest, shown, shown_inv>>
              \/ /\ Len(chunks) = 1
                 /\ pending' = [pending EXCEPT ![k] = NoGroup]
                 /\ latest' = [latest EXCEPT ![k] = Joined]
                 /\ shown' = [s \in Streams |->
                                 shown[s] + IF k = "streams" THEN Rendered(Joined, k, s) ELSE 0]
                 /\ shown_inv' = [x \in Scripts |->
                                 shown_inv[x] + IF k = "scripts" THEN Rendered(Joined, k, x) ELSE 0]
<1> DEFINE ch == chunks[1]
           m == ch.index
           n == ch.count
           l == Len(chunks)
           g0 == GroupFor(ch)
           g == [g0 EXCEPT !.received = @ \cup {ch.index}, !.entries = @ \cup ch.entries]
           first == [ts |-> now, head |-> ch.head, size |-> n, received |-> 0..(m - 1),
                     entries |-> pending[k].entries]
<1>1. chunks # <<>> /\ chunks' = Tail(chunks) /\ chunks \in Seq(Range(chunks))
    BY DEF RouteChunk, TypeInv, Shapes
<1>2. Head(chunks) = ch /\ 1 \in 1..l /\ l \in Nat /\ l > 0
    BY <1>1, TailIs
<1>3. k \in Kinds /\ m \in 0..(ByteMod - 1)
    BY <1>2 DEF TypeInv, TypeOK
<1>4. m \in Nat
    BY <1>3, TelemetryAssumption
<1>5. ch.ts = now /\ n = m + l
    BY <1>2 DEF GroupInv
<1>6. pending[k] = IF m > 0 THEN first ELSE NoGroup
    BY <1>1, <1>3 DEF GroupInv
<1>7. g0 = first
    <2>1. g0 = IF pending[k] # NoGroup /\ pending[k].ts = now THEN pending[k]
               ELSE [ts |-> now, head |-> ch.head, size |-> n, received |-> {}, entries |-> {}]
        BY <1>5 DEF GroupFor
    <2> HIDE DEF g0, n, m
    <2>2. CASE m > 0
        <3>1. first # NoGroup
            <4>1. first.size = n /\ NoGroup.size = 0
                BY DEF NoGroup
            <4>2. n > 0
                BY <1>2, <1>4, <1>5 DEF n
            <4> QED
                BY <4>1, <4>2
        <3>2. first.ts = now
            OBVIOUS
        <3> HIDE DEF first
        <3> QED
            BY <1>6, <2>1, <2>2, <3>1, <3>2
    <2>3. CASE m = 0
        <3>1. pending[k] = NoGroup /\ pending[k].entries = {}
            BY <1>6, <2>3 DEF NoGroup
        <3>2. 0..(m - 1) = {}
            BY <2>3
        <3>3. g0 = [ts |-> now, head |-> ch.head, size |-> n, received |-> {}, entries |-> {}]
            BY <2>1, <3>1
        <3> QED
            BY <3>1, <3>2, <3>3
    <2> QED
        BY <1>4, <2>2, <2>3
<1>8. g = Joined /\ ch.index < g0.size /\ ch.index \notin g0.received
    <2>1. g0.size = n /\ g0.received = 0..(m - 1) /\ m < n /\ m \notin 0..(m - 1)
        <3> HIDE DEF g0, n, m
        <3>1. g0.size = n /\ g0.received = 0..(m - 1)
            BY <1>7
        <3>2. m < n /\ m \notin 0..(m - 1)
            BY <1>2, <1>4, <1>5 DEF n, m
        <3> QED
            BY <3>1, <3>2
    <2>2. 0..(m - 1) \cup {m} = 0..m
        <3> HIDE DEF m
        <3> QED
            BY <1>4
    <2>3. g = [first EXCEPT !.received = @ \cup {m}, !.entries = @ \cup ch.entries]
        <3> HIDE DEF g0, first
        <3> QED
            BY <1>7
    <2>4. first.received = 0..(m - 1) /\ first.entries = pending[k].entries
        OBVIOUS
    <2>5. g = [first EXCEPT !.received = 0..m, !.entries = pending[k].entries \cup ch.entries]
        <3> HIDE DEF first, g, m
        <3> QED
            BY <2>2, <2>3, <2>4
    <2>6. g = [ts |-> now, head |-> ch.head, size |-> n, received |-> 0..m,
               entries |-> pending[k].entries \cup ch.entries]
        <3> HIDE DEF g, m, n
        <3> QED
            BY <2>5
    <2> QED
        BY <2>1, <2>6 DEF Joined
<1>9. Complete(Joined) <=> l = 1
    <2>1. Joined.received = 0..m /\ Joined.size = n
        BY DEF Joined
    <2>2. n - 1 \in Nat /\ n - 1 = m + (l - 1)
        <3> HIDE DEF m, n, l
        <3> QED
            BY <1>2, <1>4, <1>5
    <2>3. 0..m = 0..(n - 1) <=> m = n - 1
        <3> HIDE DEF m, n
        <3>1. \A a, b \in Nat : 0..a = 0..b => a = b
            <4> SUFFICES ASSUME NEW a \in Nat, NEW b \in Nat, 0..a = 0..b PROVE a = b
                OBVIOUS
            <4>1. a \in 0..b /\ b \in 0..a
                <5>1. a \in 0..a /\ b \in 0..b
                    OBVIOUS
                <5> QED
                    BY <5>1
            <4> QED
                BY <4>1
        <3> QED
            BY <1>4, <2>2, <3>1
    <2>4. m = n - 1 <=> l = 1
        <3> HIDE DEF m, n, l
        <3> QED
            BY <1>2, <1>4, <2>2
    <2> QED
        BY <2>1, <2>3, <2>4 DEF Complete
<1>10. \/ /\ ~Complete(g)
          /\ pending' = [pending EXCEPT ![k] = g]
          /\ UNCHANGED <<latest, shown, shown_inv>>
       \/ /\ Complete(g)
          /\ pending' = [pending EXCEPT ![k] = NoGroup]
          /\ latest' = [latest EXCEPT ![k] = g]
          /\ shown' = [s \in Streams |-> shown[s] + IF k = "streams" THEN Rendered(g, k, s) ELSE 0]
          /\ shown_inv' = [x \in Scripts |-> shown_inv[x] + IF k = "scripts" THEN Rendered(g, k, x) ELSE 0]
    <2> DEFINE r == g0.received \cup {ch.index}
               e == g0.entries \cup ch.entries
               q == [g0 EXCEPT !.received = r, !.entries = e]
    <2>1. \/ ch.index >= g0.size \/ ch.index \in g0.received
          \/ /\ ~Complete(q)
             /\ pending' = [pending EXCEPT ![k] = q]
             /\ UNCHANGED <<latest, shown, shown_inv>>
          \/ /\ Complete(q)
             /\ pending' = [pending EXCEPT ![k] = NoGroup]
             /\ latest' = [latest EXCEPT ![k] = q]
             /\ shown' = [s \in Streams |-> shown[s] + IF k = "streams" THEN Rendered(q, k, s) ELSE 0]
             /\ shown_inv' = [x \in Scripts |-> shown_inv[x] + IF k = "scripts" THEN Rendered(q, k, x) ELSE 0]
        BY <1>2 DEF RouteChunk
    <2>2. q = g
        OBVIOUS
    <2>3. ~(ch.index >= g0.size)
        <3>1. g0.size = n /\ n \in Nat
            <4>1. g0.size = n
                BY <1>7
            <4> HIDE DEF n, m
            <4> QED
                BY <1>2, <1>4, <1>5, <4>1
        <3> HIDE DEF g0, n
        <3> QED
            BY <1>4, <1>8, <3>1
    <2> HIDE DEF g0, g, q, r, e
    <2> QED
        BY <1>8, <2>1, <2>2, <2>3
<1> HIDE DEF g, l
<1>11. Complete(g) <=> l = 1
    BY <1>8, <1>9
<1>12. g = Joined
    BY <1>8
<1>13. l > 1 <=> l # 1
    BY <1>2
<1>14. \/ /\ l > 1
          /\ pending' = [pending EXCEPT ![k] = g]
          /\ UNCHANGED <<latest, shown, shown_inv>>
       \/ /\ l = 1
          /\ pending' = [pending EXCEPT ![k] = NoGroup]
          /\ latest' = [latest EXCEPT ![k] = g]
          /\ shown' = [s \in Streams |-> shown[s] + IF k = "streams" THEN Rendered(g, k, s) ELSE 0]
          /\ shown_inv' = [x \in Scripts |-> shown_inv[x] + IF k = "scripts" THEN Rendered(g, k, x) ELSE 0]
    BY <1>10, <1>11, <1>13
<1> QED
    BY <1>1, <1>2, <1>3, <1>12, <1>14 DEF l

\* Routing keeps the order of the chunks, and the group is the chunks routed so far.
LEMMA RouteGroup ==
    ASSUME TypeInv, GroupInv, RouteChunk
    PROVE  GroupInv'
<1> DEFINE k == chunks[1].kind
           l == Len(chunks)
           m == chunks[1].index
           q == Tail(chunks)
<1>1. /\ 1 \in 1..l /\ k \in Kinds /\ chunks # <<>> /\ chunks' = q
      /\ \/ l > 1 /\ pending' = [pending EXCEPT ![k] = Joined]
         \/ l = 1 /\ pending' = [pending EXCEPT ![k] = NoGroup]
    BY RouteIs
<1>2. /\ chunks \in Seq(Range(chunks)) /\ pending = [j \in Kinds |-> pending[j]]
      /\ m \in 0..(ByteMod - 1)
    BY <1>1 DEF TypeInv, Shapes, TypeOK
<1>3. /\ l \in Nat /\ Len(q) = l - 1 /\ q \in Seq(Range(q))
      /\ \A i \in 1..Len(q) : q[i] = chunks[i + 1] /\ i + 1 \in 1..l
    BY <1>1, <1>2, TailIs
<1>4. m \in Nat
    BY <1>2, TelemetryAssumption
<1>5. \A i \in 1..l : /\ chunks[i].kind = k /\ chunks[i].ts = now
                      /\ chunks[i].head = chunks[1].head
                      /\ chunks[i].index = m + i - 1
                      /\ chunks[i].count = m + l
    BY DEF GroupInv
<1>6. epc \in {"send_streams", "send_scripts"} /\ epc' = epc /\ now' = now
    BY DEF RouteChunk
<1> HIDE DEF q, l, m, k
<1>7. \A i \in 1..Len(q) : /\ q[i].kind = k /\ q[i].ts = now
                           /\ q[i].head = chunks[1].head
                           /\ q[i].index = m + i
                           /\ q[i].count = m + l
    <2> TAKE i \in 1..Len(q)
    <2>1. q[i] = chunks[i + 1] /\ i + 1 \in 1..l /\ m + (i + 1) - 1 = m + i
        BY <1>3, <1>4
    <2> QED
        BY <1>5, <2>1
<1>8. Len(q) > 0 => /\ q[1].kind = k /\ q[1].head = chunks[1].head
                    /\ q[1].index = m + 1 /\ q[1].count = m + l
    <2>1. Len(q) > 0 => 1 \in 1..Len(q)
        BY <1>3
    <2> QED
        BY <1>7, <2>1
<1>9. \A i \in 1..Len(q) : /\ q[i].kind = q[1].kind /\ q[i].ts = now
                           /\ q[i].head = q[1].head
                           /\ q[i].index = q[1].index + i - 1
                           /\ q[i].count = q[1].index + Len(q)
    <2> TAKE i \in 1..Len(q)
    <2>1. Len(q) > 0 /\ (m + 1) + i - 1 = m + i /\ (m + 1) + Len(q) = m + l
        BY <1>3, <1>4
    <2> QED
        BY <1>7, <1>8, <2>1
<1>10. chunks[1].count = m + l
    BY <1>1, <1>5
<1>11. \A j \in Kinds : j # k => pending[j] = NoGroup
    BY DEF GroupInv, k
<1>12. ASSUME NEW j \in Kinds
       PROVE  pending'[j] =
              IF q # <<>> /\ j = q[1].kind /\ q[1].index > 0
              THEN [ts |-> now, head |-> q[1].head, size |-> q[1].count,
                    received |-> 0..(q[1].index - 1), entries |-> pending'[j].entries]
              ELSE NoGroup
    <2>1. CASE l > 1
        <3>1. Len(q) > 0 /\ q # <<>> /\ m + 1 > 0 /\ (m + 1) - 1 = m
            BY <1>3, <1>4, <2>1
        <3>2. pending' = [pending EXCEPT ![k] = Joined]
            BY <1>1, <2>1
        <3>3. CASE j = k
            <4>1. pending'[j] = Joined
                BY <1>2, <3>2, <3>3
            <4>2. Joined = [ts |-> now, head |-> chunks[1].head, size |-> m + l,
                            received |-> 0..m, entries |-> Joined.entries]
                BY <1>10 DEF Joined, m
            <4> QED
                BY <1>8, <3>1, <3>3, <4>1, <4>2
        <3>4. CASE j # k
            BY <1>2, <1>8, <1>11, <3>1, <3>2, <3>4
        <3> QED
            BY <3>3, <3>4
    <2>2. CASE l = 1
        <3>1. q = <<>>
            BY <1>3, <2>2
        <3>2. pending'[j] = NoGroup
            BY <1>1, <1>2, <1>11, <2>2
        <3> QED
            BY <3>1, <3>2
    <2> QED
        BY <1>1, <2>1, <2>2
<1> QED
    BY <1>1, <1>6, <1>9, <1>12 DEF GroupInv

\* What is in hand, entry by entry.
LEMMA InHandHas ==
    \A k, e : e \in InHand(k) <=> \/ e \in pending[k].entries
                                  \/ \E i \in 1..Len(chunks) : chunks[i].kind = k /\ e \in chunks[i].entries
BY DEF InHand, Left, Queued

\* Routing moves entries to the group, and the whole group to the screen.
LEMMA RouteHand ==
    ASSUME TypeInv, GroupInv, RouteChunk, NEW k, k = chunks[1].kind
    PROVE  /\ Len(chunks) > 1 => \A j \in Kinds : InHand(j)' = InHand(j)
           /\ Len(chunks) = 1 => /\ Joined.entries = InHand(k)
                                 /\ \A j \in Kinds : InHand(j)' = {}
                                 /\ \A j \in Kinds : j # k => InHand(j) = {}
<1> DEFINE l == Len(chunks)
           q == Tail(chunks)
<1>1. /\ 1 \in 1..l /\ k \in Kinds /\ chunks # <<>> /\ chunks' = q
      /\ \/ l > 1 /\ pending' = [pending EXCEPT ![k] = Joined]
         \/ l = 1 /\ pending' = [pending EXCEPT ![k] = NoGroup]
    BY RouteIs
<1>2. chunks \in Seq(Range(chunks)) /\ pending = [j \in Kinds |-> pending[j]]
    BY DEF TypeInv, Shapes
<1>3. /\ l \in Nat /\ Len(q) = l - 1
      /\ \A i \in 1..Len(q) : q[i] = chunks[i + 1] /\ i + 1 \in 1..l
    BY <1>1, <1>2, TailIs
<1>4. \A i \in 1..l : chunks[i].kind = k
    BY DEF GroupInv
<1>5. Joined.entries = pending[k].entries \cup chunks[1].entries
    BY DEF Joined
<1>6. \A j, e : e \in InHand(j)' <=> \/ e \in pending'[j].entries
                                     \/ \E i \in 1..Len(q) : q[i].kind = j /\ e \in q[i].entries
    BY <1>1 DEF InHand, Left, Queued
<1>7. \A j \in Kinds : j # k => pending[j].entries = {} /\ pending'[j] = pending[j]
    <2>1. NoGroup.entries = {}
        BY DEF NoGroup
    <2> QED
        BY <1>1, <1>2, <2>1 DEF GroupInv
<1>8. \A i \in 1..l : i = 1 \/ \E c \in 1..Len(q) : i = c + 1
    <2> TAKE i \in 1..l
    <2>1. i # 1 => i - 1 \in 1..Len(q) /\ i = (i - 1) + 1
        BY <1>3
    <2> QED
        BY <2>1
<1> HIDE DEF q, l
<1>9. ASSUME l > 1, NEW j \in Kinds PROVE InHand(j)' = InHand(j)
    <2>1. pending'[k] = Joined
        BY <1>1, <1>2, <1>9
    <2>2. CASE j = k
        <3>1. \A e : e \in InHand(j)' => e \in InHand(j)
            <4> SUFFICES ASSUME NEW e, e \in InHand(j)' PROVE e \in InHand(j)
                OBVIOUS
            <4>1. CASE e \in pending'[j].entries
                BY <1>1, <1>4, <1>5, <2>1, <2>2, <4>1, InHandHas DEF l
            <4>2. CASE \E i \in 1..Len(q) : e \in q[i].entries
                BY <1>3, <1>4, <2>2, <4>2, InHandHas DEF l
            <4> QED
                BY <1>6, <4>1, <4>2
        <3>2. \A e : e \in InHand(j) => e \in InHand(j)'
            <4> SUFFICES ASSUME NEW e, e \in InHand(j) PROVE e \in InHand(j)'
                OBVIOUS
            <4>1. CASE e \in pending[j].entries
                BY <1>5, <1>6, <2>1, <2>2, <4>1
            <4>2. ASSUME NEW i \in 1..l, e \in chunks[i].entries PROVE e \in InHand(j)'
                <5>1. CASE i = 1
                    BY <1>5, <1>6, <2>1, <2>2, <4>2, <5>1
                <5>2. ASSUME NEW c \in 1..Len(q), i = c + 1 PROVE e \in InHand(j)'
                    <6>1. q[c] = chunks[i] /\ q[c].kind = j
                        BY <1>3, <1>4, <2>2, <5>2
                    <6> QED
                        BY <1>6, <4>2, <6>1
                <5> QED
                    BY <1>8, <5>1, <5>2
            <4> QED
                BY <4>1, <4>2, InHandHas DEF l
        <3> QED
            BY <3>1, <3>2
    <2>3. CASE j # k
        <3>1. \A e : e \notin InHand(j)
            BY <1>4, <1>7, <2>3, InHandHas DEF l
        <3>2. \A e : e \notin InHand(j)'
            BY <1>3, <1>4, <1>6, <1>7, <2>3
        <3> QED
            BY <3>1, <3>2
    <2> QED
        BY <2>2, <2>3
<1>10. ASSUME l = 1
       PROVE  /\ Joined.entries = InHand(k)
              /\ \A j \in Kinds : InHand(j)' = {}
              /\ \A j \in Kinds : j # k => InHand(j) = {}
    <2>1. Len(q) = 0 /\ (\A i \in 1..l : i = 1) /\ NoGroup.entries = {}
        BY <1>3, <1>10 DEF NoGroup
    <2>2. pending'[k] = NoGroup
        BY <1>1, <1>2, <1>10
    <2>3. \A e : e \in InHand(k) <=> e \in pending[k].entries \cup chunks[1].entries
        BY <1>1, <1>4, <2>1, InHandHas DEF l
    <2>4. \A j \in Kinds : \A e : e \notin InHand(j)'
        BY <1>6, <1>7, <2>1, <2>2
    <2>5. \A j \in Kinds : j # k => \A e : e \notin InHand(j)
        BY <1>4, <1>7, InHandHas DEF l
    <2> QED
        BY <1>5, <2>3, <2>4, <2>5
<1> QED
    BY <1>9, <1>10 DEF l

\* Between two maps nothing is on its way.
LEMMA NothingInHand ==
    ASSUME GroupInv, chunks = <<>>
    PROVE  \A j \in Kinds : pending[j] = NoGroup /\ pending[j].entries = {} /\ InHand(j) = {}
<1>1. NoGroup.entries = {} /\ Len(chunks) = 0
    BY DEF NoGroup
<1>2. \A j \in Kinds : pending[j] = NoGroup
    BY DEF GroupInv
<1>3. \A j \in Kinds : \A e : e \notin InHand(j)
    BY <1>1, <1>2, InHandHas
<1> QED
    BY <1>1, <1>2, <1>3

\* A map that is packed is on its way, all of it and nothing else.
LEMMA PackFlow ==
    ASSUME TypeInv, GroupInv, chunks = <<>>, NEW kind \in Kinds, NEW head, NEW entries,
           IsFiniteSet(entries), ChunkCount(Cardinality(entries)) < ByteMod,
           \A e \in entries : Amount(kind, e) \in Nat,
           \/ chunks' = <<>> /\ entries = {}
           \/ chunks' = Chunks(kind, head, entries),
           pending' = pending, now' = now, epc' \in {"send_streams", "send_scripts"}
    PROVE  /\ FlowInv'
           /\ InHand(kind)' = entries
           /\ \A j \in Kinds : j # kind => InHand(j)' = {}
           /\ chunks' # <<>> => chunks'[1].kind = kind /\ chunks'[1].head = head
<1> DEFINE q == chunks'
           l == Len(q)
<1>1. \A j \in Kinds : pending'[j] = NoGroup /\ pending'[j].entries = {}
    BY NothingInHand
<1>2. /\ l \in Nat /\ (q = <<>> <=> l = 0)
      /\ \A i \in 1..l : /\ q[i].kind = kind /\ q[i].ts = now /\ q[i].head = head
                         /\ q[i].index = i - 1 /\ q[i].count = l
                         /\ q[i].entries \subseteq entries
      /\ \A i, j \in 1..l : i # j => q[i].entries \cap q[j].entries = {}
      /\ \A e \in entries : \E i \in 1..l : e \in q[i].entries
    <2>1. CASE q = <<>> /\ entries = {}
        BY <2>1
    <2>2. CASE q = Chunks(kind, head, entries)
        <3> HIDE DEF q
        <3>1. /\ l \in Nat /\ l > 0 /\ q # <<>>
              /\ \A i \in 1..l : /\ q[i].kind = kind /\ q[i].ts = now /\ q[i].head = head
                                 /\ q[i].index = i - 1 /\ q[i].count = l
                                 /\ q[i].entries \subseteq entries
              /\ \A i, j \in 1..l : i # j => q[i].entries \cap q[j].entries = {}
              /\ \A e \in entries : \E i \in 1..l : e \in q[i].entries
            BY <2>2, ChunksSplit
        <3> QED
            BY <3>1
    <2> QED
        BY <2>1, <2>2
<1>3. \A j, e : e \in InHand(j)' <=> \/ e \in pending'[j].entries
                                     \/ \E i \in 1..l : q[i].kind = j /\ e \in q[i].entries
    BY DEF InHand, Left, Queued
<1>4. \A j, e : e \in Left(j)' => \E i \in 1..l : q[i].kind = j /\ e \in q[i].entries
    BY DEF Left, Queued
<1> HIDE DEF q, l
<1>5. \A e : e \in InHand(kind)' <=> e \in entries
    BY <1>1, <1>2, <1>3
<1>6. \A j \in Kinds : j # kind => \A e : e \notin InHand(j)'
    BY <1>1, <1>2, <1>3
<1>7. l > 0 => 1 \in 1..l /\ q[1].kind = kind /\ q[1].head = head /\ q[1].index = 0
    <2>1. l > 0 => 1 \in 1..l /\ 1 - 1 = 0
        BY <1>2
    <2> QED
        BY <1>2, <2>1
<1>8. GroupInv'
    <2>1. \A i \in 1..l : /\ q[i].kind = q[1].kind /\ q[i].ts = now' /\ q[i].head = q[1].head
                          /\ q[i].index = q[1].index + i - 1
                          /\ q[i].count = q[1].index + l
        <3> TAKE i \in 1..l
        <3>1. l > 0 /\ 0 + i - 1 = i - 1 /\ 0 + l = l
            BY <1>2
        <3> QED
            BY <1>2, <1>7, <3>1
    <2>2. \A j \in Kinds : ~(q # <<>> /\ j = q[1].kind /\ q[1].index > 0)
        BY <1>2, <1>7
    <2> QED
        BY <1>1, <2>1, <2>2 DEF GroupInv, q, l
<1>9. EntriesInv'
    <2>1. \A j \in Kinds : IsFiniteSet(pending'[j].entries)
        BY <1>1, FS_EmptySet
    <2>2. \A i \in 1..l : IsFiniteSet(q[i].entries)
        BY <1>2, FS_Subset
    <2>3. \A j \in Kinds : Left(j)' \cap pending'[j].entries = {}
        BY <1>1
    <2>4. \A j \in Kinds : \A e \in InHand(j)' : Amount(j, e) \in Nat
        BY <1>5, <1>6
    <2> QED
        BY <1>2, <2>1, <2>2, <2>3, <2>4 DEF EntriesInv, q, l
<1>10. InHand(kind)' = entries /\ \A j \in Kinds : j # kind => InHand(j)' = {}
    BY <1>5, <1>6
<1>11. q # <<>> => q[1].kind = kind /\ q[1].head = head
    BY <1>2, <1>7
<1> QED
    BY <1>8, <1>9, <1>10, <1>11 DEF FlowInv, q

\* An entry that is routed is in the group, and in no chunk any more.
LEMMA RouteEntries ==
    ASSUME TypeInv, FlowInv, RouteChunk
    PROVE  EntriesInv'
<1> DEFINE k == chunks[1].kind
           l == Len(chunks)
           q == Tail(chunks)
<1>1. /\ 1 \in 1..l /\ k \in Kinds /\ chunks # <<>> /\ chunks' = q
      /\ \/ l > 1 /\ pending' = [pending EXCEPT ![k] = Joined]
         \/ l = 1 /\ pending' = [pending EXCEPT ![k] = NoGroup]
    BY RouteIs DEF FlowInv
<1>2. chunks \in Seq(Range(chunks)) /\ pending = [j \in Kinds |-> pending[j]]
    BY DEF TypeInv, Shapes
<1>3. /\ l \in Nat /\ Len(q) = l - 1
      /\ \A i \in 1..Len(q) : q[i] = chunks[i + 1] /\ i + 1 \in 1..l /\ i + 1 # 1
    <2>1. \A i \in 1..Len(q) : i + 1 # 1
        OBVIOUS
    <2> QED
        BY <1>1, <1>2, <2>1, TailIs
<1>4. /\ \A i \in 1..l : chunks[i].kind = k /\ IsFiniteSet(chunks[i].entries)
      /\ \A i, j \in 1..l : i # j => chunks[i].entries \cap chunks[j].entries = {}
      /\ \A j \in Kinds : IsFiniteSet(pending[j].entries)
      /\ \A j \in Kinds : \A e \in InHand(j) : Amount(j, e) \in Nat
    BY DEF FlowInv, GroupInv, EntriesInv
<1>5. \A i \in 1..l : chunks[i].entries \cap pending[k].entries = {}
    <2>1. \A i \in 1..l : chunks[i].entries \subseteq Left(k)
        BY <1>4 DEF Left, Queued
    <2> QED
        BY <1>1, <2>1 DEF FlowInv, EntriesInv
<1>6. Joined.entries = pending[k].entries \cup chunks[1].entries /\ IsFiniteSet(Joined.entries)
    <2>1. IsFiniteSet(pending[k].entries \cup chunks[1].entries)
        BY <1>1, <1>4, FS_Union
    <2> QED
        BY <2>1 DEF Joined
<1>7. NoGroup.entries = {}
    BY DEF NoGroup
<1>8. \A j, e : e \in Left(j)' => \E i \in 1..Len(q) : q[i].kind = j /\ e \in q[i].entries
    BY <1>1 DEF Left, Queued
<1>9. \A j \in Kinds : \A e \in InHand(j)' : Amount(j, e) \in Nat
    <2>1. CASE l > 1
        <3>1. \A j \in Kinds : InHand(j)' = InHand(j)
            BY <2>1, RouteHand DEF FlowInv
        <3> QED
            BY <1>4, <3>1
    <2>2. CASE l = 1
        <3>1. \A j \in Kinds : InHand(j)' = {}
            BY <2>2, RouteHand DEF FlowInv
        <3> QED
            BY <3>1
    <2> QED
        BY <1>1, <2>1, <2>2
<1> HIDE DEF q, l, k
<1>10. \A j \in Kinds : j # k => pending'[j] = pending[j]
    BY <1>1, <1>2
<1>11. pending'[k].entries = Joined.entries \/ pending'[k].entries = {}
    BY <1>1, <1>2, <1>7
<1>12. \A j \in Kinds : IsFiniteSet(pending'[j].entries)
    BY <1>4, <1>6, <1>10, <1>11, FS_EmptySet
<1>13. \A i \in 1..Len(q) : IsFiniteSet(q[i].entries)
    BY <1>3, <1>4
<1>14. \A i, j \in 1..Len(q) : i # j => q[i].entries \cap q[j].entries = {}
    <2> TAKE i, j \in 1..Len(q)
    <2>1. i # j => i + 1 # j + 1
        BY <1>3
    <2> QED
        BY <1>3, <1>4, <2>1
<1>15. ASSUME NEW j \in Kinds, NEW e, e \in Left(j)' PROVE e \notin pending'[j].entries
    <2>1. PICK i \in 1..Len(q) : q[i].kind = j /\ e \in q[i].entries
        BY <1>8, <1>15
    <2>2. j = k /\ e \in chunks[i + 1].entries /\ i + 1 \in 1..l /\ i + 1 # 1
        BY <1>3, <1>4, <2>1
    <2>3. e \notin pending[k].entries /\ e \notin chunks[1].entries
        BY <1>1, <1>4, <1>5, <2>2
    <2> QED
        BY <1>6, <1>11, <2>2, <2>3
<1> QED
    BY <1>1, <1>9, <1>12, <1>13, <1>14, <1>15 DEF EntriesInv

-----------------------------------------------------------------------------
(* Packing.                                                                *)

\* Chunk counts fit the byte that carries them.
FewChunks ==
    /\ ChunkCount(Cardinality(Streams)) < ByteMod
    /\ ChunkCount(Cardinality(Scripts)) < ByteMod

\* A map made of part of a set takes no more chunks than the set would.
LEMMA FewOf ==
    ASSUME NEW S, IsFiniteSet(S), ChunkCount(Cardinality(S)) < ByteMod,
           NEW U \in SUBSET S, NEW f, NEW T, T = {f[x] : x \in U}
    PROVE  IsFiniteSet(T) /\ ChunkCount(Cardinality(T)) < ByteMod
<1>1. IsFiniteSet(U) /\ Cardinality(U) <= Cardinality(S) /\ Cardinality(S) \in Nat
    BY FS_Subset, FS_CardinalityType
<1>2. Cardinality(U) \in Nat
    BY <1>1, FS_CardinalityType
<1>3. IsFiniteSet(T) /\ Cardinality(T) <= Cardinality(U)
    BY <1>1, ImageFinite
<1>4. Cardinality(T) \in Nat
    BY <1>3, FS_CardinalityType
<1>5. Cardinality(T) <= Cardinality(S)
    BY <1>1, <1>2, <1>3, <1>4
<1>6. ChunkCount(Cardinality(T)) <= ChunkCount(Cardinality(S))
      /\ ChunkCount(Cardinality(T)) \in Nat /\ ChunkCount(Cardinality(S)) \in Nat /\ ByteMod \in Nat
    BY <1>1, <1>4, <1>5, ChunkOf, TelemetryAssumption
<1> QED
    BY <1>3, <1>6

\* One entry, or none, is all there is for s.
LEMMA SingleTally ==
    ASSUME NEW k \in Kinds, NEW E, IsFiniteSet(E), \A e \in E : Amount(k, e) \in Nat, NEW s
    PROVE  /\ (\A e \in E : Key(k, e) # s) => Tally(k, E, s) = 0
           /\ \A d \in E : (\A e \in E : Key(k, e) = s <=> e = d) => Tally(k, E, s) = Amount(k, d)
<1> DEFINE g == [entries |-> E]
           f == [e \in E |-> Amount(k, e)]
           T == {e \in E : Key(k, e) = s}
<1>1. g.entries = E /\ \A e \in E : f[e] = Amount(k, e) /\ f[e] \in Nat
    OBVIOUS
<1> HIDE DEF g, f
<1>2. Tally(k, E, s) = SumOf(f, T)
    <2>1. Rendered(g, k, s) = SumOf(f, T)
        BY <1>1, RenderedIs
    <2> QED
        BY <2>1 DEF Tally, g
<1>3. ASSUME \A e \in E : Key(k, e) # s PROVE Tally(k, E, s) = 0
    <2>1. T = {}
        BY <1>3
    <2> QED
        BY <1>2, <2>1, SumEmpty
<1>4. ASSUME NEW d \in E, \A e \in E : Key(k, e) = s <=> e = d PROVE Tally(k, E, s) = Amount(k, d)
    <2>1. T = {d}
        BY <1>4
    <2> DEFINE R == {d} \ {d}
    <2>2. R = {}
        OBVIOUS
    <2>3. SumOf(f, {d}) = f[d] + SumOf(f, R)
        <3>1. IsFiniteSet({d}) /\ \A x \in {d} : f[x] \in Nat
            BY <1>1, FS_Singleton
        <3> QED
            BY <3>1, SumRemove
    <2>4. SumOf(f, R) = 0
        BY <2>2, SumEmpty
    <2>5. f[d] \in Nat /\ f[d] = Amount(k, d)
        BY <1>1
    <2> HIDE DEF T, R
    <2> QED
        BY <1>2, <2>1, <2>3, <2>4, <2>5
<1> QED
    BY <1>3, <1>4

\* The entries that pack_stream_metrics() makes count what it has taken out.
LEMMA CombinedIs ==
    ASSUME SnapInv, FewChunks
    PROVE  /\ IsFiniteSet(Combined) /\ ChunkCount(Cardinality(Combined)) < ByteMod
           /\ \A e \in Combined : Amount("streams", e) \in Nat
           /\ \A s \in Streams : Tally("streams", Combined, s) = snap.event[s] + snap.emitted[s]
<1> DEFINE v == [s \in Streams |-> snap.event[s] + snap.emitted[s]]
           f == [s \in Streams |-> <<s, v[s]>>]
           U == {s \in Streams : v[s] > 0}
<1>1. \A s \in Streams : v[s] \in Nat /\ v[s] = snap.event[s] + snap.emitted[s] /\ f[s] = <<s, v[s]>>
    BY DEF SnapInv
<1>2. U \in SUBSET Streams /\ Combined = {f[s] : s \in U}
    BY <1>1 DEF Combined
<1> HIDE DEF f, v
<1>3. /\ \A s \in U : s \in Streams /\ v[s] > 0
      /\ \A s \in Streams : s \notin U => v[s] = 0
    BY <1>1
<1> HIDE DEF U
<1>4. IsFiniteSet(Combined) /\ ChunkCount(Cardinality(Combined)) < ByteMod
    BY <1>2, FewOf, TelemetryAssumption DEF FewChunks
<1>5. \A s \in U : Key("streams", f[s]) = s /\ Amount("streams", f[s]) = v[s]
    BY <1>1, <1>3 DEF Key, Amount
<1>6. \A e \in Combined : Amount("streams", e) \in Nat
    BY <1>1, <1>2, <1>3, <1>5
<1>7. ASSUME NEW s \in Streams PROVE Tally("streams", Combined, s) = v[s]
    <2>1. "streams" \in Kinds
        BY DEF Kinds
    <2>2. CASE s \in U
        <3>1. f[s] \in Combined /\ \A e \in Combined : Key("streams", e) = s <=> e = f[s]
            BY <1>2, <1>5, <2>2
        <3>2. Tally("streams", Combined, s) = Amount("streams", f[s])
            BY <1>4, <1>6, <2>1, <3>1, SingleTally
        <3> QED
            BY <1>5, <2>2, <3>2
    <2>3. CASE s \notin U
        <3>1. \A e \in Combined : Key("streams", e) # s
            BY <1>2, <1>5, <2>3
        <3> QED
            BY <1>3, <1>4, <1>6, <2>1, <2>3, <3>1, SingleTally
    <2> QED
        BY <2>2, <2>3
<1> QED
    BY <1>1, <1>4, <1>6, <1>7

\* So do those that pack_script_metrics() makes of the statistics.
LEMMA EntriesAre ==
    ASSUME TypeInv, FewChunks, NEW E, E = {EntryOf(x) : x \in Used}
    PROVE  /\ IsFiniteSet(E) /\ ChunkCount(Cardinality(E)) < ByteMod
           /\ \A e \in E : Amount("scripts", e) \in Nat
           /\ \A x \in Scripts : Tally("scripts", E, x) = stats[x].count
           /\ Used = {} => E = {}
<1> DEFINE f == [x \in Scripts |-> EntryOf(x)]
<1>1. \A x \in Scripts : stats[x].count \in Nat
    BY DEF TypeInv, TypeOK
<1>2. Used \in SUBSET Scripts /\ E = {f[x] : x \in Used}
    BY DEF Used
<1>3. \A x \in Used : x \in Scripts /\ Key("scripts", f[x]) = x /\ Amount("scripts", f[x]) = stats[x].count
    BY DEF Key, Amount, EntryOf, Used
<1>4. \A x \in Scripts : x \notin Used => stats[x].count = 0
    BY <1>1 DEF Used
<1> HIDE DEF f
<1>5. IsFiniteSet(E) /\ ChunkCount(Cardinality(E)) < ByteMod
    <2>1. IsFiniteSet(Scripts) /\ ChunkCount(Cardinality(Scripts)) < ByteMod
        BY TelemetryAssumption DEF FewChunks
    <2> DEFINE T == {f[x] : x \in Used}
    <2>2. IsFiniteSet(T) /\ ChunkCount(Cardinality(T)) < ByteMod
        BY <1>2, <2>1, FewOf
    <2>3. E = T
        BY <1>2
    <2> HIDE DEF T
    <2> QED
        BY <2>2, <2>3
<1>6. \A e \in E : Amount("scripts", e) \in Nat
    BY <1>1, <1>2, <1>3
<1>7. ASSUME NEW x \in Scripts PROVE Tally("scripts", E, x) = stats[x].count
    <2>1. "scripts" \in Kinds
        BY DEF Kinds
    <2>2. CASE x \in Used
        <3>1. f[x] \in E /\ \A e \in E : Key("scripts", e) = x <=> e = f[x]
            BY <1>2, <1>3, <2>2
        <3>2. Tally("scripts", E, x) = Amount("scripts", f[x])
            BY <1>5, <1>6, <2>1, <3>1, SingleTally
        <3> QED
            BY <1>3, <2>2, <3>2
    <2>3. CASE x \notin Used
        <3>1. \A e \in E : Key("scripts", e) # x
            BY <1>2, <1>3, <2>3
        <3> QED
            BY <1>4, <1>5, <1>6, <2>1, <2>3, <3>1, SingleTally
    <2> QED
        BY <2>2, <2>3
<1>8. Used = {} => E = {}
    BY <1>2
<1> QED
    BY <1>5, <1>6, <1>7, <1>8

-----------------------------------------------------------------------------
(* Counting.                                                               *)

SumInv == SnapInv /\ CountInv /\ AddsUpInv

\* What steps that leave chunks and groups alone leave alone.
LEMMA Held ==
    ASSUME chunks' = chunks, pending' = pending
    PROVE  /\ \A k : InHand(k)' = InHand(k)
           /\ EntriesInv => EntriesInv'
           /\ GroupInv /\ UNCHANGED <<epc, now>> => GroupInv'
           /\ GroupInv /\ chunks = <<>> => GroupInv'
           /\ AddsUpInv /\ latest' = latest => AddsUpInv'
<1>1. \A k : InHand(k)' = InHand(k) /\ Left(k)' = Left(k)
    BY DEF InHand, Left, Queued
<1>2. EntriesInv => EntriesInv'
    BY <1>1 DEF EntriesInv
<1>3. GroupInv /\ UNCHANGED <<epc, now>> => GroupInv'
    BY DEF GroupInv
<1>4. GroupInv /\ chunks = <<>> => GroupInv'
    <2> SUFFICES ASSUME GroupInv, chunks = <<>> PROVE GroupInv'
        OBVIOUS
    <2>1. Len(chunks') = 0 /\ chunks' = <<>>
        OBVIOUS
    <2>2. \A k \in Kinds : pending'[k] = NoGroup
        BY NothingInHand
    <2> QED
        BY <2>1, <2>2 DEF GroupInv
<1>5. AddsUpInv /\ latest' = latest => AddsUpInv'
    <2> SUFFICES ASSUME AddsUpInv, latest' = latest PROVE AddsUpInv'
        OBVIOUS
    <2>1. InHand("streams")' = InHand("streams")
        BY <1>1
    <2> QED
        BY <2>1 DEF AddsUpInv
<1> QED
    BY <1>1, <1>2, <1>3, <1>4, <1>5

\* One more in one of the two maps.
LEMMA OneRecorded ==
    ASSUME counts \in [Maps -> [Streams -> Nat \cup {Absent}]], recorded \in [Streams -> Nat],
           NEW m \in Maps, NEW s \in Streams,
           counts' = [counts EXCEPT ![m][s] = Value(counts[m][s]) + 1],
           recorded' = [recorded EXCEPT ![s] = recorded[s] + 1]
    PROVE  /\ recorded' \in [Streams -> Nat]
           /\ \A t \in Streams : \A u \in Nat :
                 recorded[t] = Value(counts["event"][t]) + Value(counts["emitted"][t]) + u
                 => recorded'[t] = Value(counts'["event"][t]) + Value(counts'["emitted"][t]) + u
<1>1. recorded' \in [Streams -> Nat]
    OBVIOUS
<1>2. ASSUME NEW t \in Streams, NEW u \in Nat,
             recorded[t] = Value(counts["event"][t]) + Value(counts["emitted"][t]) + u
      PROVE  recorded'[t] = Value(counts'["event"][t]) + Value(counts'["emitted"][t]) + u
    <2> DEFINE a == Value(counts["event"][t])
               b == Value(counts["emitted"][t])
    <2>1. a \in Nat /\ b \in Nat
        <3>1. counts["event"][t] \in Nat \cup {Absent} /\ counts["emitted"][t] \in Nat \cup {Absent}
            BY DEF Maps
        <3> QED
            BY <3>1, ValueIs
    <2>2. \A n \in Nat : Value(n + 1) = n + 1
        BY DEF Value, Absent
    <2>3. CASE t = s /\ m = "event"
        <3>1. counts'["event"][t] = a + 1 /\ counts'["emitted"][t] = counts["emitted"][t]
              /\ recorded'[t] = recorded[t] + 1
            BY <2>3 DEF Maps
        <3>2. Value(counts'["event"][t]) = a + 1 /\ Value(counts'["emitted"][t]) = b
            BY <2>1, <2>2, <3>1
        <3> HIDE DEF a, b
        <3>3. recorded[t] = a + b + u
            BY <1>2 DEF a, b
        <3> QED
            BY <2>1, <3>1, <3>2, <3>3
    <2>4. CASE t = s /\ m = "emitted"
        <3>1. counts'["emitted"][t] = b + 1 /\ counts'["event"][t] = counts["event"][t]
              /\ recorded'[t] = recorded[t] + 1
            BY <2>4 DEF Maps
        <3>2. Value(counts'["event"][t]) = a /\ Value(counts'["emitted"][t]) = b + 1
            BY <2>1, <2>2, <3>1
        <3> HIDE DEF a, b
        <3>3. recorded[t] = a + b + u
            BY <1>2 DEF a, b
        <3> QED
            BY <2>1, <3>1, <3>2, <3>3
    <2>5. CASE t # s
        <3>1. counts'["event"][t] = counts["event"][t] /\ counts'["emitted"][t] = counts["emitted"][t]
              /\ recorded'[t] = recorded[t]
            BY <2>5 DEF Maps
        <3> QED
            BY <1>2, <3>1
    <2> QED
        BY <2>3, <2>4, <2>5 DEF Maps
<1> QED
    BY <1>1, <1>2

\* What is on its way and on the screen is a number.
LEMMA OnTheWay ==
    ASSUME TypeInv, EntriesInv, SnapInv
    PROVE  /\ \A k \in Kinds : \A s : Tally(k, InHand(k), s) \in Nat
           /\ \A s \in Streams :
                 /\ snap.event[s] \in Nat /\ snap.emitted[s] \in Nat /\ shown[s] \in Nat /\ recorded[s] \in Nat
                 /\ Value(counts["event"][s]) \in Nat /\ Value(counts["emitted"][s]) \in Nat
           /\ \A x \in Scripts : stats[x].count \in Nat /\ shown_inv[x] \in Nat /\ invoked[x] \in Nat
<1>1. ASSUME NEW k \in Kinds, NEW s PROVE Tally(k, InHand(k), s) \in Nat
    <2>1. IsFiniteSet(InHand(k)) /\ \A e \in InHand(k) : Amount(k, e) \in Nat
        BY InHandIs DEF EntriesInv, TypeInv, Shapes
    <2> QED
        BY <2>1, TallyType
<1>2. ASSUME NEW s \in Streams
      PROVE  Value(counts["event"][s]) \in Nat /\ Value(counts["emitted"][s]) \in Nat
    <2>1. counts["event"][s] \in Nat \cup {Absent} /\ counts["emitted"][s] \in Nat \cup {Absent}
        BY DEF TypeInv, TypeOK, Maps
    <2> QED
        BY <2>1, ValueIs
<1>3. \A x \in Scripts : stats[x].count \in Nat
    BY DEF TypeInv, TypeOK
<1>4. \A s \in Streams : snap.event[s] \in Nat /\ snap.emitted[s] \in Nat /\ shown[s] \in Nat /\ recorded[s] \in Nat
    BY DEF SnapInv
<1>5. \A x \in Scripts : shown_inv[x] \in Nat /\ invoked[x] \in Nat
    BY DEF SnapInv
<1> QED
    BY <1>1, <1>2, <1>3, <1>4, <1>5

\* Recording an event.
LEMMA RecorderCounts ==
    ASSUME TypeInv, FlowInv, SumInv, NEW r \in Recorders, Recorder(r)
    PROVE  FlowInv' /\ SumInv'
<1>1. /\ chunks' = chunks /\ pending' = pending /\ latest' = latest /\ epc' = epc /\ now' = now
      /\ snap' = snap /\ shown' = shown /\ shown_inv' = shown_inv /\ invoked' = invoked
      /\ stats' = stats /\ inv' = inv
    BY DEF Recorder, RecordFast, RecordSlow, emitVars, viewVars, statVars
<1>2. FlowInv' /\ AddsUpInv' /\ InHand("streams")' = InHand("streams") /\ InHand("scripts")' = InHand("scripts")
    BY <1>1, Held DEF FlowInv, SumInv
<1>3. \/ counts' = counts /\ recorded' = recorded
      \/ \E m \in Maps, s \in Streams :
            /\ counts' = [counts EXCEPT ![m][s] = Value(counts[m][s]) + 1]
            /\ recorded' = [recorded EXCEPT ![s] = recorded[s] + 1]
    <2>1. ASSUME NEW m \in Maps, NEW s \in Streams, RecordFast(r, m, s), counts[m][s] # Absent
          PROVE  /\ counts' = [counts EXCEPT ![m][s] = Value(counts[m][s]) + 1]
                 /\ recorded' = [recorded EXCEPT ![s] = recorded[s] + 1]
        BY <2>1 DEF RecordFast, Value
    <2>2. ASSUME NEW m \in Maps, NEW s \in Streams, RecordFast(r, m, s), counts[m][s] = Absent
          PROVE  counts' = counts /\ recorded' = recorded
        BY <2>2 DEF RecordFast
    <2>3. ASSUME RecordSlow(r)
          PROVE  \E m \in Maps, s \in Streams :
                    /\ counts' = [counts EXCEPT ![m][s] = Value(counts[m][s]) + 1]
                    /\ recorded' = [recorded EXCEPT ![s] = recorded[s] + 1]
        <3>1. PICK miss \in slow[r] :
                  /\ counts' = [counts EXCEPT ![miss.map][miss.stream] = Value(counts[miss.map][miss.stream]) + 1]
                  /\ recorded' = [recorded EXCEPT ![miss.stream] = recorded[miss.stream] + 1]
            BY <2>3 DEF RecordSlow
        <3>2. miss.map \in Maps /\ miss.stream \in Streams
            BY DEF TypeInv, TypeOK
        <3> QED
            BY <3>1, <3>2
    <2> QED
        BY <2>1, <2>2, <2>3 DEF Recorder
<1>4. SnapInv /\ counts \in [Maps -> [Streams -> Nat \cup {Absent}]] /\ recorded \in [Streams -> Nat]
    BY DEF SumInv, SnapInv, TypeInv, TypeOK
<1>5. /\ recorded' \in [Streams -> Nat]
      /\ \A t \in Streams : \A u \in Nat :
            recorded[t] = Value(counts["event"][t]) + Value(counts["emitted"][t]) + u
            => recorded'[t] = Value(counts'["event"][t]) + Value(counts'["emitted"][t]) + u
    <2>1. CASE counts' = counts /\ recorded' = recorded
        BY <1>4, <2>1
    <2>2. ASSUME NEW m \in Maps, NEW s \in Streams,
                 counts' = [counts EXCEPT ![m][s] = Value(counts[m][s]) + 1],
                 recorded' = [recorded EXCEPT ![s] = recorded[s] + 1]
          PROVE  <1>5!1 /\ <1>5!2
        BY <1>4, <2>2, OneRecorded
    <2> QED
        BY <1>3, <2>1, <2>2
<1>6. SnapInv'
    BY <1>1, <1>4, <1>5 DEF SnapInv
<1>7. CountInv'
    <2> SUFFICES ASSUME NEW s \in Streams
                 PROVE  recorded'[s] =
                            Value(counts'["event"][s]) + Value(counts'["emitted"][s])
                            + snap.event[s] + snap.emitted[s]
                            + Tally("streams", InHand("streams"), s) + shown[s]
        BY <1>1, <1>2 DEF SumInv, CountInv
    <2> DEFINE a == Value(counts["event"][s])
               b == Value(counts["emitted"][s])
               c == Value(counts'["event"][s])
               d == Value(counts'["emitted"][s])
               v == snap.event[s]
               w == snap.emitted[s]
               y == Tally("streams", InHand("streams"), s)
               z == shown[s]
    <2>1. a \in Nat /\ b \in Nat /\ v \in Nat /\ w \in Nat /\ y \in Nat /\ z \in Nat
        BY <1>4, OnTheWay DEF FlowInv, Kinds
    <2>2. c \in Nat /\ d \in Nat
        <3>1. TypeInv'
            BY RecordTypes
        <3>2. counts'["event"][s] \in Nat \cup {Absent} /\ counts'["emitted"][s] \in Nat \cup {Absent}
            BY <3>1 DEF TypeInv, TypeOK, Maps
        <3> QED
            BY <3>2, ValueIs
    <2>3. recorded[s] = a + b + v + w + y + z
        BY DEF SumInv, CountInv
    <2>4. \A u \in Nat : recorded[s] = a + b + u => recorded'[s] = c + d + u
        BY <1>5
    <2> HIDE DEF a, b, c, d, v, w, y, z
    <2>5. a + b + v + w + y + z = a + b + (v + w + y + z) /\ v + w + y + z \in Nat
          /\ c + d + v + w + y + z = c + d + (v + w + y + z)
        BY <2>1, <2>2
    <2>6. recorded'[s] = c + d + v + w + y + z
        BY <2>3, <2>4, <2>5
    <2> QED
        BY <2>6 DEF c, d, v, w, y, z
<1> QED
    BY <1>2, <1>6, <1>7 DEF SumInv

\* Recording an invocation.
LEMMA InvokerCounts ==
    ASSUME TypeInv, FlowInv, SumInv, NEW x \in Scripts, Invoker(x)
    PROVE  FlowInv' /\ SumInv'
<1>1. /\ chunks' = chunks /\ pending' = pending /\ latest' = latest /\ epc' = epc /\ now' = now
      /\ snap' = snap /\ shown' = shown /\ shown_inv' = shown_inv
      /\ counts' = counts /\ recorded' = recorded
    BY DEF Invoker, InvokeBegin, InvokeTotal, InvokeMin, InvokeMax, InvStep, emitVars, viewVars, countVars
<1>2. FlowInv' /\ AddsUpInv' /\ InHand("streams")' = InHand("streams") /\ InHand("scripts")' = InHand("scripts")
    BY <1>1, Held DEF FlowInv, SumInv
<1>3. /\ SnapInv /\ stats \in [Scripts -> Stats] /\ inv \in [Scripts -> [pc : InvPcs, dur : Nat]]
      /\ invoked \in [Scripts -> Nat]
    BY DEF SumInv, SnapInv, TypeInv, Shapes
<1>4. /\ invoked' \in [Scripts -> Nat]
      /\ \A y \in Scripts : \A u \in Nat :
            invoked[y] + (IF inv[y].pc = "idle" THEN 0 ELSE 1) = stats[y].count + u
            => invoked'[y] + (IF inv'[y].pc = "idle" THEN 0 ELSE 1) = stats'[y].count + u
    <2>1. \A y \in Scripts : stats[y].count \in Nat /\ invoked[y] \in Nat
        BY <1>3 DEF Stats
    <2>2. ASSUME NEW d \in Durations, InvokeBegin(x, d)
          PROVE  /\ invoked' = invoked /\ inv[x].pc = "idle" /\ inv'[x].pc # "idle"
                 /\ stats'[x].count = stats[x].count + 1
                 /\ \A y \in Scripts : y # x => inv'[y] = inv[y] /\ stats'[y] = stats[y]
        BY <1>3, <2>2 DEF InvokeBegin, Stats
    <2>3. ASSUME InvokeTotal(x) \/ InvokeMin(x)
          PROVE  /\ invoked' = invoked /\ inv[x].pc # "idle" /\ inv'[x].pc # "idle"
                 /\ stats'[x].count = stats[x].count
                 /\ \A y \in Scripts : y # x => inv'[y] = inv[y] /\ stats'[y] = stats[y]
        BY <1>3, <2>3 DEF InvokeTotal, InvokeMin, InvStep, Stats
    <2>4. ASSUME InvokeMax(x)
          PROVE  /\ invoked' = [invoked EXCEPT ![x] = invoked[x] + 1]
                 /\ inv[x].pc # "idle" /\ inv'[x].pc = "idle"
                 /\ stats'[x].count = stats[x].count
                 /\ \A y \in Scripts : y # x => inv'[y] = inv[y] /\ stats'[y] = stats[y]
        BY <1>3, <2>4 DEF InvokeMax, InvStep, Stats
    <2>5. ASSUME NEW d \in Durations, InvokeBegin(x, d) PROVE <1>4!1 /\ <1>4!2
        BY <1>3, <2>1, <2>2, <2>5
    <2>6. ASSUME InvokeTotal(x) \/ InvokeMin(x) PROVE <1>4!1 /\ <1>4!2
        BY <1>3, <2>1, <2>3, <2>6
    <2>7. ASSUME InvokeMax(x) PROVE <1>4!1 /\ <1>4!2
        <3>1. invoked'[x] = invoked[x] + 1 /\ \A y \in Scripts : y # x => invoked'[y] = invoked[y]
            BY <1>3, <2>4, <2>7
        <3>2. invoked' \in [Scripts -> Nat]
            BY <1>3, <2>1, <2>4, <2>7
        <3> QED
            BY <2>1, <2>4, <2>7, <3>1, <3>2
    <2> QED
        BY <2>5, <2>6, <2>7 DEF Invoker
<1>5. SnapInv'
    BY <1>1, <1>3, <1>4 DEF SnapInv
<1>6. CountInv'
    <2> SUFFICES ASSUME NEW y \in Scripts
                 PROVE  invoked'[y] + (IF inv'[y].pc = "idle" THEN 0 ELSE 1) =
                            stats'[y].count + Tally("scripts", InHand("scripts"), y) + shown_inv[y]
        BY <1>1, <1>2 DEF SumInv, CountInv
    <2> DEFINE v == Tally("scripts", InHand("scripts"), y)
               w == shown_inv[y]
               b == IF inv[y].pc = "idle" THEN 0 ELSE 1
               c == IF inv'[y].pc = "idle" THEN 0 ELSE 1
    <2>1. stats[y].count \in Nat /\ v \in Nat /\ w \in Nat
        BY <1>3, OnTheWay DEF FlowInv, Kinds
    <2>2. stats'[y].count \in Nat
        <3>1. TypeInv'
            BY InvokeTypes
        <3> QED
            BY <3>1 DEF TypeInv, TypeOK
    <2>3. invoked[y] + b = stats[y].count + v + w
        BY DEF SumInv, CountInv
    <2>4. \A u \in Nat : invoked[y] + b = stats[y].count + u => invoked'[y] + c = stats'[y].count + u
        BY <1>4
    <2> HIDE DEF v, w, b, c
    <2>5. stats[y].count + v + w = stats[y].count + (v + w) /\ v + w \in Nat
          /\ stats'[y].count + v + w = stats'[y].count + (v + w)
        BY <2>1, <2>2
    <2>6. invoked'[y] + c = stats'[y].count + v + w
        BY <2>3, <2>4, <2>5
    <2> QED
        BY <2>6 DEF v, w, c
<1> QED
    BY <1>2, <1>5, <1>6 DEF SumInv

\* Counting drops, stopping, and nothing at all.
LEMMA OtherCounts ==
    ASSUME FlowInv, SumInv, RecordDrop \/ Stop \/ UNCHANGED vars
    PROVE  FlowInv' /\ SumInv'
<1>1. /\ chunks' = chunks /\ pending' = pending /\ latest' = latest /\ epc' = epc /\ now' = now
      /\ snap' = snap /\ shown' = shown /\ shown_inv' = shown_inv
      /\ counts' = counts /\ recorded' = recorded /\ invoked' = invoked /\ stats' = stats /\ inv' = inv
    BY DEF RecordDrop, Stop, vars, emitVars, viewVars, countVars, statVars
<1>2. FlowInv' /\ AddsUpInv' /\ InHand("streams")' = InHand("streams") /\ InHand("scripts")' = InHand("scripts")
    BY <1>1, Held DEF FlowInv, SumInv
<1>3. SnapInv' /\ CountInv'
    BY <1>1, <1>2 DEF SumInv, SnapInv, CountInv
<1> QED
    BY <1>2, <1>3 DEF SumInv

\* Taking the counters out moves what they count.
LEMMA PackCounted ==
    ASSUME TypeInv, FlowInv, SumInv, EmitLoop \/ PackEvents \/ PackEmitted \/ PackDrops \/ EmitDone
    PROVE  FlowInv' /\ SumInv'
<1>1. /\ chunks' = chunks /\ pending' = pending /\ latest' = latest
      /\ shown' = shown /\ shown_inv' = shown_inv /\ recorded' = recorded
      /\ invoked' = invoked /\ stats' = stats /\ inv' = inv
    BY DEF EmitLoop, PackEvents, PackEmitted, PackCounts, PackDrops, EmitDone, viewVars, countVars, statVars
<1>2. chunks = <<>>
    BY DEF FlowInv, GroupInv, EmitLoop, PackEvents, PackEmitted, PackCounts, PackDrops, EmitDone
<1>3. FlowInv' /\ AddsUpInv' /\ InHand("streams")' = InHand("streams") /\ InHand("scripts")' = InHand("scripts")
    BY <1>1, <1>2, Held DEF FlowInv, SumInv
<1>4. SnapInv /\ counts \in [Maps -> [Streams -> Nat \cup {Absent}]] /\ "event" \in Maps /\ "emitted" \in Maps
    BY DEF SumInv, TypeInv, TypeOK, Maps
<1> DEFINE v(m) == [s \in Streams |-> Value(counts[m][s])]
<1>5. \A m \in Maps : v(m) \in [Streams -> Nat]
    <2> SUFFICES ASSUME NEW m \in Maps, NEW s \in Streams PROVE Value(counts[m][s]) \in Nat
        OBVIOUS
    <2>1. counts[m][s] \in Nat \cup {Absent}
        BY <1>4
    <2> QED
        BY <2>1, ValueIs
<1>6. \A m \in Maps : \A s \in Streams : Value(Drained(m)[s]) = 0
    BY DEF Drained, Value, Absent
<1>7. /\ SnapInv'
      /\ \A s \in Streams : Value(counts'["event"][s]) + Value(counts'["emitted"][s])
                              + snap'.event[s] + snap'.emitted[s]
                            = Value(counts["event"][s]) + Value(counts["emitted"][s])
                              + snap.event[s] + snap.emitted[s]
    <2>1. CASE EmitLoop \/ EmitDone
        <3>1. /\ snap' = snap /\ counts' = counts
              /\ epc' \in {"loop", "events", "exit"} /\ epc \in {"loop", "send_scripts"}
            BY <2>1 DEF EmitLoop, EmitDone, countVars
        <3> QED
            BY <1>1, <1>4, <3>1 DEF SnapInv
    <2>2. CASE PackDrops
        <3>1. /\ snap' = [snap EXCEPT !.drops = drops] /\ counts' = counts
              /\ epc = "drops" /\ epc' = "chunk" /\ drops \in Nat
            BY <2>2 DEF PackDrops, TypeInv, TypeOK
        <3>2. snap' \in [event : [Streams -> Nat], emitted : [Streams -> Nat], drops : Nat]
              /\ snap'.event = snap.event /\ snap'.emitted = snap.emitted
            BY <1>4, <3>1 DEF SnapInv
        <3> QED
            BY <1>1, <1>4, <3>1, <3>2 DEF SnapInv
    <2>3. CASE PackEvents
        <3> DEFINE e == v("event")
        <3>1. /\ snap' = [snap EXCEPT !.event = e]
              /\ counts' = [counts EXCEPT !["event"] = Drained("event")]
              /\ epc = "events" /\ epc' = "emitted"
            BY <2>3 DEF PackEvents, PackCounts
        <3>2. e \in [Streams -> Nat] /\ \A s \in Streams : e[s] = Value(counts["event"][s])
            BY <1>4, <1>5
        <3>3. \A s \in Streams : snap.event[s] = 0
            BY <1>4, <3>1 DEF SnapInv, Zero
        <3> HIDE DEF e, v
        <3>4. /\ snap' \in [event : [Streams -> Nat], emitted : [Streams -> Nat], drops : Nat]
              /\ snap'.event = e /\ snap'.emitted = snap.emitted
            BY <1>4, <3>1, <3>2 DEF SnapInv
        <3>5. /\ counts'["event"] = Drained("event") /\ counts'["emitted"] = counts["emitted"]
            BY <1>4, <3>1
        <3>6. SnapInv'
            BY <1>1, <1>4, <3>1, <3>4 DEF SnapInv
        <3>7. ASSUME NEW s \in Streams
              PROVE  Value(counts'["event"][s]) + Value(counts'["emitted"][s])
                       + snap'.event[s] + snap'.emitted[s]
                     = Value(counts["event"][s]) + Value(counts["emitted"][s])
                       + snap.event[s] + snap.emitted[s]
            <4>1. /\ Value(counts'["event"][s]) = 0 /\ counts'["emitted"][s] = counts["emitted"][s]
                  /\ snap'.event[s] = Value(counts["event"][s]) /\ snap'.emitted[s] = snap.emitted[s]
                BY <1>4, <1>6, <3>2, <3>4, <3>5
            <4>2. /\ Value(counts["event"][s]) \in Nat /\ Value(counts["emitted"][s]) \in Nat
                  /\ snap.emitted[s] \in Nat
                BY <1>4, OnTheWay DEF FlowInv
            <4> QED
                BY <3>3, <4>1, <4>2
        <3> QED
            BY <3>6, <3>7
    <2>4. CASE PackEmitted
        <3> DEFINE e == v("emitted")
        <3>1. /\ snap' = [snap EXCEPT !.emitted = e]
              /\ counts' = [counts EXCEPT !["emitted"] = Drained("emitted")]
              /\ epc = "emitted" /\ epc' = "drops"
            BY <2>4 DEF PackEmitted, PackCounts
        <3>2. e \in [Streams -> Nat] /\ \A s \in Streams : e[s] = Value(counts["emitted"][s])
            BY <1>4, <1>5
        <3>3. \A s \in Streams : snap.emitted[s] = 0
            BY <1>4, <3>1 DEF SnapInv, Zero
        <3> HIDE DEF e, v
        <3>4. /\ snap' \in [event : [Streams -> Nat], emitted : [Streams -> Nat], drops : Nat]
              /\ snap'.emitted = e /\ snap'.event = snap.event
            BY <1>4, <3>1, <3>2 DEF SnapInv
        <3>5. /\ counts'["emitted"] = Drained("emitted") /\ counts'["event"] = counts["event"]
            BY <1>4, <3>1
        <3>6. SnapInv'
            BY <1>1, <1>4, <3>1, <3>4 DEF SnapInv
        <3>7. ASSUME NEW s \in Streams
              PROVE  Value(counts'["event"][s]) + Value(counts'["emitted"][s])
                       + snap'.event[s] + snap'.emitted[s]
                     = Value(counts["event"][s]) + Value(counts["emitted"][s])
                       + snap.event[s] + snap.emitted[s]
            <4>1. /\ Value(counts'["emitted"][s]) = 0 /\ counts'["event"][s] = counts["event"][s]
                  /\ snap'.emitted[s] = Value(counts["emitted"][s]) /\ snap'.event[s] = snap.event[s]
                BY <1>4, <1>6, <3>2, <3>4, <3>5
            <4>2. /\ Value(counts["event"][s]) \in Nat /\ Value(counts["emitted"][s]) \in Nat
                  /\ snap.event[s] \in Nat
                BY <1>4, OnTheWay DEF FlowInv
            <4> QED
                BY <3>3, <4>1, <4>2
        <3> QED
            BY <3>6, <3>7
    <2> QED
        BY <2>1, <2>2, <2>3, <2>4
<1>8. CountInv'
    BY <1>1, <1>3, <1>7 DEF SumInv, CountInv
<1> QED
    BY <1>3, <1>7, <1>8 DEF SumInv

\* The totals of the header are those of the entries.
LEMMA TotalsAddUp ==
    ASSUME SnapInv, FewChunks, NEW head, head = <<Total("event"), Total("emitted"), snap.drops>>
    PROVE  AddsUp(Combined, head)
<1> DEFINE f == snap.event
           g == snap.emitted
           h == [s \in Streams |-> CountIn(Combined, s)]
<1>1. head[1] = SumOf(f, Streams) /\ head[2] = SumOf(g, Streams)
    BY TotalIs DEF Maps
<1>2. \A s \in Streams : f[s] \in Nat /\ g[s] \in Nat
    BY DEF SnapInv
<1>3. \A s \in Streams : h[s] = CountIn(Combined, s) /\ CountIn(Combined, s) = Tally("streams", Combined, s)
    BY DEF CountIn, Tally, Rendered
<1>4. \A s \in Streams : Tally("streams", Combined, s) = f[s] + g[s]
    BY CombinedIs
<1> HIDE DEF f, g, h
<1>5. \A s \in Streams : f[s] \in Nat /\ g[s] \in Nat /\ h[s] = f[s] + g[s]
    BY <1>2, <1>3, <1>4
<1>6. SumOf(h, Streams) = SumOf(f, Streams) + SumOf(g, Streams)
    BY <1>5, SumPlus, TelemetryAssumption
<1>7. MapThenSumSet(LAMBDA s : CountIn(Combined, s), Streams) = SumOf(h, Streams)
    <2>1. \A s \in Streams : h[s] = CountIn(Combined, s)
        BY <1>3
    <2> QED
        BY <2>1, StreamSumIs
<1> QED
    BY <1>1, <1>6, <1>7 DEF AddsUp

\* Packing the snapshot puts all of it on its way.
LEMMA StreamsCounted ==
    ASSUME TypeInv, FlowInv, SumInv, FewChunks, ChunkStreams
    PROVE  FlowInv' /\ SumInv'
<1> DEFINE head == <<Total("event"), Total("emitted"), snap.drops>>
<1>1. /\ pending' = pending /\ latest' = latest /\ now' = now /\ epc = "chunk" /\ epc' = "send_streams"
      /\ shown' = shown /\ shown_inv' = shown_inv /\ recorded' = recorded /\ counts' = counts
      /\ invoked' = invoked /\ stats' = stats /\ inv' = inv /\ snap' = NoSnap
    BY DEF ChunkStreams, viewVars, countVars, statVars
<1>2. chunks = <<>> /\ GroupInv /\ SnapInv /\ "streams" \in Kinds /\ "scripts" \in Kinds
    BY <1>1 DEF FlowInv, GroupInv, SumInv, Kinds
<1>3. \/ chunks' = <<>> /\ Combined = {}
      \/ chunks' = Chunks("streams", head, Combined)
    BY DEF ChunkStreams
<1>4. /\ IsFiniteSet(Combined) /\ ChunkCount(Cardinality(Combined)) < ByteMod
      /\ \A e \in Combined : Amount("streams", e) \in Nat
      /\ \A s \in Streams : Tally("streams", Combined, s) = snap.event[s] + snap.emitted[s]
    BY <1>2, CombinedIs
<1>5. AddsUp(Combined, head)
    BY <1>2, TotalsAddUp
<1> HIDE DEF head
<1>6. /\ FlowInv' /\ InHand("streams")' = Combined /\ InHand("scripts")' = {}
      /\ chunks' # <<>> => chunks'[1].kind = "streams" /\ chunks'[1].head = head
    BY <1>1, <1>2, <1>3, <1>4, PackFlow
<1>7. InHand("streams") = {} /\ InHand("scripts") = {}
    BY <1>2, NothingInHand
<1>8. /\ NoSnap \in [event : [Streams -> Nat], emitted : [Streams -> Nat], drops : Nat]
      /\ NoSnap.event = Zero(Streams) /\ NoSnap.emitted = Zero(Streams)
      /\ \A s \in Streams : NoSnap.event[s] = 0 /\ NoSnap.emitted[s] = 0
    BY DEF NoSnap, Zero
<1>9. SnapInv'
    BY <1>1, <1>2, <1>8 DEF SnapInv
<1>10. ASSUME NEW s \in Streams
       PROVE  recorded[s] = Value(counts["event"][s]) + Value(counts["emitted"][s])
                            + 0 + 0 + Tally("streams", Combined, s) + shown[s]
    <2> DEFINE a == Value(counts["event"][s])
               b == Value(counts["emitted"][s])
               v == snap.event[s]
               w == snap.emitted[s]
               z == shown[s]
    <2>1. a \in Nat /\ b \in Nat /\ v \in Nat /\ w \in Nat /\ z \in Nat
        BY <1>2, OnTheWay DEF FlowInv
    <2>2. recorded[s] = a + b + v + w + 0 + z
        <3>1. Tally("streams", InHand("streams"), s) = 0
            BY <1>2, <1>7, TallyEmpty
        <3>2. recorded[s] = a + b + v + w + Tally("streams", InHand("streams"), s) + z
            BY DEF SumInv, CountInv
        <3> HIDE DEF a, b, v, w, z
        <3> QED
            BY <3>1, <3>2
    <2>3. Tally("streams", Combined, s) = v + w
        BY <1>4
    <2> HIDE DEF a, b, v, w, z
    <2>4. a + b + v + w + 0 + z = a + b + 0 + 0 + (v + w) + z
        BY <2>1
    <2>5. recorded[s] = a + b + 0 + 0 + Tally("streams", Combined, s) + z
        BY <2>2, <2>3, <2>4
    <2> QED
        BY <2>5 DEF a, b, z
<1>11. CountInv'
    <2>1. \A s \in Streams :
              recorded'[s] = Value(counts'["event"][s]) + Value(counts'["emitted"][s])
                             + snap'.event[s] + snap'.emitted[s]
                             + Tally("streams", InHand("streams")', s) + shown'[s]
        BY <1>1, <1>6, <1>8, <1>10
    <2>2. \A x \in Scripts :
              invoked'[x] + (IF inv'[x].pc = "idle" THEN 0 ELSE 1) =
                  stats'[x].count + Tally("scripts", InHand("scripts")', x) + shown_inv'[x]
        BY <1>1, <1>6, <1>7 DEF SumInv, CountInv
    <2> QED
        BY <2>1, <2>2 DEF CountInv
<1>12. AddsUpInv'
    BY <1>1, <1>5, <1>6 DEF SumInv, AddsUpInv
<1> QED
    BY <1>6, <1>9, <1>11, <1>12 DEF SumInv

\* So does packing the statistics of the scripts.
LEMMA ScriptsCounted ==
    ASSUME TypeInv, FlowInv, SumInv, FewChunks, PackScripts
    PROVE  FlowInv' /\ SumInv'
<1> DEFINE E == {EntryOf(x) : x \in Used}
<1>1. /\ pending' = pending /\ latest' = latest /\ now' = now /\ chunks = <<>>
      /\ epc = "send_streams" /\ epc' = "send_scripts"
      /\ shown' = shown /\ shown_inv' = shown_inv /\ recorded' = recorded /\ counts' = counts
      /\ invoked' = invoked /\ inv' = inv /\ snap' = snap
      /\ stats' = [x \in Scripts |-> Fresh]
    BY DEF PackScripts, viewVars, countVars
<1>2. GroupInv /\ SnapInv /\ "streams" \in Kinds /\ "scripts" \in Kinds
    BY DEF FlowInv, SumInv, Kinds
<1>3. /\ IsFiniteSet(E) /\ ChunkCount(Cardinality(E)) < ByteMod
      /\ \A e \in E : Amount("scripts", e) \in Nat
      /\ \A x \in Scripts : Tally("scripts", E, x) = stats[x].count
      /\ Used = {} => E = {}
    BY EntriesAre
<1>4. \/ chunks' = <<>> /\ Used = {}
      \/ chunks' = Chunks("scripts", <<>>, E)
    BY DEF PackScripts, Used, EntryOf
<1> HIDE DEF E
<1>5. /\ FlowInv' /\ InHand("scripts")' = E /\ InHand("streams")' = {}
      /\ chunks' # <<>> => chunks'[1].kind = "scripts"
    BY <1>1, <1>2, <1>3, <1>4, PackFlow
<1>6. InHand("streams") = {} /\ InHand("scripts") = {}
    BY <1>1, <1>2, NothingInHand
<1>7. SnapInv'
    BY <1>1, <1>2 DEF SnapInv
<1>8. ASSUME NEW x \in Scripts
      PROVE  invoked[x] + (IF inv[x].pc = "idle" THEN 0 ELSE 1)
                = stats'[x].count + Tally("scripts", E, x) + shown_inv[x]
    <2> DEFINE n == stats[x].count
               z == shown_inv[x]
    <2>1. n \in Nat /\ z \in Nat
        BY <1>2, OnTheWay DEF FlowInv
    <2>2. Tally("scripts", InHand("scripts"), x) = 0
        BY <1>2, <1>6, TallyEmpty
    <2>3. invoked[x] + (IF inv[x].pc = "idle" THEN 0 ELSE 1) = n + 0 + z
        BY <2>2 DEF SumInv, CountInv
    <2>4. stats'[x].count = 0
        BY <1>1 DEF Fresh
    <2>5. Tally("scripts", E, x) = n
        BY <1>3
    <2> HIDE DEF n, z
    <2>6. n + 0 + z = 0 + n + z
        BY <2>1
    <2> QED
        BY <2>3, <2>4, <2>5, <2>6 DEF z
<1>9. CountInv'
    <2>1. \A x \in Scripts :
              invoked'[x] + (IF inv'[x].pc = "idle" THEN 0 ELSE 1) =
                  stats'[x].count + Tally("scripts", InHand("scripts")', x) + shown_inv'[x]
        BY <1>1, <1>5, <1>8
    <2>2. \A s \in Streams :
              recorded'[s] = Value(counts'["event"][s]) + Value(counts'["emitted"][s])
                             + snap'.event[s] + snap'.emitted[s]
                             + Tally("streams", InHand("streams")', s) + shown'[s]
        BY <1>1, <1>5, <1>6 DEF SumInv, CountInv
    <2> QED
        BY <2>1, <2>2 DEF CountInv
<1>10. AddsUpInv'
    BY <1>1, <1>5 DEF SumInv, AddsUpInv
<1> QED
    BY <1>5, <1>7, <1>9, <1>10 DEF SumInv

\* What the screen gains is what was on its way.
LEMMA RouteCounted ==
    ASSUME TypeInv, FlowInv, SumInv, RouteChunk
    PROVE  FlowInv' /\ SumInv'
<1> DEFINE k == chunks[1].kind
           l == Len(chunks)
<1>1. FlowInv'
    BY RouteGroup, RouteEntries DEF FlowInv
<1>2. /\ 1 \in 1..l /\ k \in Kinds /\ chunks # <<>> /\ chunks' = Tail(chunks)
      /\ \/ l > 1 /\ UNCHANGED <<latest, shown, shown_inv>>
         \/ /\ l = 1
            /\ latest' = [latest EXCEPT ![k] = Joined]
            /\ shown' = [s \in Streams |-> shown[s] + IF k = "streams" THEN Rendered(Joined, k, s) ELSE 0]
            /\ shown_inv' = [x \in Scripts |-> shown_inv[x] + IF k = "scripts" THEN Rendered(Joined, k, x) ELSE 0]
    BY RouteIs DEF FlowInv
<1>3. /\ epc' = epc /\ snap' = snap /\ recorded' = recorded /\ counts' = counts
      /\ invoked' = invoked /\ stats' = stats /\ inv' = inv
    BY DEF RouteChunk, countVars, statVars
<1>4. SnapInv /\ CountInv /\ AddsUpInv /\ EntriesInv /\ GroupInv /\ "streams" \in Kinds /\ "scripts" \in Kinds
    BY DEF SumInv, FlowInv, Kinds
<1>5. Joined.head = chunks[1].head
    BY DEF Joined
<1>6. CASE l > 1
    <2>1. InHand("streams")' = InHand("streams") /\ InHand("scripts")' = InHand("scripts")
        BY <1>4, <1>6, RouteHand
    <2>2. UNCHANGED <<latest, shown, shown_inv>>
        <3>1. l \in Nat
            BY DEF TypeInv, Shapes
        <3>2. l # 1
            <4> HIDE DEF l
            <4> QED
                BY <1>6, <3>1
        <3> QED
            BY <1>2, <3>2
    <2>3. SnapInv' /\ CountInv'
        BY <1>3, <1>4, <2>1, <2>2 DEF SnapInv, CountInv
    <2>4. chunks'[1].kind = k /\ chunks'[1].head = chunks[1].head
        <3>1. chunks \in Seq(Range(chunks))
            BY DEF TypeInv, Shapes
        <3>2. l \in Nat /\ Len(Tail(chunks)) = l - 1 /\ \A i \in 1..Len(Tail(chunks)) : Tail(chunks)[i] = chunks[i + 1]
            BY <1>2, <3>1, TailIs
        <3>3. 1 \in 1..Len(Tail(chunks)) /\ 1 + 1 = 2 /\ 2 \in 1..l
            BY <1>6, <3>2
        <3>4. chunks'[1] = chunks[2]
            BY <1>2, <3>2, <3>3
        <3> QED
            BY <1>4, <3>3, <3>4 DEF GroupInv
    <2>5. AddsUpInv'
        BY <1>2, <1>4, <2>1, <2>2, <2>4 DEF AddsUpInv
    <2> QED
        BY <1>1, <2>3, <2>5 DEF SumInv
<1>7. CASE l = 1
    <2>1. /\ Joined.entries = InHand(k)
          /\ \A j \in Kinds : InHand(j)' = {}
          /\ \A j \in Kinds : j # k => InHand(j) = {}
        BY <1>4, <1>7, RouteHand
    <2>2. \A s : Rendered(Joined, k, s) = Tally(k, InHand(k), s)
        BY <2>1 DEF Rendered, Tally
    <2>3. \A j \in Kinds : \A s : /\ Tally(j, InHand(j), s) \in Nat
                                  /\ Tally(j, InHand(j)', s) = 0
                                  /\ j # k => Tally(j, InHand(j), s) = 0
        BY <1>4, <2>1, OnTheWay, TallyEmpty
    <2>4. /\ \A s \in Streams : /\ shown'[s] = shown[s] + Tally("streams", InHand("streams"), s)
                                /\ shown[s] \in Nat /\ shown'[s] \in Nat
          /\ \A x \in Scripts : /\ shown_inv'[x] = shown_inv[x] + Tally("scripts", InHand("scripts"), x)
                                /\ shown_inv[x] \in Nat /\ shown_inv'[x] \in Nat
        <3>1. /\ \A s \in Streams : shown[s] \in Nat
              /\ \A x \in Scripts : shown_inv[x] \in Nat
            BY <1>4 DEF SnapInv
        <3>2. \A s \in Streams : shown'[s] = shown[s] + Tally("streams", InHand("streams"), s)
            BY <1>2, <1>4, <1>7, <2>2, <2>3
        <3>3. \A x \in Scripts : shown_inv'[x] = shown_inv[x] + Tally("scripts", InHand("scripts"), x)
            BY <1>2, <1>4, <1>7, <2>2, <2>3
        <3> QED
            BY <1>4, <2>3, <3>1, <3>2, <3>3
    <2>5. SnapInv'
        <3>1. shown' \in [Streams -> Nat] /\ shown_inv' \in [Scripts -> Nat]
            BY <1>2, <1>7, <2>4
        <3> QED
            BY <1>3, <1>4, <3>1 DEF SnapInv
    <2>6. ASSUME NEW s \in Streams
          PROVE  recorded'[s] = Value(counts'["event"][s]) + Value(counts'["emitted"][s])
                                + snap'.event[s] + snap'.emitted[s]
                                + Tally("streams", InHand("streams")', s) + shown'[s]
        <3> DEFINE a == Value(counts["event"][s])
                   b == Value(counts["emitted"][s])
                   v == snap.event[s]
                   w == snap.emitted[s]
                   y == Tally("streams", InHand("streams"), s)
                   z == shown[s]
        <3>1. a \in Nat /\ b \in Nat /\ v \in Nat /\ w \in Nat /\ y \in Nat /\ z \in Nat
            BY <1>4, OnTheWay
        <3>2. recorded[s] = a + b + v + w + y + z
            BY <1>4 DEF CountInv
        <3>3. shown'[s] = z + y /\ Tally("streams", InHand("streams")', s) = 0
            BY <1>4, <2>3, <2>4
        <3> HIDE DEF a, b, v, w, y, z
        <3>4. a + b + v + w + y + z = a + b + v + w + 0 + (z + y)
            BY <3>1
        <3>5. recorded[s] = a + b + v + w + Tally("streams", InHand("streams")', s) + shown'[s]
            BY <3>2, <3>3, <3>4
        <3> QED
            BY <1>3, <3>5 DEF a, b, v, w
    <2>7. ASSUME NEW x \in Scripts
          PROVE  invoked'[x] + (IF inv'[x].pc = "idle" THEN 0 ELSE 1) =
                    stats'[x].count + Tally("scripts", InHand("scripts")', x) + shown_inv'[x]
        <3> DEFINE n == stats[x].count
                   y == Tally("scripts", InHand("scripts"), x)
                   z == shown_inv[x]
        <3>1. n \in Nat /\ y \in Nat /\ z \in Nat
            BY <1>4, OnTheWay
        <3>2. invoked[x] + (IF inv[x].pc = "idle" THEN 0 ELSE 1) = n + y + z
            BY <1>4 DEF CountInv
        <3>3. shown_inv'[x] = z + y /\ Tally("scripts", InHand("scripts")', x) = 0
            BY <1>4, <2>3, <2>4
        <3> HIDE DEF n, y, z
        <3>4. n + y + z = n + 0 + (z + y)
            BY <3>1
        <3>5. invoked[x] + (IF inv[x].pc = "idle" THEN 0 ELSE 1)
                = n + Tally("scripts", InHand("scripts")', x) + shown_inv'[x]
            BY <3>2, <3>3, <3>4
        <3> QED
            BY <1>3, <3>5 DEF n
    <2>8. CountInv'
        BY <2>6, <2>7 DEF CountInv
    <2>9. chunks' = <<>>
        <3>1. chunks \in Seq(Range(chunks))
            BY DEF TypeInv, Shapes
        <3> DEFINE q == Tail(chunks)
        <3>2. Len(q) = 0 /\ q \in Seq(Range(q))
            BY <1>2, <1>7, <3>1, TailIs
        <3> HIDE DEF q
        <3>3. q = <<>>
            BY <3>2
        <3> QED
            BY <1>2, <3>3 DEF q
    <2>10. AddsUpInv'
        <3>1. k = "streams" => AddsUp(Joined.entries, Joined.head)
            BY <1>2, <1>4, <1>5, <2>1 DEF AddsUpInv
        <3>2. latest = [j \in Kinds |-> latest[j]]
            BY DEF TypeInv, Shapes
        <3>3. latest'["streams"] = IF k = "streams" THEN Joined ELSE latest["streams"]
            BY <1>2, <1>4, <1>7, <3>2
        <3> QED
            BY <1>4, <2>9, <3>1, <3>3 DEF AddsUpInv
    <2> QED
        BY <1>1, <2>5, <2>8, <2>10 DEF SumInv
<1> QED
    BY <1>2, <1>6, <1>7

\* Initially nothing has been counted.
LEMMA CountInit == Init => FlowInv /\ SumInv
<1> SUFFICES ASSUME Init PROVE FlowInv /\ SumInv
    OBVIOUS
<1>1. /\ chunks = <<>> /\ Len(chunks) = 0 /\ epc = "loop"
      /\ \A k \in Kinds : pending[k] = NoGroup /\ latest[k] = NoGroup
    BY DEF Init
<1>2. GroupInv
    BY <1>1 DEF GroupInv
<1>3. \A k \in Kinds : pending[k].entries = {} /\ InHand(k) = {}
    BY <1>1, <1>2, NothingInHand
<1>4. EntriesInv
    <2>1. \A k \in Kinds : IsFiniteSet(pending[k].entries) /\ Left(k) \cap pending[k].entries = {}
        BY <1>3, FS_EmptySet
    <2>2. \A i \in 1..Len(chunks) : FALSE
        BY <1>1
    <2> QED
        BY <1>3, <2>1, <2>2 DEF EntriesInv
<1>5. \A k \in Kinds : \A s : Tally(k, InHand(k), s) = 0
    BY <1>3, TallyEmpty
<1>6. SnapInv
    BY DEF Init, SnapInv, Zero
<1>7. "streams" \in Kinds /\ "scripts" \in Kinds
    BY DEF Kinds
<1>8. CountInv
    <2>1. \A s \in Streams : /\ recorded[s] = 0 /\ shown[s] = 0 /\ snap.event[s] = 0 /\ snap.emitted[s] = 0
                             /\ Value(counts["event"][s]) = 0 /\ Value(counts["emitted"][s]) = 0
        BY DEF Init, Zero, Value, Maps
    <2>2. \A x \in Scripts : /\ invoked[x] = 0 /\ shown_inv[x] = 0 /\ stats[x].count = 0 /\ inv[x].pc = "idle"
        BY DEF Init, Zero, Fresh
    <2> QED
        BY <1>5, <1>7, <2>1, <2>2 DEF CountInv
<1>9. AddsUpInv
    BY <1>1, <1>7 DEF AddsUpInv
<1> QED
    BY <1>2, <1>4, <1>6, <1>8, <1>9 DEF FlowInv, SumInv

\* No step loses a count or makes one up.
LEMMA CountStep == FewChunks /\ TypeInv /\ FlowInv /\ SumInv /\ [Next]_vars => FlowInv' /\ SumInv'
<1> SUFFICES ASSUME FewChunks, TypeInv, FlowInv, SumInv, [Next]_vars PROVE FlowInv' /\ SumInv'
    OBVIOUS
<1>1. Emitter => FlowInv' /\ SumInv'
    BY PackCounted, StreamsCounted, ScriptsCounted, RouteCounted DEF Emitter
<1> QED
    BY <1>1, RecorderCounts, InvokerCounts, OtherCounts DEF Next

\* Both invariants, of every behaviour.
LEMMA CountInvariant == ASSUME FewChunks PROVE Spec => [](TypeInv /\ FlowInv /\ SumInv)
<1>1. Init => TypeInv /\ FlowInv /\ SumInv
    BY TypeInit, CountInit
<1>2. (TypeInv /\ FlowInv /\ SumInv) /\ [Next]_vars => (TypeInv /\ FlowInv /\ SumInv)'
    BY TypeStep, CountStep
<1> QED
    BY <1>1, <1>2, PTL DEF Spec

\* Every recorded event is in just one place between record_event() and the screen,
\* however records, exchange(0), chunks and the endpoint interleave.
THEOREM CountCorrect == ASSUME FewChunks PROVE Spec => []NothingUncounted
<1>1. ASSUME TypeInv, FlowInv, SumInv PROVE NothingUncounted
    <2> SUFFICES ASSUME NEW s \in Streams
                 PROVE  recorded[s] =
                            Value(counts["event"][s]) + Value(counts["emitted"][s])
                            + snap.event[s] + snap.emitted[s]
                            + InStreamChunks(s)
                            + CountIn(pending["streams"].entries, s)
                            + shown[s]
        BY DEF NothingUncounted, InStreamChunks, Queued
    <2> DEFINE a == Value(counts["event"][s])
               b == Value(counts["emitted"][s])
               v == snap.event[s]
               w == snap.emitted[s]
               y == Tally("streams", InHand("streams"), s)
               z == shown[s]
               m == InStreamChunks(s)
               n == Rendered(pending["streams"], "streams", s)
    <2>1. /\ "streams" \in Kinds /\ EntriesInv /\ SnapInv /\ chunks \in Seq(Range(chunks))
          /\ IsFiniteSet(pending["streams"].entries)
          /\ \A e \in pending["streams"].entries : Amount("streams", e) \in Nat
        BY <1>1 DEF Kinds, FlowInv, EntriesInv, SumInv, TypeInv, Shapes, InHand
    <2>2. m \in Nat /\ n \in Nat /\ m + n = y
        BY <2>1, InHandIs
    <2>3. recorded[s] = a + b + v + w + y + z
        BY <1>1 DEF SumInv, CountInv
    <2>4. a \in Nat /\ b \in Nat /\ v \in Nat /\ w \in Nat /\ z \in Nat /\ y \in Nat
        BY <1>1, <2>1, OnTheWay
    <2> HIDE DEF a, b, v, w, y, z, m, n
    <2>5. a + b + v + w + y + z = a + b + v + w + m + n + z
        BY <2>2, <2>4
    <2>6. recorded[s] = a + b + v + w + m + n + z
        BY <2>3, <2>5
    <2> QED
        BY <2>6 DEF a, b, v, w, z, m, n, Rendered, CountIn
<1> QED
    BY <1>1, CountInvariant, PTL

\* Every completed invocation reaches the screen once.
THEOREM InvokedCorrect == ASSUME FewChunks PROVE Spec => []NothingUninvoked
<1>1. ASSUME TypeInv, FlowInv, SumInv PROVE NothingUninvoked
    <2> SUFFICES ASSUME NEW x \in Scripts
                 PROVE  invoked[x] + (IF inv[x].pc = "idle" THEN 0 ELSE 1) =
                            stats[x].count
                            + InScriptChunks(x)
                            + Rendered(pending["scripts"], "scripts", x)
                            + shown_inv[x]
        BY DEF NothingUninvoked, InScriptChunks, Queued
    <2> DEFINE c == stats[x].count
               y == Tally("scripts", InHand("scripts"), x)
               z == shown_inv[x]
               m == InScriptChunks(x)
               n == Rendered(pending["scripts"], "scripts", x)
    <2>1. "scripts" \in Kinds /\ EntriesInv /\ SnapInv /\ chunks \in Seq(Range(chunks))
        BY <1>1 DEF Kinds, FlowInv, SumInv, TypeInv, Shapes
    <2>2. m \in Nat /\ n \in Nat /\ m + n = y
        BY <2>1, InHandIs
    <2>3. invoked[x] + (IF inv[x].pc = "idle" THEN 0 ELSE 1) = c + y + z
        BY <1>1 DEF SumInv, CountInv
    <2>4. c \in Nat /\ z \in Nat /\ y \in Nat
        BY <1>1, <2>1, OnTheWay
    <2> HIDE DEF c, y, z, m, n
    <2>5. c + y + z = c + m + n + z
        BY <2>2, <2>4
    <2>6. invoked[x] + (IF inv[x].pc = "idle" THEN 0 ELSE 1) = c + m + n + z
        BY <2>3, <2>5
    <2> QED
        BY <2>6 DEF c, z, m, n
<1> QED
    BY <1>1, CountInvariant, PTL

\* The dashboard shows the chunks of one interval, all of them.
THEOREM DashboardCorrect == ASSUME FewChunks PROVE Spec => []DashboardAddsUp
<1>1. SumInv => DashboardAddsUp
    BY DEF SumInv, AddsUpInv, AddsUp, DashboardAddsUp
<1> QED
    BY <1>1, CountInvariant, PTL
=============================================================================
