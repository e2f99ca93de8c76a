------------------------ MODULE WindowRegistryProofs ------------------------
(***************************************************************************)
(* Proofs about WindowRegistry, for every ring capacity, all streams and   *)
(* scripts, and all windows of them.                                       *)
(***************************************************************************)
EXTENDS WindowRegistry, DataProofs, SequenceTheorems, FiniteSetTheorems

\* A sequence number always selects one of the slots.
LEMMA SlotOfInRange ==
    ASSUME NEW seq \in Nat
    PROVE  SlotOf(seq) \in SlotIds
<1>1. Capacity \in Nat /\ Capacity > 0
    BY CapacityAssumption
<1> QED
    BY <1>1 DEF SlotOf, SlotIds

\* Two sequence numbers less than a ring apart use different slots.
LEMMA SlotsDistinct ==
    ASSUME NEW a \in Nat, NEW b \in Nat, a < b, b - a < Capacity
    PROVE  SlotOf(a) # SlotOf(b)
<1>1. Capacity \in Nat
    BY CapacityAssumption
<1> QED
    BY <1>1, RemaindersDiffer DEF SlotOf

-----------------------------------------------------------------------------
(* Type correctness.                                                       *)

\* A writer inside push() has an event in hand; its position in the loop over the
\* readers is meaningful only in that loop.
InPush ==
    \A s \in Streams :
        /\ wpc[s] # "idle" => sent[s] # <<>>
        /\ wnext[s] <= Len(positions) + 1
        /\ wpc[s] # "min" => wnext[s] = 1 /\ wmin[s] = UINT64_MAX

\* A script that is dispatched is registered and its stream has had an event: the
\* set-up of the registry is over.  It visits the streams it has a window of.
InDispatch ==
    \A x \in Scripts :
        /\ pc[x] # "idle" => idx[x] # 0 /\ sent[TriggerOf[x]] # <<>>
        /\ todo[x] \subseteq DOMAIN Windows[x]

TypeInv == TypeOK /\ InPush /\ InDispatch

-----------------------------------------------------------------------------
(* What the rings hold.                                                    *)

\* An event whose write has begun counts in the log, and in write_seq once its
\* writer has stored it.
HeadLogged ==
    \A s \in Streams :
        Len(log[s]) = write_seq[s] + (IF wpc[s] \in {"hi", "store"} THEN 1 ELSE 0)

\* A write under way is that of the last event sent.
WriteLogged ==
    \A s \in Streams : wpc[s] \in {"hi", "store"} => log[s][Len(log[s])] = sent[s][Len(sent[s])]

\* The slots hold the newest events, whole but for the one being written.
Held ==
    \A s \in Streams, q \in Nat :
        q < Len(log[s]) /\ Len(log[s]) <= q + Capacity =>
            /\ At(s, q).lo = log[s][q + 1]
            /\ ~(wpc[s] = "hi" /\ q = write_seq[s]) => At(s, q).hi = log[s][q + 1]

\* Nothing is written that was not sent.
LogSent ==
    \A s \in Streams :
        Len(log[s]) <= Len(sent[s]) /\ (wpc[s] = "min" => Len(log[s]) < Len(sent[s]))

RingInv == HeadLogged /\ WriteLogged /\ Held /\ LogSent

-----------------------------------------------------------------------------
(* What the scripts have read.                                             *)

\* A window lies below the head; a stream without a window has none of it.
ViewOf(x) ==
    \A s \in Streams :
        /\ view[x][s].begin <= view[x][s].end
        /\ view[x][s].end <= write_seq[s]
        /\ s \notin Viewed(x) => view[x][s] = NoView

\* The events copied so far are those at the start of the window, unless it was
\* lapped; so is the first word of the event being copied.
CopyOf(x) ==
    /\ pc[x] \notin {"read", "read_hi"} => input[x] = NoInput
    /\ \A s \in Streams :
          /\ Len(input[x][s]) <= Size(view[x][s])
          /\ Unlapped(x, s) =>
                \A i \in 1..Len(input[x][s]) : input[x][s][i] = Whole(log[s][view[x][s].begin + i])
    /\ pc[x] = "read_hi" =>
          /\ Len(input[x][cur[x]]) < Size(view[x][cur[x]])
          /\ Unlapped(x, cur[x]) => got[x] = log[cur[x]][ReadSeq(x, cur[x]) + 1]

ReadInv == \A x \in Scripts : ViewOf(x) /\ CopyOf(x)

-----------------------------------------------------------------------------
(* Where the windows of time begin.                                        *)

\* The bounds of the window x has of s are computed.
Bound(x, s) == pc[x] # "idle" /\ s \in Viewed(x) \ todo[x]

\* The window of time of s begins at b, and the ring has held it so far together
\* with the event before it.
Begins(x, s, b) ==
    /\ IsWindow(s, b, view[x][s].end, Cutoff(trigger[x].ts, Windows[x][s].n))
    /\ b = 0 => Len(log[s]) <= Capacity
    /\ b > 0 => Len(log[s]) < b + Capacity

\* The walk has not gone past the begin of the window, and stops there.
WalkOf(x) ==
    /\ Reading(x) => todo[x] = {}
    /\ pc[x] = "walk" =>
          /\ cur[x] \in todo[x] \cap rings
          /\ Windows[x][cur[x]].type = "time"
          /\ \A b \in 0..view[x][cur[x]].end :
                Begins(x, cur[x], b) => b <= view[x][cur[x]].begin
    /\ \A s \in Streams : Bound(x, s) /\ Windows[x][s].type = "time" =>
          \A b \in 0..view[x][s].end : Begins(x, s, b) => view[x][s].begin = b

WalkInv == \A x \in Scripts : WalkOf(x)

-----------------------------------------------------------------------------
(* What can_write() knows.                                                 *)

\* No two scripts share a position.
OwnPosition == \A x, y \in Scripts : idx[x] = idx[y] /\ idx[x] # 0 => x = y

\* x has a counted window of the ring of s.
Counts(x, s) == idx[x] # 0 /\ s \in Viewed(x) /\ Windows[x][s].type = "count"

\* The least begin of a window x may be given of s from now on.
NextBegin(x, s) == CountBegin(write_seq[s], Windows[x][s].n)

\* No counted window begins before the position that its script published last, or
\* that a writer has loaded of it.
Known(p, x, s) ==
    /\ p <= NextBegin(x, s)
    /\ Bound(x, s) => p <= view[x][s].begin

PositionOf(x) ==
    \A s \in Streams : Counts(x, s) =>
        /\ view[x][s].begin <= NextBegin(x, s)
        /\ Known(positions[idx[x]], x, s)
        /\ \A t \in Streams : wnext[t] > idx[x] => Known(wmin[t], x, s)

\* The writes that reuse a slot of a counted window are recorded, that of an event
\* under way already when it reuses a slot of the window to come.
DropsOf(x) ==
    \A s \in Streams : Counts(x, s) =>
        /\ \A q \in (NextBegin(x, s) + Capacity)..(Len(log[s]) - 1) :
              q >= write_seq[s] => q \in dropped[s]
        /\ Bound(x, s) /\ view[x][s].end - view[x][s].begin <= Capacity =>
              \A q \in (view[x][s].begin + Capacity)..(Len(log[s]) - 1) : q \in dropped[s]

\* A script that takes snapshots never publishes a position, so every write that
\* reuses a slot of any ring is recorded.
SnapshotOf(x) ==
    Mode[x] = "snapshot" /\ idx[x] # 0 =>
        /\ positions[idx[x]] = 0
        /\ \A t \in Streams : wnext[t] > idx[x] => wmin[t] = 0
        /\ pc[x] # "begin_read"
        /\ \A s \in Streams : \A q \in Capacity..(Len(log[s]) - 1) : q \in dropped[s]

LapOf(x) == PositionOf(x) /\ DropsOf(x) /\ SnapshotOf(x)

\* No script has published a position before the first event.
InSetUp == NotStarted => \A i \in PosIds : positions[i] = 0

\* Emitted counts a finite set.
Numbered == UNION {{s} \X DOMAIN sent[s] : s \in Streams}

BoundInv == IsFiniteSet(Numbered) /\ Cardinality(Numbered) <= MaxEvents

LapInv == OwnPosition /\ InSetUp /\ BoundInv /\ \A x \in Scripts : LapOf(x)

-----------------------------------------------------------------------------
\* A position or the least of two is a position.
LEMMA LesserIs == \A a, b \in Nat : Lesser(a, b) \in Nat /\ Lesser(a, b) <= a /\ Lesser(a, b) <= b
BY DEF Lesser

\* A counted window begins at or before the head.
LEMMA CountBeginIs ==
    \A h, n \in Nat : CountBegin(h, n) \in Nat /\ CountBegin(h, n) <= h
BY DEF CountBegin

\* A cutoff is a timestamp.
LEMMA CutoffIs == \A ts, d \in Nat : Cutoff(ts, d) \in Nat
BY DEF Cutoff

\* Slots, and the words in them.
Slots == [lo : Events, hi : Events]

LEMMA NoEventIs == NoEvent \in Events
BY WindowAssumption DEF NoEvent, Events

\* Storing one word of an event in a slot leaves a slot.
LEMMA WordIs ==
    ASSUME NEW c \in Slots, NEW w \in Events
    PROVE  [c EXCEPT !.lo = w] \in Slots /\ [c EXCEPT !.hi = w] \in Slots
BY DEF Slots

\* The slot of a sequence number holds two words.
LEMMA AtIs ==
    ASSUME TypeOK, NEW s \in Streams, NEW q \in Nat
    PROVE  At(s, q) \in Slots /\ At(s, q).lo \in Events /\ At(s, q).hi \in Events
<1>1. slots[s] \in [SlotIds -> Slots]
    BY DEF TypeOK, Slots
<1>2. At(s, q) \in Slots
    BY <1>1, SlotOfInRange DEF At
<1> QED
    BY <1>2 DEF Slots

\* Initially everything is well-typed.
LEMMA TypeInit == Init => TypeInv
<1> SUFFICES ASSUME Init PROVE TypeInv
    OBVIOUS
<1>1. NewSlots(NoEvent) \in [SlotIds -> [lo : Events, hi : Events]]
    BY NoEventIs DEF NewSlots, Whole
<1>2. UINT64_MAX \in 0..UINT64_MAX
    BY WindowAssumption, CapacityAssumption DEF UINT64_MAX
<1>3. NoViews \in [Streams -> [begin : Nat, end : Nat]]
    BY DEF NoViews, NoView
<1>4. NoInput \in [Streams -> Seq([lo : Events, hi : Events])]
    BY DEF NoInput
<1>5. TypeOK
    <2>1. slots \in [Streams -> [SlotIds -> [lo : Events, hi : Events]]]
        BY <1>1 DEF Init
    <2>2. wmin \in [Streams -> 0..UINT64_MAX]
        BY <1>2 DEF Init
    <2>3. view \in [Scripts -> [Streams -> [begin : Nat, end : Nat]]]
        BY <1>3 DEF Init
    <2>4. input \in [Scripts -> [Streams -> Seq([lo : Events, hi : Events])]]
        BY <1>4 DEF Init
    <2>5. trigger \in [Scripts -> Events] /\ got \in [Scripts -> Events]
        BY NoEventIs DEF Init
    <2>6. cur \in [Scripts -> Streams]
        BY WindowAssumption DEF Init
    <2>7. idx \in [Scripts -> 0..Len(positions)]
        BY DEF Init
    <2>8. sent \in [Streams -> Seq(Events)] /\ log \in [Streams -> Seq(Events)]
        BY DEF Init
    <2>9. /\ rings \subseteq Ensured /\ write_seq \in [Streams -> Nat] /\ positions \in Seq(Nat)
          /\ wpc \in [Streams -> {"idle", "min", "hi", "store"}]
          /\ wnext \in [Streams -> Nat \ {0}]
        BY DEF Init
    <2>10. /\ pc \in [Scripts -> {"idle", "bound", "walk", "begin_read", "read", "read_hi"}]
           /\ todo \in [Scripts -> SUBSET Streams]
           /\ taken \in [Scripts -> Nat]
           /\ dropped \in [Streams -> SUBSET Nat]
        BY DEF Init
    <2> QED
        BY <2>1, <2>2, <2>3, <2>4, <2>5, <2>6, <2>7, <2>8, <2>9, <2>10 DEF TypeOK
<1>6. InPush /\ InDispatch
    BY DEF Init, InPush, InDispatch
<1> QED
    BY <1>5, <1>6 DEF TypeInv

\* Setting up and pushing keep the types.
LEMMA WriterTypes ==
    ASSUME TypeInv, NEW s \in Streams, EnsureStream(s) \/ Push(s)
    PROVE  TypeInv'
<1> USE DEF TypeInv, TypeOK, InPush, InDispatch, ringVars, writerVars, scriptVars
<1>1. CASE EnsureStream(s)
    BY <1>1 DEF EnsureStream
<1>2. ASSUME NEW ts \in 0..MaxTs, PushLookup(s, ts) PROVE TypeInv'
    <2>1. [id |-> Len(sent[s]) + 1, ts |-> ts] \in Events
        BY DEF Events
    <2>2. /\ sent' \in [Streams -> Seq(Events)]
          /\ \A t \in Streams : sent'[t] = <<>> => sent[t] = <<>> /\ t # s
        <3> DEFINE e == [id |-> Len(sent[s]) + 1, ts |-> ts]
        <3>1. sent' = [sent EXCEPT ![s] = Append(sent[s], e)]
            BY <1>2 DEF PushLookup
        <3> HIDE DEF e
        <3>2. e \in Events
            BY <2>1 DEF e
        <3>3. Append(sent[s], e) \in Seq(Events) /\ Len(Append(sent[s], e)) > 0
            BY <3>2
        <3>4. sent \in [Streams -> Seq(Events)]
            OBVIOUS
        <3> HIDE DEF TypeInv, TypeOK
        <3> QED
            BY <3>1, <3>3, <3>4
    <2>3. wpc' \in [Streams -> {"idle", "min", "hi", "store"}]
        BY <1>2 DEF PushLookup
    <2>4. InPush'
        BY <1>2, <2>2 DEF PushLookup
    <2>5. InDispatch'
        BY <1>2, <2>2, WindowAssumption DEF PushLookup
    <2>6. UNCHANGED <<rings, slots, write_seq, positions, wmin, wnext, log, dropped, scriptVars>>
        BY <1>2 DEF PushLookup
    <2> QED
        BY <2>2, <2>3, <2>4, <2>5, <2>6
<1>3. CASE PushMin(s)
    <2>1. positions[wnext[s]] \in Nat /\ wnext[s] + 1 <= Len(positions) + 1
        BY <1>3 DEF PushMin, PosIds
    <2>2. Lesser(wmin[s], positions[wnext[s]]) \in 0..UINT64_MAX
        <3>1. wmin[s] \in Nat /\ wmin[s] <= UINT64_MAX /\ UINT64_MAX \in Nat
            BY WindowAssumption, CapacityAssumption DEF UINT64_MAX
        <3>2. \A l, m \in Nat : l <= m /\ m <= UINT64_MAX => l \in 0..UINT64_MAX
            BY <3>1
        <3> QED
            BY <2>1, <3>1, <3>2, LesserIs
    <2>3. wmin' \in [Streams -> 0..UINT64_MAX] /\ wnext' \in [Streams -> Nat \ {0}]
        BY <1>3, <2>2 DEF PushMin
    <2>4. InPush'
        BY <1>3, <2>1 DEF PushMin
    <2> QED
        BY <1>3, <2>3, <2>4 DEF PushMin
<1>4. ASSUME wpc[s] # "idle" PROVE sent[s][Len(sent[s])] \in Events
    BY <1>4
<1>5. SlotOf(write_seq[s]) \in SlotIds
    BY SlotOfInRange
<1>6. slots[s][SlotOf(write_seq[s])] \in Slots
    BY <1>5 DEF Slots
<1>7. CASE PushWriteLo(s)
    <2>1. slots' \in [Streams -> [SlotIds -> Slots]]
        BY <1>4, <1>5, <1>6, <1>7, WordIs DEF PushWriteLo, Slots
    <2>2. log' \in [Streams -> Seq(Events)]
        BY <1>4, <1>7 DEF PushWriteLo
    <2>3. dropped' \in [Streams -> SUBSET Nat]
        <3>1. (IF CanWrite(s) THEN dropped[s] ELSE dropped[s] \cup {write_seq[s]}) \in SUBSET Nat
            OBVIOUS
        <3> QED
            BY <1>7, <3>1 DEF PushWriteLo
    <2>4. wmin' \in [Streams -> 0..UINT64_MAX]
        <3>1. UINT64_MAX \in 0..UINT64_MAX
            BY WindowAssumption, CapacityAssumption DEF UINT64_MAX
        <3> QED
            BY <1>7, <3>1 DEF PushWriteLo
    <2>5. /\ wnext' \in [Streams -> Nat \ {0}]
          /\ wpc' \in [Streams -> {"idle", "min", "hi", "store"}]
        BY <1>7 DEF PushWriteLo
    <2>6. InPush'
        BY <1>7 DEF PushWriteLo
    <2>7. UNCHANGED <<rings, write_seq, positions, sent, scriptVars>>
        BY <1>7 DEF PushWriteLo
    <2> QED
        BY <2>1, <2>2, <2>3, <2>4, <2>5, <2>6, <2>7 DEF Slots
<1>8. CASE PushWriteHi(s)
    <2>1. slots' \in [Streams -> [SlotIds -> Slots]]
        BY <1>4, <1>5, <1>6, <1>8, WordIs DEF PushWriteHi, Slots
    <2>2. wpc' \in [Streams -> {"idle", "min", "hi", "store"}] /\ InPush'
        BY <1>8 DEF PushWriteHi
    <2>3. UNCHANGED <<rings, write_seq, positions, wmin, wnext, sent, log, dropped, scriptVars>>
        BY <1>8 DEF PushWriteHi
    <2> QED
        BY <2>1, <2>2, <2>3 DEF Slots
<1>9. CASE PushStore(s)
    <2>1. write_seq' \in [Streams -> Nat]
        BY <1>9 DEF PushStore
    <2>2. wpc' \in [Streams -> {"idle", "min", "hi", "store"}] /\ InPush'
        BY <1>9 DEF PushStore
    <2>3. UNCHANGED <<rings, slots, positions, wmin, wnext, sent, log, dropped, scriptVars>>
        BY <1>9 DEF PushStore
    <2> QED
        BY <2>1, <2>2, <2>3
<1> QED
    BY <1>1, <1>2, <1>3, <1>7, <1>8, <1>9 DEF Push

\* What a script does keeps the types.
LEMMA ScriptTypes ==
    ASSUME TypeInv, NEW x \in Scripts, RegisterScript(x) \/ Script(x)
    PROVE  TypeInv'
<1> USE DEF KeepWriters, writerVars
<1>1. /\ sent \in [Streams -> Seq(Events)] /\ wpc \in [Streams -> {"idle", "min", "hi", "store"}]
      /\ write_seq \in [Streams -> Nat] /\ positions \in Seq(Nat)
    BY DEF TypeInv, TypeOK
<1>2. /\ trigger \in [Scripts -> Events] /\ got \in [Scripts -> Events]
      /\ cur \in [Scripts -> Streams] /\ taken \in [Scripts -> Nat]
      /\ todo \in [Scripts -> SUBSET Streams]
    BY DEF TypeInv, TypeOK
<1>3. view \in [Scripts -> [Streams -> [begin : Nat, end : Nat]]]
    BY DEF TypeInv, TypeOK
<1>4. input \in [Scripts -> [Streams -> Seq(Slots)]]
    BY DEF TypeInv, TypeOK, Slots
<1>5. pc \in [Scripts -> {"idle", "bound", "walk", "begin_read", "read", "read_hi"}]
    BY DEF TypeInv, TypeOK
<1>6. idx \in [Scripts -> 0..Len(positions)]
    BY DEF TypeInv, TypeOK
<1>7. InPush /\ InDispatch /\ TypeOK
    BY DEF TypeInv
<1>8. \A s \in Streams : view[x][s].begin \in Nat /\ view[x][s].end \in Nat
    BY <1>3
<1>9. \A s \in Streams : Len(input[x][s]) \in Nat
    BY <1>4
<1>10. \A s \in DOMAIN Windows[x] : s \in Streams /\ Windows[x][s].n \in Nat
    BY WindowAssumption
<1> DEFINE Pcs == {"idle", "bound", "walk", "begin_read", "read", "read_hi"}
           Views == [begin : Nat, end : Nat]
<1>11. CASE RegisterScript(x)
    <2>1. positions' \in Seq(Nat) /\ Len(positions') = Len(positions) + 1
        BY <1>11, <1>1 DEF RegisterScript
    <2>2. idx' \in [Scripts -> 0..Len(positions')]
        BY <1>11, <1>1, <1>6, <2>1 DEF RegisterScript
    <2>3. InPush'
        BY <1>11, <1>1, <1>7, <2>1 DEF RegisterScript, InPush, TypeOK
    <2>4. InDispatch'
        BY <1>11, <1>1, <1>6, <1>7 DEF RegisterScript, InDispatch
    <2>5. UNCHANGED <<rings, slots, write_seq, writerVars,
                      pc, trigger, todo, cur, view, got, input, taken>>
        BY <1>11 DEF RegisterScript
    <2> QED
        BY <1>7, <2>1, <2>2, <2>3, <2>4, <2>5 DEF TypeInv, TypeOK
<1>12. CASE Dispatch(x)
    <2>1. TriggerOf[x] \in Streams /\ DOMAIN Windows[x] \in SUBSET Streams
        BY WindowAssumption
    <2>2. taken[x] < Len(sent[TriggerOf[x]]) /\ taken[x] \in Nat
        BY <1>12, <1>1, <1>2, <2>1 DEF Dispatch, Pushed
    <2>3. sent[TriggerOf[x]] \in Seq(Events)
        BY <1>1, <2>1
    <2>4. sent[TriggerOf[x]][taken[x] + 1] \in Events /\ sent[TriggerOf[x]] # <<>>
        BY <2>2, <2>3
    <2>5. trigger' \in [Scripts -> Events] /\ taken' \in [Scripts -> Nat]
        BY <1>12, <1>2, <2>4 DEF Dispatch
    <2>6. todo' \in [Scripts -> SUBSET Streams] /\ pc' \in [Scripts -> Pcs]
        BY <1>12, <1>2, <1>5, <2>1 DEF Dispatch
    <2>7. InDispatch'
        BY <1>12, <1>5, <1>7, <2>4 DEF Dispatch, InDispatch
    <2>8. UNCHANGED <<positions, idx, cur, view, got, input>> /\ KeepWriters
        BY <1>12 DEF Dispatch
    <2> QED
        BY <1>7, <2>5, <2>6, <2>7, <2>8 DEF TypeInv, TypeOK, InPush
<1>13. ASSUME NEW s \in Streams, BoundsDone(x, s), pc[x] # "idle", idx' = idx, sent' = sent
      PROVE  todo' \in [Scripts -> SUBSET Streams] /\ pc' \in [Scripts -> Pcs] /\ InDispatch'
    BY <1>13, <1>2, <1>5, <1>7 DEF BoundsDone, InDispatch
<1>14. ASSUME NEW s \in Streams, SkipStream(x, s) PROVE TypeInv'
    <2>1. UNCHANGED <<positions, idx, trigger, cur, view, got, input, taken>> /\ KeepWriters
        BY <1>14 DEF SkipStream
    <2>2. todo' \in [Scripts -> SUBSET Streams] /\ pc' \in [Scripts -> Pcs] /\ InDispatch'
        BY <1>13, <1>14 DEF SkipStream
    <2> QED
        BY <1>7, <2>1, <2>2 DEF TypeInv, TypeOK, InPush
<1>15. ASSUME NEW s \in Streams, BoundCount(x, s) PROVE TypeInv'
    <2>1. CountBegin(write_seq[s], Windows[x][s].n) \in Nat
        BY <1>15, <1>1, <1>7, <1>10, CountBeginIs DEF BoundCount, InDispatch
    <2>2. [begin |-> CountBegin(write_seq[s], Windows[x][s].n), end |-> write_seq[s]] \in Views
        BY <1>1, <2>1
    <2>3. view' \in [Scripts -> [Streams -> Views]]
        BY <1>15, <1>3, <2>2 DEF BoundCount
    <2>4. UNCHANGED <<positions, idx, trigger, cur, got, input, taken>> /\ KeepWriters
        BY <1>15 DEF BoundCount
    <2>5. todo' \in [Scripts -> SUBSET Streams] /\ pc' \in [Scripts -> Pcs] /\ InDispatch'
        BY <1>13, <1>15 DEF BoundCount
    <2> QED
        BY <1>7, <2>3, <2>4, <2>5 DEF TypeInv, TypeOK, InPush
<1>16. ASSUME NEW s \in Streams, BoundTime(x, s) PROVE TypeInv'
    <2>1. [begin |-> write_seq[s], end |-> write_seq[s]] \in Views
        BY <1>1
    <2>2. view' \in [Scripts -> [Streams -> Views]]
        BY <1>16, <1>3, <2>1 DEF BoundTime
    <2>3. cur' \in [Scripts -> Streams] /\ pc' \in [Scripts -> Pcs] /\ InDispatch'
        BY <1>16, <1>2, <1>5, <1>7 DEF BoundTime, InDispatch
    <2>4. UNCHANGED <<positions, idx, trigger, todo, got, input, taken>> /\ KeepWriters
        BY <1>16 DEF BoundTime
    <2> QED
        BY <1>7, <2>2, <2>3, <2>4 DEF TypeInv, TypeOK, InPush
<1>17. CASE Walk(x)
    <2>1. cur[x] \in Streams
        BY <1>2
    <2>2. UNCHANGED <<positions, idx, trigger, cur, got, input, taken>> /\ KeepWriters
        BY <1>17 DEF Walk
    <2>3. CASE InWindow(x, cur[x])
        <3>1. view[x][cur[x]].begin - 1 \in Nat
            BY <1>8, <2>1, <2>3 DEF InWindow
        <3>2. view' = [view EXCEPT ![x][cur[x]].begin = view[x][cur[x]].begin - 1]
            BY <1>17, <2>3 DEF Walk
        <3>3. [view[x][cur[x]] EXCEPT !.begin = view[x][cur[x]].begin - 1] \in Views
            BY <1>3, <2>1, <3>1
        <3>4. view' \in [Scripts -> [Streams -> Views]]
            BY <1>3, <2>1, <3>2, <3>3
        <3>5. UNCHANGED <<pc, todo>>
            BY <1>17, <2>3 DEF Walk
        <3> QED
            BY <1>7, <2>2, <3>4, <3>5 DEF TypeInv, TypeOK, InPush, InDispatch
    <2>4. CASE ~InWindow(x, cur[x])
        <3>1. todo' \in [Scripts -> SUBSET Streams] /\ pc' \in [Scripts -> Pcs] /\ InDispatch'
            BY <1>13, <1>17, <2>1, <2>4 DEF Walk
        <3> QED
            BY <1>17, <1>7, <2>2, <2>4, <3>1 DEF Walk, TypeInv, TypeOK, InPush
    <2> QED
        BY <2>3, <2>4
<1>18. CASE BeginRead(x)
    <2>1. positions' \in Seq(Nat) /\ Len(positions') = Len(positions)
        <3>1. CASE UNCHANGED positions
            BY <1>1, <3>1
        <3>2. ASSUME NEW s \in Viewed(x), positions' = [positions EXCEPT ![idx[x]] = view[x][s].begin]
              PROVE  positions' \in Seq(Nat) /\ Len(positions') = Len(positions)
            <4>1. view[x][s].begin \in Nat
                BY <1>8, <1>10 DEF Viewed
            <4>2. idx[x] \in 1..Len(positions)
                BY <1>18, <1>1, <1>6, <1>7 DEF BeginRead, InDispatch
            <4> QED
                BY <1>1, <3>2, <4>1, <4>2, ExceptSeq
        <3> QED
            BY <1>18, <3>1, <3>2 DEF BeginRead
    <2>2. pc' \in [Scripts -> Pcs] /\ InDispatch'
        BY <1>18, <1>5, <1>7 DEF BeginRead, InDispatch
    <2>3. UNCHANGED <<idx, trigger, todo, cur, view, got, input, taken>> /\ KeepWriters
        BY <1>18 DEF BeginRead
    <2> QED
        BY <1>7, <2>1, <2>2, <2>3 DEF TypeInv, TypeOK, InPush
<1>19. ASSUME NEW s \in Streams PROVE ReadSeq(x, s) \in Nat
    BY <1>8, <1>9 DEF ReadSeq
<1>20. ASSUME NEW s \in Streams, ReadLo(x, s) PROVE TypeInv'
    <2>1. At(s, ReadSeq(x, s)).lo \in Events
        BY <1>19, <1>7, AtIs
    <2>2. got' \in [Scripts -> Events] /\ cur' \in [Scripts -> Streams]
        BY <1>20, <1>2, <2>1 DEF ReadLo
    <2>3. pc' \in [Scripts -> Pcs] /\ InDispatch'
        BY <1>20, <1>5, <1>7 DEF ReadLo, InDispatch
    <2>4. UNCHANGED <<positions, idx, trigger, todo, view, input, taken>> /\ KeepWriters
        BY <1>20 DEF ReadLo
    <2> QED
        BY <1>7, <2>2, <2>3, <2>4 DEF TypeInv, TypeOK, InPush
<1>21. CASE ReadHi(x)
    <2>1. cur[x] \in Streams /\ got[x] \in Events
        BY <1>2
    <2> DEFINE c == [lo |-> got[x], hi |-> At(cur[x], ReadSeq(x, cur[x])).hi]
    <2>2. c \in Slots
        <3>1. At(cur[x], ReadSeq(x, cur[x])).hi \in Events
            BY <1>19, <1>7, <2>1, AtIs
        <3> QED
            BY <2>1, <3>1 DEF Slots
    <2>3. input' = [input EXCEPT ![x][cur[x]] = Append(input[x][cur[x]], c)]
        BY <1>21 DEF ReadHi
    <2> HIDE DEF c
    <2>4. Append(input[x][cur[x]], c) \in Seq(Slots)
        BY <1>4, <2>1, <2>2
    <2>5. input' \in [Scripts -> [Streams -> Seq(Slots)]]
        BY <1>4, <2>3, <2>4
    <2>6. got' \in [Scripts -> Events] /\ cur' \in [Scripts -> Streams]
        BY <1>21, <1>2, NoEventIs, WindowAssumption DEF ReadHi
    <2>7. pc' \in [Scripts -> Pcs] /\ InDispatch'
        BY <1>21, <1>5, <1>7 DEF ReadHi, InDispatch
    <2>8. UNCHANGED <<positions, idx, trigger, todo, view, taken>> /\ KeepWriters
        BY <1>21 DEF ReadHi
    <2> QED
        BY <1>7, <2>5, <2>6, <2>7, <2>8 DEF TypeInv, TypeOK, InPush, Slots
<1>22. CASE EndRead(x)
    <2>1. trigger' \in [Scripts -> Events]
        BY <1>22, <1>2, NoEventIs DEF EndRead
    <2>2. NoViews \in [Streams -> Views] /\ NoInput \in [Streams -> Seq(Slots)]
        BY DEF NoViews, NoView, NoInput
    <2>3. view' \in [Scripts -> [Streams -> Views]] /\ input' \in [Scripts -> [Streams -> Seq(Slots)]]
        BY <1>22, <1>3, <1>4, <2>2 DEF EndRead
    <2>4. pc' \in [Scripts -> Pcs] /\ InDispatch'
        BY <1>22, <1>5, <1>7 DEF EndRead, InDispatch
    <2>5. UNCHANGED <<positions, idx, todo, cur, got, taken>> /\ KeepWriters
        BY <1>22 DEF EndRead
    <2> QED
        BY <1>7, <2>1, <2>3, <2>4, <2>5 DEF TypeInv, TypeOK, InPush, Slots
<1> QED
    BY <1>11, <1>12, <1>14, <1>15, <1>16, <1>17, <1>18, <1>20, <1>21, <1>22 DEF Script

\* Every step keeps the types.
LEMMA TypeStep == TypeInv /\ [Next]_vars => TypeInv'
<1>1. TypeInv /\ UNCHANGED vars => TypeInv'
    BY DEF TypeInv, TypeOK, InPush, InDispatch, vars, ringVars, writerVars, scriptVars
<1> QED
    BY <1>1, WriterTypes, ScriptTypes DEF Next

\* What every thread keeps in its variables has its type.
THEOREM TypeCorrect == Spec => []TypeOK
<1>1. TypeInv => TypeOK
    BY DEF TypeInv
<1> QED
    BY <1>1, TypeInit, TypeStep, PTL DEF Spec

-----------------------------------------------------------------------------
(* The rings.                                                              *)

\* What the writers of s have, one by one.
LEMMA WriterKinds ==
    ASSUME TypeOK, NEW s \in Streams
    PROVE  /\ write_seq[s] \in Nat /\ wmin[s] \in Nat /\ wnext[s] \in Nat \ {0}
           /\ log[s] \in Seq(Events) /\ Len(log[s]) \in Nat
           /\ sent[s] \in Seq(Events) /\ Len(sent[s]) \in Nat
<1>1. UINT64_MAX \in Nat
    BY WindowAssumption, CapacityAssumption DEF UINT64_MAX
<1>2. /\ write_seq \in [Streams -> Nat] /\ wmin \in [Streams -> 0..UINT64_MAX]
      /\ wnext \in [Streams -> Nat \ {0}]
      /\ log \in [Streams -> Seq(Events)] /\ sent \in [Streams -> Seq(Events)]
    BY DEF TypeOK
<1> QED
    BY <1>1, <1>2

\* What only scripts do, and the set-up, leaves the rings as they are.
LEMMA RingKept ==
    ASSUME RingInv, UNCHANGED <<slots, write_seq, wpc, sent, log>>
    PROVE  RingInv'
BY DEF RingInv, HeadLogged, WriteLogged, Held, LogSent, At, SlotOf

\* Initially the rings are empty.
LEMMA RingInit == Init => RingInv
BY DEF Init, RingInv, HeadLogged, WriteLogged, Held, LogSent

\* A writer keeps the newest events in the slots of its ring.
LEMMA RingPush ==
    ASSUME TypeInv, RingInv, NEW s \in Streams, Push(s)
    PROVE  RingInv'
<1>1. TypeOK /\ InPush
    BY DEF TypeInv
<1>2. HeadLogged /\ WriteLogged /\ Held /\ LogSent
    BY DEF RingInv
<1>3. \A t \in Streams :
         /\ write_seq[t] \in Nat
         /\ log[t] \in Seq(Events) /\ Len(log[t]) \in Nat
         /\ sent[t] \in Seq(Events) /\ Len(sent[t]) \in Nat
    BY <1>1, WriterKinds
<1>4. Capacity \in Nat /\ Capacity > 0
    BY CapacityAssumption
<1>5. SlotOf(write_seq[s]) \in SlotIds
    BY <1>3, SlotOfInRange
<1>6. slots \in [Streams -> [SlotIds -> Slots]]
    BY <1>1 DEF TypeOK, Slots
<1>7. \A q \in Nat : SlotOf(q) \in SlotIds
    BY SlotOfInRange
<1>8. write_seq \in [Streams -> Nat] /\ log \in [Streams -> Seq(Events)] /\ sent \in [Streams -> Seq(Events)]
      /\ wpc \in [Streams -> {"idle", "min", "hi", "store"}]
    BY <1>1 DEF TypeOK
<1>9. ASSUME NEW ts \in 0..MaxTs, PushLookup(s, ts) PROVE RingInv'
    <2>1. UNCHANGED <<slots, write_seq, log>> /\ \A t \in Streams : t # s => sent'[t] = sent[t] /\ wpc'[t] = wpc[t]
        BY <1>9 DEF PushLookup, ringVars
    <2>2. wpc[s] = "idle" /\ wpc'[s] \in {"idle", "min"}
        BY <1>8, <1>9 DEF PushLookup
    <2>3. Len(sent'[s]) = Len(sent[s]) + 1
        <3> DEFINE e == [id |-> Len(sent[s]) + 1, ts |-> ts]
        <3>1. sent'[s] = Append(sent[s], e)
            BY <1>8, <1>9 DEF PushLookup
        <3> HIDE DEF e
        <3> QED
            BY <1>3, <3>1
    <2>4. HeadLogged' /\ WriteLogged'
        BY <1>2, <2>1, <2>2 DEF HeadLogged, WriteLogged
    <2>5. Held'
        BY <1>2, <2>1, <2>2 DEF Held, At, SlotOf
    <2>6. LogSent'
        BY <1>2, <1>3, <2>1, <2>2, <2>3 DEF LogSent
    <2> QED
        BY <2>4, <2>5, <2>6 DEF RingInv
<1>10. CASE PushMin(s)
    BY <1>2, <1>10 DEF PushMin, RingInv, ringVars, HeadLogged, WriteLogged, Held, LogSent, At, SlotOf
<1>11. CASE PushWriteLo(s)
    <2> DEFINE e == sent[s][Len(sent[s])]
    <2>1. /\ slots' = [slots EXCEPT ![s][SlotOf(write_seq[s])].lo = e]
          /\ log' = [log EXCEPT ![s] = Append(log[s], e)]
          /\ wpc[s] = "min" /\ wpc' = [wpc EXCEPT ![s] = "hi"]
          /\ UNCHANGED <<write_seq, sent>>
        BY <1>11 DEF PushWriteLo
    <2>2. e \in Events
        BY <1>1, <1>3, <2>1 DEF InPush
    <2> HIDE DEF e
    <2>3. Len(log[s]) = write_seq[s] /\ Len(log[s]) < Len(sent[s])
        <3>1. wpc[s] = "min"
            BY <2>1
        <3>2. Len(log[s]) = write_seq[s] + (IF wpc[s] \in {"hi", "store"} THEN 1 ELSE 0)
            BY <1>2 DEF HeadLogged
        <3>3. Len(log[s]) < Len(sent[s])
            BY <1>2, <3>1 DEF LogSent
        <3>4. Len(log[s]) = write_seq[s] + 0
            BY <3>1, <3>2
        <3> QED
            BY <1>3, <3>3, <3>4
    <2>4. /\ log'[s] = Append(log[s], e) /\ Len(log'[s]) = Len(log[s]) + 1
          /\ log'[s][Len(log[s]) + 1] = e
          /\ \A i \in 1..Len(log[s]) : log'[s][i] = log[s][i]
        BY <1>3, <1>8, <2>1, <2>2
    <2>5. \A t \in Streams : t # s => log'[t] = log[t] /\ slots'[t] = slots[t] /\ wpc'[t] = wpc[t]
        BY <2>1
    <2>6. HeadLogged'
        BY <1>2, <1>8, <2>1, <2>3, <2>4, <2>5 DEF HeadLogged
    <2>7. WriteLogged'
        BY <1>2, <2>1, <2>4, <2>5 DEF WriteLogged, e
    <2>8. LogSent'
        BY <1>2, <1>3, <1>8, <2>1, <2>3, <2>4, <2>5 DEF LogSent
    <2>9. ASSUME NEW q \in Nat, q < Len(log'[s]), Len(log'[s]) <= q + Capacity
          PROVE  /\ slots'[s][SlotOf(q)].lo = log'[s][q + 1]
                 /\ q # write_seq[s] => slots'[s][SlotOf(q)].hi = log'[s][q + 1]
        <3>1. CASE q = write_seq[s]
            <4>1. slots'[s][SlotOf(write_seq[s])] = [slots[s][SlotOf(write_seq[s])] EXCEPT !.lo = e]
                BY <1>5, <1>6, <2>1
            <4>2. slots[s][SlotOf(write_seq[s])] \in Slots
                BY <1>5, <1>6
            <4>3. slots'[s][SlotOf(write_seq[s])].lo = e
                BY <4>1, <4>2 DEF Slots
            <4> QED
                BY <2>3, <2>4, <3>1, <4>3
        <3>2. CASE q # write_seq[s]
            <4>1. q < write_seq[s] /\ write_seq[s] - q < Capacity /\ q + 1 \in 1..Len(log[s])
                BY <1>3, <1>4, <2>3, <2>4, <2>9, <3>2
            <4>2. SlotOf(q) # SlotOf(write_seq[s])
                BY <1>3, <4>1, SlotsDistinct
            <4>3. slots'[s][SlotOf(q)] = slots[s][SlotOf(q)]
                BY <1>5, <1>6, <1>7, <2>1, <4>2
            <4>4. Len(log[s]) <= q + Capacity /\ q < Len(log[s])
                BY <1>3, <1>4, <2>3, <2>4, <2>9, <4>1
            <4>5. /\ slots[s][SlotOf(q)].lo = log[s][q + 1]
                  /\ slots[s][SlotOf(q)].hi = log[s][q + 1]
                BY <1>2, <2>1, <4>4 DEF Held, At
            <4> QED
                BY <2>4, <4>1, <4>3, <4>5
        <3> QED
            BY <3>1, <3>2
    <2>10. Held'
        <3> SUFFICES ASSUME NEW t \in Streams, NEW q \in Nat, q < Len(log'[t]), Len(log'[t]) <= q + Capacity
                     PROVE  /\ slots'[t][SlotOf(q)].lo = log'[t][q + 1]
                            /\ ~(wpc'[t] = "hi" /\ q = write_seq'[t]) =>
                                  slots'[t][SlotOf(q)].hi = log'[t][q + 1]
            BY DEF Held, At, SlotOf
        <3>1. CASE t = s
            BY <1>8, <2>1, <2>9, <3>1
        <3>2. CASE t # s
            BY <1>2, <2>1, <2>5, <3>2 DEF Held, At
        <3> QED
            BY <3>1, <3>2
    <2> QED
        BY <2>6, <2>7, <2>8, <2>10 DEF RingInv
<1>12. CASE PushWriteHi(s)
    <2> DEFINE e == sent[s][Len(sent[s])]
    <2>1. /\ slots' = [slots EXCEPT ![s][SlotOf(write_seq[s])].hi = e]
          /\ wpc[s] = "hi" /\ wpc' = [wpc EXCEPT ![s] = "store"]
          /\ UNCHANGED <<write_seq, sent, log>>
        BY <1>12 DEF PushWriteHi
    <2>2. Len(log[s]) = write_seq[s] + 1 /\ log[s][Len(log[s])] = e
        BY <1>2, <2>1 DEF HeadLogged, WriteLogged
    <2> HIDE DEF e
    <2>3. \A t \in Streams : t # s => slots'[t] = slots[t] /\ wpc'[t] = wpc[t]
        BY <2>1
    <2>4. HeadLogged' /\ WriteLogged' /\ LogSent'
        BY <1>2, <1>8, <2>1, <2>3 DEF HeadLogged, WriteLogged, LogSent
    <2>5. ASSUME NEW q \in Nat, q < Len(log[s]), Len(log[s]) <= q + Capacity
          PROVE  /\ slots'[s][SlotOf(q)].lo = log[s][q + 1]
                 /\ slots'[s][SlotOf(q)].hi = log[s][q + 1]
        <3>1. slots[s][SlotOf(q)].lo = log[s][q + 1]
            BY <1>2, <2>5 DEF Held, At
        <3>2. CASE q = write_seq[s]
            <4>1. slots'[s][SlotOf(write_seq[s])] = [slots[s][SlotOf(write_seq[s])] EXCEPT !.hi = e]
                BY <1>5, <1>6, <2>1
            <4>2. slots[s][SlotOf(write_seq[s])] \in Slots
                BY <1>5, <1>6
            <4>3. /\ slots'[s][SlotOf(write_seq[s])].hi = e
                  /\ slots'[s][SlotOf(write_seq[s])].lo = slots[s][SlotOf(write_seq[s])].lo
                BY <4>1, <4>2 DEF Slots
            <4> QED
                BY <2>2, <3>1, <3>2, <4>3
        <3>3. CASE q # write_seq[s]
            <4>1. q < write_seq[s] /\ write_seq[s] - q < Capacity
                BY <1>3, <1>4, <2>2, <2>5, <3>3
            <4>2. SlotOf(q) # SlotOf(write_seq[s])
                BY <1>3, <4>1, SlotsDistinct
            <4>3. slots'[s][SlotOf(q)] = slots[s][SlotOf(q)]
                BY <1>5, <1>6, <1>7, <2>1, <4>2
            <4>4. slots[s][SlotOf(q)].hi = log[s][q + 1]
                BY <1>2, <2>5, <3>3 DEF Held, At
            <4> QED
                BY <3>1, <4>3, <4>4
        <3> QED
            BY <3>2, <3>3
    <2>6. Held'
        <3> SUFFICES ASSUME NEW t \in Streams, NEW q \in Nat, q < Len(log[t]), Len(log[t]) <= q + Capacity
                     PROVE  /\ slots'[t][SlotOf(q)].lo = log[t][q + 1]
                            /\ ~(wpc'[t] = "hi" /\ q = write_seq[t]) =>
                                  slots'[t][SlotOf(q)].hi = log[t][q + 1]
            BY <2>1 DEF Held, At, SlotOf
        <3>1. CASE t = s
            BY <2>5, <3>1
        <3>2. CASE t # s
            BY <1>2, <2>3, <3>2 DEF Held, At
        <3> QED
            BY <3>1, <3>2
    <2> QED
        BY <2>4, <2>6 DEF RingInv
<1>13. CASE PushStore(s)
    <2>1. /\ wpc[s] = "store" /\ wpc' = [wpc EXCEPT ![s] = "idle"]
          /\ write_seq' = [write_seq EXCEPT ![s] = write_seq[s] + 1]
          /\ UNCHANGED <<slots, sent, log>>
        BY <1>13 DEF PushStore
    <2>2. HeadLogged'
        BY <1>2, <1>3, <1>8, <2>1 DEF HeadLogged
    <2>3. WriteLogged' /\ LogSent'
        BY <1>2, <1>8, <2>1 DEF WriteLogged, LogSent
    <2>4. Held'
        BY <1>2, <1>8, <2>1 DEF Held, At, SlotOf
    <2> QED
        BY <2>2, <2>3, <2>4 DEF RingInv
<1> QED
    BY <1>9, <1>10, <1>11, <1>12, <1>13 DEF Push

\* Every step keeps the newest events in the slots.
LEMMA RingStep == TypeInv /\ RingInv /\ [Next]_vars => RingInv'
<1> SUFFICES ASSUME TypeInv, RingInv, [Next]_vars PROVE RingInv'
    OBVIOUS
<1>1. ASSUME NEW s \in Streams, EnsureStream(s) PROVE RingInv'
    BY <1>1, RingKept DEF EnsureStream, writerVars
<1>2. ASSUME NEW x \in Scripts, RegisterScript(x) PROVE RingInv'
    BY <1>2, RingKept DEF RegisterScript, writerVars
<1>3. ASSUME NEW x \in Scripts, Script(x) PROVE UNCHANGED <<rings, slots, write_seq, writerVars>>
    BY <1>3 DEF Script, Dispatch, SkipStream, BoundCount, BoundTime, ReadLo, Walk, BeginRead, ReadHi,
                EndRead, KeepWriters
<1>4. ASSUME NEW x \in Scripts, Script(x) PROVE RingInv'
    BY <1>3, <1>4, RingKept DEF writerVars
<1>5. CASE UNCHANGED vars
    BY <1>5, RingKept DEF vars, ringVars, writerVars
<1> QED
    BY <1>1, <1>2, <1>4, <1>5, RingPush DEF Next

-----------------------------------------------------------------------------
(* What the scripts read.                                                  *)

\* What the worker of x has, one by one.
LEMMA ScriptKinds ==
    ASSUME TypeOK, NEW x \in Scripts
    PROVE  /\ cur[x] \in Streams /\ got[x] \in Events
           /\ \A s \in Streams :
                 /\ view[x][s].begin \in Nat /\ view[x][s].end \in Nat
                 /\ input[x][s] \in Seq(Slots) /\ Len(input[x][s]) \in Nat
                 /\ Size(view[x][s]) \in Nat /\ ReadSeq(x, s) \in Nat
<1>1. cur[x] \in Streams /\ got[x] \in Events
    BY DEF TypeOK
<1>2. view \in [Scripts -> [Streams -> [begin : Nat, end : Nat]]]
    BY DEF TypeOK
<1>3. input \in [Scripts -> [Streams -> Seq(Slots)]]
    BY DEF TypeOK, Slots
<1>4. ASSUME NEW s \in Streams
      PROVE  /\ view[x][s].begin \in Nat /\ view[x][s].end \in Nat
             /\ input[x][s] \in Seq(Slots) /\ Len(input[x][s]) \in Nat
    BY <1>2, <1>3
<1>5. ASSUME NEW s \in Streams
      PROVE  Size(view[x][s]) \in Nat /\ ReadSeq(x, s) \in Nat
    BY <1>4 DEF Size, ReadSeq
<1> QED
    BY <1>1, <1>4, <1>5

\* Nothing that was pushed is taken back, and no drop is forgotten.
Grown ==
    \A s \in Streams :
        /\ write_seq[s] <= write_seq'[s]
        /\ Len(log[s]) <= Len(log'[s])
        /\ \A i \in 1..Len(log[s]) : log'[s][i] = log[s][i]
        /\ dropped[s] \subseteq dropped'[s]

LEMMA GrownKept == TypeOK /\ UNCHANGED <<write_seq, log, dropped>> => Grown
BY WriterKinds DEF Grown

\* Every step of a writer lets the log grow, and leaves the scripts alone.
LEMMA PushGrows ==
    ASSUME TypeInv, NEW s \in Streams, Push(s)
    PROVE  Grown /\ UNCHANGED <<rings, positions, scriptVars>>
<1>1. TypeOK /\ InPush
    BY DEF TypeInv
<1>2. CASE (\E ts \in 0..MaxTs : PushLookup(s, ts)) \/ PushMin(s) \/ PushWriteHi(s)
    <2>1. UNCHANGED <<rings, positions, scriptVars, write_seq, log, dropped>>
        BY <1>2 DEF PushLookup, PushMin, PushWriteHi, ringVars
    <2> QED
        BY <1>1, <2>1, GrownKept
<1>3. CASE PushWriteLo(s)
    <2> DEFINE e == sent[s][Len(sent[s])]
    <2>1. /\ log' = [log EXCEPT ![s] = Append(log[s], e)]
          /\ dropped' = [dropped EXCEPT ![s] = IF CanWrite(s) THEN dropped[s] ELSE dropped[s] \cup {write_seq[s]}]
          /\ UNCHANGED <<rings, write_seq, positions, scriptVars>>
        BY <1>3 DEF PushWriteLo
    <2>2. e \in Events
        BY <1>1, <1>3, WriterKinds DEF PushWriteLo, InPush
    <2> HIDE DEF e
    <2>3. log \in [Streams -> Seq(Events)] /\ dropped \in [Streams -> SUBSET Nat]
        BY <1>1 DEF TypeOK
    <2>4. ASSUME NEW t \in Streams
          PROVE  /\ Len(log[t]) <= Len(log'[t])
                 /\ \A i \in 1..Len(log[t]) : log'[t][i] = log[t][i]
        <3>1. CASE t = s
            BY <2>1, <2>2, <2>3, <3>1
        <3>2. CASE t # s
            BY <2>1, <2>3, <3>2
        <3> QED
            BY <3>1, <3>2
    <2>5. \A t \in Streams : dropped[t] \subseteq dropped'[t]
        BY <2>1, <2>3
    <2> QED
        BY <1>1, <2>1, <2>4, <2>5, WriterKinds DEF Grown
<1>4. CASE PushStore(s)
    <2>1. /\ write_seq' = [write_seq EXCEPT ![s] = write_seq[s] + 1]
          /\ UNCHANGED <<rings, positions, scriptVars, log, dropped>>
        BY <1>4 DEF PushStore
    <2>2. write_seq \in [Streams -> Nat]
        BY <1>1 DEF TypeOK
    <2> QED
        BY <1>1, <2>1, <2>2, WriterKinds DEF Grown
<1> QED
    BY <1>2, <1>3, <1>4 DEF Push

\* A head that was loaded is in the log.
LEMMA HeadInLog ==
    ASSUME TypeOK, HeadLogged, NEW s \in Streams
    PROVE  write_seq[s] <= Len(log[s]) /\ Len(log[s]) <= write_seq[s] + 1
BY WriterKinds DEF HeadLogged

\* A script that takes no step is not disturbed by what the others do.
LEMMA ReadKept ==
    ASSUME TypeOK, TypeOK', HeadLogged, Grown, rings \subseteq rings',
           NEW x \in Scripts, ViewOf(x), CopyOf(x),
           pc'[x] = pc[x], cur'[x] = cur[x], view'[x] = view[x], got'[x] = got[x], input'[x] = input[x]
    PROVE  ViewOf(x)' /\ CopyOf(x)'
<1>1. /\ cur[x] \in Streams
      /\ \A s \in Streams :
            /\ view[x][s].begin \in Nat /\ view[x][s].end \in Nat
            /\ Len(input[x][s]) \in Nat /\ Size(view[x][s]) \in Nat
            /\ ReadSeq(x, s) = view[x][s].begin + Len(input[x][s])
    BY ScriptKinds DEF ReadSeq
<1>2. \A s \in Streams : /\ write_seq[s] \in Nat /\ Len(log[s]) \in Nat /\ write_seq[s] <= Len(log[s])
    BY WriterKinds, HeadInLog
<1>3. \A s \in Streams : write_seq'[s] \in Nat /\ Len(log'[s]) \in Nat
    <2>1. write_seq' \in [Streams -> Nat] /\ log' \in [Streams -> Seq(Events)]
        BY DEF TypeOK
    <2> QED
        BY <2>1
<1>4. Capacity \in Nat
    BY CapacityAssumption
<1>5. ViewOf(x)'
    <2>1. ASSUME NEW s \in Streams PROVE view[x][s].end <= write_seq'[s]
        <3>1. view[x][s].end <= write_seq[s]
            BY DEF ViewOf
        <3>2. write_seq[s] <= write_seq'[s]
            BY DEF Grown
        <3> QED
            BY <1>1, <1>2, <1>3, <3>1, <3>2
    <2>2. \A s \in Streams : s \notin Viewed(x)' => s \notin Viewed(x)
        BY DEF Viewed
    <2> QED
        BY <2>1, <2>2 DEF ViewOf
<1>6. \A s \in Streams : Unlapped(x, s)' => Unlapped(x, s)
    BY <1>1, <1>2, <1>3, <1>4 DEF Unlapped, Grown
<1>7. \A s \in Streams : \A i \in 1..Size(view[x][s]) :
          /\ view[x][s].begin + i \in 1..Len(log[s])
          /\ log'[s][view[x][s].begin + i] = log[s][view[x][s].begin + i]
    <2> TAKE s \in Streams
    <2> TAKE i \in 1..Size(view[x][s])
    <2>1. /\ view[x][s].begin \in Nat /\ view[x][s].end \in Nat
          /\ view[x][s].begin <= view[x][s].end /\ view[x][s].end <= Len(log[s])
        BY <1>1, <1>2 DEF ViewOf
    <2>2. view[x][s].begin + i \in 1..Len(log[s])
        <3>1. \A b, e, l \in Nat : b <= e /\ e <= l => \A j \in 1..(e - b) : b + j \in 1..l
            OBVIOUS
        <3>2. i \in 1..(view[x][s].end - view[x][s].begin)
            BY DEF Size
        <3> QED
            BY <1>2, <2>1, <3>1, <3>2
    <2>3. \A j \in 1..Len(log[s]) : log'[s][j] = log[s][j]
        BY DEF Grown
    <2> QED
        BY <2>2, <2>3
<1>8. ASSUME NEW s \in Streams, Unlapped(x, s)', NEW i \in 1..Len(input[x][s])
      PROVE  input[x][s][i] = Whole(log'[s][view[x][s].begin + i])
    <2>1. i \in 1..Size(view[x][s])
        <3>1. Len(input[x][s]) <= Size(view[x][s])
            BY DEF CopyOf
        <3> QED
            BY <1>1, <3>1
    <2> QED
        BY <1>6, <1>7, <1>8, <2>1 DEF CopyOf
<1>9. ASSUME pc[x] = "read_hi", Unlapped(x, cur[x])'
      PROVE  got[x] = log'[cur[x]][ReadSeq(x, cur[x]) + 1]
    <2>1. Len(input[x][cur[x]]) + 1 \in 1..Size(view[x][cur[x]])
        <3>1. Len(input[x][cur[x]]) < Size(view[x][cur[x]])
            BY <1>9 DEF CopyOf
        <3> QED
            BY <1>1, <3>1
    <2>2. Unlapped(x, cur[x])
        BY <1>1, <1>6, <1>9
    <2>3. got[x] = log[cur[x]][ReadSeq(x, cur[x]) + 1]
        BY <1>9, <2>2 DEF CopyOf
    <2>4. ReadSeq(x, cur[x]) + 1 = view[x][cur[x]].begin + (Len(input[x][cur[x]]) + 1)
        <3>1. view[x][cur[x]].begin \in Nat /\ Len(input[x][cur[x]]) \in Nat
            BY <1>1
        <3>2. \A b, l \in Nat : (b + l) + 1 = b + (l + 1)
            OBVIOUS
        <3> QED
            BY <3>1, <3>2 DEF ReadSeq
    <2> QED
        BY <1>1, <1>7, <2>1, <2>3, <2>4
<1>10. CopyOf(x)'
    <2>1. \A s \in Streams : Unlapped(x, s)' <=> Len(log'[s]) <= view[x][s].begin + Capacity
        BY DEF Unlapped
    <2> QED
        BY <1>1, <1>8, <1>9, <2>1 DEF CopyOf, Unlapped, ReadSeq, Size
<1> QED
    BY <1>5, <1>10

\* Before the first event is read, nothing is copied.
LEMMA NoCopy ==
    ASSUME TypeOK', NEW x \in Scripts, input'[x] = NoInput, pc'[x] # "read_hi"
    PROVE  CopyOf(x)'
<1>1. \A s \in Streams : view'[x][s].begin \in Nat /\ view'[x][s].end \in Nat
    <2>1. view' \in [Scripts -> [Streams -> [begin : Nat, end : Nat]]]
        BY DEF TypeOK
    <2> QED
        BY <2>1
<1>2. \A s \in Streams : Size(view'[x][s]) \in Nat
    BY <1>1 DEF Size
<1>3. \A s \in Streams : input'[x][s] = <<>>
    BY DEF NoInput
<1> QED
    BY <1>2, <1>3 DEF CopyOf, Size

\* A script reads what its window promised, one word after the other.
LEMMA ReadScript ==
    ASSUME TypeInv, TypeOK', RingInv, NEW x \in Scripts, ViewOf(x), CopyOf(x), Script(x)
    PROVE  ViewOf(x)' /\ CopyOf(x)'
<1>1. TypeOK /\ HeadLogged /\ Held /\ InDispatch
    BY DEF TypeInv, RingInv
<1>2. UNCHANGED <<rings, slots, write_seq, writerVars>>
    BY DEF Script, Dispatch, SkipStream, BoundCount, BoundTime, ReadLo, Walk, BeginRead, ReadHi,
           EndRead, KeepWriters
<1>3. /\ cur[x] \in Streams /\ got[x] \in Events
      /\ \A s \in Streams :
            /\ view[x][s].begin \in Nat /\ view[x][s].end \in Nat
            /\ input[x][s] \in Seq(Slots) /\ Len(input[x][s]) \in Nat
            /\ Size(view[x][s]) \in Nat /\ ReadSeq(x, s) \in Nat
    BY <1>1, ScriptKinds
<1>4. \A s \in Streams :
         /\ write_seq[s] \in Nat /\ Len(log[s]) \in Nat /\ write_seq[s] <= Len(log[s])
         /\ wpc[s] = "hi" => Len(log[s]) = write_seq[s] + 1
    BY <1>1, WriterKinds, HeadInLog DEF HeadLogged
<1>5. pc \in [Scripts -> {"idle", "bound", "walk", "begin_read", "read", "read_hi"}]
    BY <1>1 DEF TypeOK
<1>6. view \in [Scripts -> [Streams -> [begin : Nat, end : Nat]]]
    BY <1>1 DEF TypeOK
<1>7. Capacity \in Nat
    BY CapacityAssumption
<1>8. ASSUME view'[x] = view[x] PROVE ViewOf(x)'
    BY <1>2, <1>8 DEF ViewOf, Viewed
<1>9. \A s \in Streams : BoundsDone(x, s) => pc'[x] # "read_hi"
    BY <1>5 DEF BoundsDone
<1>10. ASSUME pc[x] \notin {"read", "read_hi"}, pc'[x] # "read_hi", input' = input
       PROVE  CopyOf(x)'
    BY <1>10, NoCopy DEF CopyOf
<1>11. CASE Dispatch(x)
    <2>1. view' = view /\ input' = input /\ pc[x] = "idle" /\ pc'[x] = "bound"
        BY <1>5, <1>11 DEF Dispatch
    <2> QED
        BY <1>8, <1>10, <2>1
<1>12. ASSUME NEW s \in Streams, SkipStream(x, s) PROVE ViewOf(x)' /\ CopyOf(x)'
    <2>1. view' = view /\ input' = input /\ pc[x] = "bound" /\ pc'[x] # "read_hi"
        BY <1>9, <1>12 DEF SkipStream
    <2> QED
        BY <1>8, <1>10, <2>1
<1>13. ASSUME NEW s \in Streams, s \in Viewed(x), NEW v, v.begin <= v.end, v.end <= write_seq[s],
              view' = [view EXCEPT ![x][s] = v]
       PROVE  ViewOf(x)'
    <2>1. view'[x][s] = v /\ \A t \in Streams : t # s => view'[x][t] = view[x][t]
        BY <1>6, <1>13
    <2> QED
        BY <1>2, <1>13, <2>1 DEF ViewOf, Viewed
<1>14. ASSUME NEW s \in Streams, BoundCount(x, s) PROVE ViewOf(x)' /\ CopyOf(x)'
    <2>1. s \in Viewed(x) /\ Windows[x][s].n \in Nat
        BY <1>1, <1>14, WindowAssumption DEF BoundCount, InDispatch, Viewed
    <2>2. CountBegin(write_seq[s], Windows[x][s].n) <= write_seq[s]
        BY <1>4, <2>1, CountBeginIs
    <2>3. ViewOf(x)'
        <3> DEFINE v == [begin |-> CountBegin(write_seq[s], Windows[x][s].n), end |-> write_seq[s]]
        <3>1. view' = [view EXCEPT ![x][s] = v]
            BY <1>14 DEF BoundCount
        <3>2. v.begin <= v.end /\ v.end <= write_seq[s]
            BY <1>4, <2>2
        <3> HIDE DEF v
        <3> QED
            BY <1>13, <2>1, <3>1, <3>2
    <2>4. input' = input /\ pc[x] = "bound" /\ pc'[x] # "read_hi"
        BY <1>9, <1>14 DEF BoundCount
    <2> QED
        BY <1>10, <2>3, <2>4
<1>15. ASSUME NEW s \in Streams, BoundTime(x, s) PROVE ViewOf(x)' /\ CopyOf(x)'
    <2>1. s \in Viewed(x)
        BY <1>1, <1>15 DEF BoundTime, InDispatch, Viewed
    <2>2. ViewOf(x)'
        <3> DEFINE v == [begin |-> write_seq[s], end |-> write_seq[s]]
        <3>1. view' = [view EXCEPT ![x][s] = v]
            BY <1>15 DEF BoundTime
        <3>2. v.begin <= v.end /\ v.end <= write_seq[s]
            BY <1>4
        <3> HIDE DEF v
        <3> QED
            BY <1>13, <2>1, <3>1, <3>2
    <2>3. input' = input /\ pc[x] = "bound" /\ pc'[x] # "read_hi"
        BY <1>5, <1>15 DEF BoundTime
    <2> QED
        BY <1>10, <2>2, <2>3
<1>16. CASE Walk(x)
    <2>1. input' = input /\ pc[x] = "walk" /\ pc'[x] # "read_hi"
        BY <1>3, <1>9, <1>16 DEF Walk
    <2>2. CASE InWindow(x, cur[x])
        <3> DEFINE v == [view[x][cur[x]] EXCEPT !.begin = view[x][cur[x]].begin - 1]
        <3>1. view' = [view EXCEPT ![x][cur[x]] = v] /\ view[x][cur[x]].begin > 0
            BY <1>16, <2>2 DEF Walk, InWindow
        <3>2. view[x][cur[x]] \in [begin : Nat, end : Nat]
            BY <1>3, <1>6
        <3>3. v.begin = view[x][cur[x]].begin - 1 /\ v.end = view[x][cur[x]].end
            BY <3>2
        <3>4. v.begin <= v.end /\ v.end <= write_seq[cur[x]]
            BY <1>3, <3>3 DEF ViewOf
        <3>5. cur[x] \in Viewed(x)
            BY <1>3, <3>1 DEF ViewOf, NoView
        <3> HIDE DEF v
        <3>6. ViewOf(x)'
            BY <1>3, <1>13, <3>1, <3>4, <3>5
        <3> QED
            BY <1>10, <2>1, <3>6
    <2>3. CASE ~InWindow(x, cur[x])
        <3>1. view' = view
            BY <1>16, <2>3 DEF Walk
        <3> QED
            BY <1>8, <1>10, <2>1, <3>1
    <2> QED
        BY <2>2, <2>3
<1>17. CASE BeginRead(x)
    <2>1. view' = view /\ input' = input /\ pc[x] = "begin_read" /\ pc'[x] = "read"
        BY <1>5, <1>17 DEF BeginRead
    <2> QED
        BY <1>8, <1>10, <2>1
<1>18. ASSUME NEW s \in Streams, s \in Viewed(x), Len(input[x][s]) < Size(view[x][s]), Unlapped(x, s)
       PROVE  LET w == log[s][ReadSeq(x, s) + 1]
              IN  At(s, ReadSeq(x, s)).lo = w /\ At(s, ReadSeq(x, s)).hi = w
    <2> DEFINE q == ReadSeq(x, s)
    <2>1. q \in Nat /\ view[x][s].begin <= q /\ q < view[x][s].end /\ view[x][s].end <= write_seq[s]
        <3>1. view[x][s].begin <= view[x][s].end /\ view[x][s].end <= write_seq[s]
            BY DEF ViewOf
        <3>2. /\ view[x][s].begin \in Nat /\ view[x][s].end \in Nat /\ Len(input[x][s]) \in Nat
              /\ q = view[x][s].begin + Len(input[x][s])
            BY <1>3 DEF ReadSeq
        <3>3. Len(input[x][s]) < view[x][s].end - view[x][s].begin
            BY <1>18 DEF Size
        <3> HIDE DEF q
        <3>4. \A b, e, l \in Nat : l < e - b => b + l \in Nat /\ b <= b + l /\ b + l < e
            OBVIOUS
        <3> QED
            BY <3>1, <3>2, <3>3, <3>4
    <2> HIDE DEF q
    <2>2. q < Len(log[s]) /\ Len(log[s]) <= q + Capacity /\ q # write_seq[s]
        <3>1. /\ view[x][s].begin \in Nat /\ view[x][s].end \in Nat
              /\ write_seq[s] \in Nat /\ Len(log[s]) \in Nat /\ write_seq[s] <= Len(log[s])
            BY <1>3, <1>4
        <3>2. Len(log[s]) <= view[x][s].begin + Capacity
            BY <1>18 DEF Unlapped
        <3>3. \A b, e, w, l \in Nat :
                  b <= q /\ q < e /\ e <= w /\ w <= l /\ l <= b + Capacity =>
                      q < l /\ l <= q + Capacity /\ q # w
            BY <1>7, <2>1
        <3> QED
            BY <2>1, <3>1, <3>2, <3>3
    <2>3. At(s, q).lo = log[s][q + 1] /\ At(s, q).hi = log[s][q + 1]
        BY <1>1, <2>1, <2>2 DEF Held
    <2> QED
        BY <2>3 DEF q
<1>19. ASSUME NEW s \in Streams, ReadLo(x, s) PROVE ViewOf(x)' /\ CopyOf(x)'
    <2>1. /\ view' = view /\ input' = input /\ cur'[x] = s /\ got'[x] = At(s, ReadSeq(x, s)).lo
          /\ pc[x] = "read" /\ pc'[x] = "read_hi" /\ s \in Unread(x)
        <3>1. cur \in [Scripts -> Streams] /\ got \in [Scripts -> Events]
            BY <1>1 DEF TypeOK
        <3> QED
            BY <1>5, <1>19, <3>1 DEF ReadLo
    <2>2. s \in Viewed(x) /\ Len(input[x][s]) < Size(view[x][s])
        BY <2>1 DEF Unread
    <2>3. Unlapped(x, s) => got'[x] = log[s][ReadSeq(x, s) + 1]
        BY <1>18, <2>1, <2>2
    <2>4. CopyOf(x)'
        BY <1>2, <2>1, <2>2, <2>3 DEF CopyOf, writerVars, Unlapped, ReadSeq, Size
    <2> QED
        BY <1>8, <2>1, <2>4
<1>20. CASE ReadHi(x)
    <2> DEFINE s == cur[x]
               c == [lo |-> got[x], hi |-> At(s, ReadSeq(x, s)).hi]
    <2>1. /\ view' = view /\ input' = [input EXCEPT ![x][s] = Append(input[x][s], c)]
          /\ pc[x] = "read_hi" /\ pc'[x] = "read"
        BY <1>5, <1>20 DEF ReadHi
    <2>2. s \in Streams /\ Len(input[x][s]) < Size(view[x][s])
        BY <1>3, <2>1 DEF CopyOf
    <2>3. s \in Viewed(x)
        BY <1>3, <2>2 DEF ViewOf, NoView, Size
    <2>4. c \in Slots
        BY <1>1, <1>3, <2>2, AtIs DEF Slots
    <2>5. ASSUME Unlapped(x, s) PROVE c = Whole(log[s][ReadSeq(x, s) + 1])
        BY <1>18, <2>1, <2>2, <2>3, <2>5 DEF CopyOf, Whole
    <2> HIDE DEF s, c
    <2>6. /\ input'[x][s] = Append(input[x][s], c)
          /\ \A t \in Streams : t # s => input'[x][t] = input[x][t]
        <3>1. input \in [Scripts -> [Streams -> Seq(Slots)]]
            BY <1>1 DEF TypeOK, Slots
        <3> QED
            BY <2>1, <2>2, <3>1
    <2>7. /\ Len(input'[x][s]) = Len(input[x][s]) + 1
          /\ input'[x][s][Len(input[x][s]) + 1] = c
          /\ \A i \in 1..Len(input[x][s]) : input'[x][s][i] = input[x][s][i]
        BY <1>3, <2>2, <2>4, <2>6
    <2>8. Len(input'[x][s]) <= Size(view[x][s])
        BY <1>3, <2>2, <2>7
    <2>9. ASSUME Unlapped(x, s), NEW i \in 1..Len(input'[x][s])
          PROVE  input'[x][s][i] = Whole(log[s][view[x][s].begin + i])
        <3>1. CASE i = Len(input[x][s]) + 1
            <4>1. ReadSeq(x, s) + 1 = view[x][s].begin + i
                <5>1. \A b, l \in Nat : (b + l) + 1 = b + (l + 1)
                    OBVIOUS
                <5> QED
                    BY <1>3, <2>2, <3>1, <5>1 DEF ReadSeq
            <4> QED
                BY <2>5, <2>7, <2>9, <3>1, <4>1
        <3>2. CASE i # Len(input[x][s]) + 1
            <4>1. i \in 1..Len(input[x][s])
                BY <1>3, <2>2, <2>7, <2>9, <3>2
            <4> QED
                BY <2>2, <2>7, <2>9, <4>1 DEF CopyOf
        <3> QED
            BY <3>1, <3>2
    <2>10. \A t \in Streams : Unlapped(x, t)' <=> Unlapped(x, t)
        BY <1>2, <2>1 DEF Unlapped, writerVars
    <2>11. CopyOf(x)'
        BY <1>2, <2>1, <2>6, <2>8, <2>9, <2>10 DEF CopyOf, writerVars
    <2> QED
        BY <1>8, <2>1, <2>11
<1>21. CASE EndRead(x)
    <2>1. view'[x] = NoViews /\ input'[x] = NoInput /\ pc'[x] = "idle"
        <3>1. input \in [Scripts -> [Streams -> Seq(Slots)]]
            BY <1>1 DEF TypeOK, Slots
        <3> QED
            BY <1>5, <1>6, <1>21, <3>1 DEF EndRead
    <2>2. ViewOf(x)'
        BY <1>2, <1>4, <2>1 DEF ViewOf, NoViews, NoView
    <2> QED
        BY <2>1, <2>2, NoCopy
<1> QED
    BY <1>11, <1>12, <1>14, <1>15, <1>16, <1>17, <1>19, <1>20, <1>21 DEF Script

\* A step of one script leaves the others where they are.
LEMMA OthersKept ==
    ASSUME TypeOK, NEW x \in Scripts, NEW y \in Scripts, y # x, Script(x)
    PROVE  /\ idx' = idx
           /\ pc'[y] = pc[y] /\ trigger'[y] = trigger[y] /\ todo'[y] = todo[y]
           /\ cur'[y] = cur[y] /\ view'[y] = view[y] /\ got'[y] = got[y] /\ input'[y] = input[y]
<1>1. /\ pc \in [Scripts -> {"idle", "bound", "walk", "begin_read", "read", "read_hi"}]
      /\ trigger \in [Scripts -> Events] /\ todo \in [Scripts -> SUBSET Streams]
      /\ cur \in [Scripts -> Streams] /\ got \in [Scripts -> Events]
    BY DEF TypeOK
<1>2. view \in [Scripts -> [Streams -> [begin : Nat, end : Nat]]]
    BY DEF TypeOK
<1>3. input \in [Scripts -> [Streams -> Seq(Slots)]]
    BY DEF TypeOK, Slots
<1>4. CASE Dispatch(x)
    BY <1>1, <1>4 DEF Dispatch
<1>5. CASE \E s \in Streams : SkipStream(x, s) \/ BoundCount(x, s) \/ BoundTime(x, s)
    BY <1>1, <1>2, <1>5 DEF SkipStream, BoundCount, BoundTime, BoundsDone
<1>6. CASE Walk(x)
    BY <1>1, <1>2, <1>6 DEF Walk, BoundsDone
<1>7. CASE BeginRead(x) \/ \E s \in Streams : ReadLo(x, s)
    BY <1>1, <1>7 DEF BeginRead, ReadLo
<1>8. CASE ReadHi(x)
    BY <1>1, <1>3, <1>8 DEF ReadHi
<1>9. CASE EndRead(x)
    BY <1>1, <1>2, <1>3, <1>9 DEF EndRead
<1> QED
    BY <1>4, <1>5, <1>6, <1>7, <1>8, <1>9 DEF Script

\* Only push() touches what the rings hold.
LEMMA OnlyPushGrows ==
    ASSUME TypeInv, [Next]_vars
    PROVE  Grown /\ rings \subseteq rings'
<1>1. TypeOK
    BY DEF TypeInv
<1>2. ASSUME NEW s \in Streams, EnsureStream(s) PROVE Grown /\ rings \subseteq rings'
    BY <1>1, <1>2, GrownKept DEF EnsureStream, writerVars
<1>3. ASSUME NEW x \in Scripts, RegisterScript(x) PROVE Grown /\ rings \subseteq rings'
    BY <1>1, <1>3, GrownKept DEF RegisterScript, writerVars
<1>4. ASSUME NEW x \in Scripts, Script(x) PROVE Grown /\ rings \subseteq rings'
    <2>1. UNCHANGED <<rings, write_seq, writerVars>>
        BY <1>4 DEF Script, Dispatch, SkipStream, BoundCount, BoundTime, ReadLo, Walk, BeginRead, ReadHi,
                    EndRead, KeepWriters
    <2> QED
        BY <1>1, <2>1, GrownKept DEF writerVars
<1>5. CASE UNCHANGED vars
    BY <1>1, <1>5, GrownKept DEF vars, ringVars, writerVars
<1> QED
    BY <1>2, <1>3, <1>4, <1>5, PushGrows DEF Next

\* Initially nothing is read.
LEMMA ReadInit == Init => ReadInv
<1> SUFFICES ASSUME Init, NEW x \in Scripts PROVE ViewOf(x) /\ CopyOf(x)
    BY DEF ReadInv
<1>1. ViewOf(x)
    BY DEF Init, ViewOf, NoViews, NoView
<1>2. CopyOf(x)
    BY DEF Init, CopyOf, NoInput, NoViews, NoView, Size
<1> QED
    BY <1>1, <1>2

\* Every step keeps what the scripts have read.
LEMMA ReadStep == TypeInv /\ RingInv /\ ReadInv /\ [Next]_vars => ReadInv'
<1> SUFFICES ASSUME TypeInv, RingInv, ReadInv, [Next]_vars, NEW x \in Scripts
             PROVE  ViewOf(x)' /\ CopyOf(x)'
    BY DEF ReadInv
<1>1. TypeOK /\ TypeOK' /\ HeadLogged /\ Grown /\ rings \subseteq rings'
    BY TypeStep, OnlyPushGrows DEF TypeInv, RingInv
<1>2. ViewOf(x) /\ CopyOf(x)
    BY DEF ReadInv
<1>3. CASE UNCHANGED <<pc, cur, view, got, input>>
    BY <1>1, <1>2, <1>3, ReadKept
<1>4. ASSUME NEW y \in Scripts, Script(y) PROVE ViewOf(x)' /\ CopyOf(x)'
    <2>1. CASE y = x
        BY <1>1, <1>2, <1>4, <2>1, ReadScript
    <2>2. CASE y # x
        BY <1>1, <1>2, <1>4, <2>2, OthersKept, ReadKept
    <2> QED
        BY <2>1, <2>2
<1>5. ASSUME NEW s \in Streams, EnsureStream(s) \/ Push(s) PROVE UNCHANGED <<pc, cur, view, got, input>>
    BY <1>5, PushGrows DEF EnsureStream, scriptVars
<1>6. ASSUME NEW y \in Scripts, RegisterScript(y) PROVE UNCHANGED <<pc, cur, view, got, input>>
    BY <1>6 DEF RegisterScript
<1>7. UNCHANGED vars => UNCHANGED <<pc, cur, view, got, input>>
    BY DEF vars, scriptVars
<1> QED
    BY <1>3, <1>4, <1>5, <1>6, <1>7 DEF Next

\* A script that has read its windows to their ends has what was pushed.
LEMMA ReadIntact == TypeInv /\ ReadInv => InputIntact
<1> SUFFICES ASSUME TypeInv, ReadInv, NEW x \in Scripts, NEW s \in Streams, Invoked(x), Unlapped(x, s)
             PROVE  Intact(x, s)
    BY DEF InputIntact
<1>1. TypeOK /\ ViewOf(x) /\ CopyOf(x)
    BY DEF TypeInv, ReadInv
<1>2. /\ view[x][s].begin \in Nat /\ view[x][s].end \in Nat /\ view[x][s].begin <= view[x][s].end
      /\ input[x][s] \in Seq(Slots) /\ Len(input[x][s]) \in Nat
    BY <1>1, ScriptKinds DEF ViewOf
<1>3. Len(input[x][s]) = view[x][s].end - view[x][s].begin
    <2>1. Size(view[x][s]) = view[x][s].end - view[x][s].begin
        BY <1>2 DEF Size
    <2>2. Len(input[x][s]) <= Size(view[x][s])
        BY <1>1 DEF CopyOf
    <2>3. CASE s \in Viewed(x)
        <3>1. s \notin Unread(x)
            BY DEF Invoked
        <3>2. ~(Len(input[x][s]) < Size(view[x][s]))
            BY <2>3, <3>1 DEF Unread
        <3>3. \A l, z \in Nat : l <= z /\ ~(l < z) => l = z
            OBVIOUS
        <3>4. Size(view[x][s]) \in Nat
            BY <1>1, ScriptKinds
        <3> QED
            BY <1>2, <2>1, <2>2, <3>2, <3>3, <3>4
    <2>4. CASE s \notin Viewed(x)
        BY <1>1, <1>2, <2>1, <2>2, <2>4 DEF ViewOf, NoView
    <2> QED
        BY <2>3, <2>4
<1>4. \A i \in 1..Len(input[x][s]) : input[x][s][i] = Whole(log[s][view[x][s].begin + i])
    BY <1>1 DEF CopyOf
<1>5. input[x][s] = [i \in 1..Len(input[x][s]) |-> input[x][s][i]]
    BY <1>2
<1> QED
    BY <1>3, <1>4, <1>5 DEF Intact

\* What a script is given, from the ring or as a snapshot, is what was pushed, unless
\* a writer came round to its window.
THEOREM InputCorrect == Spec => []InputIntact
<1>1. Init => TypeInv /\ RingInv /\ ReadInv
    BY TypeInit, RingInit, ReadInit
<1>2. TypeInv /\ RingInv /\ ReadInv /\ [Next]_vars => TypeInv' /\ RingInv' /\ ReadInv'
    BY TypeStep, RingStep, ReadStep
<1> QED
    BY <1>1, <1>2, ReadIntact, PTL DEF Spec

-----------------------------------------------------------------------------
(* Windows of time.                                                        *)

\* The walk goes on while it is above the begin of the window and stops there,
\* because the slots down to the event before it are those that were written.
LEMMA WalkSound ==
    ASSUME TypeOK, HeadLogged, Held, NEW x \in Scripts, ViewOf(x), NEW s \in Viewed(x), s \in Streams,
           NEW b \in 0..view[x][s].end, Begins(x, s, b), b <= view[x][s].begin
    PROVE  /\ InWindow(x, s) => b <= view[x][s].begin - 1
           /\ ~InWindow(x, s) => view[x][s].begin = b
<1> DEFINE v == view[x][s]
           cutoff == Cutoff(trigger[x].ts, Windows[x][s].n)
<1>1. v.begin \in Nat /\ v.end \in Nat /\ v.begin <= v.end /\ v.end <= Len(log[s])
    <2>1. v.begin \in Nat /\ v.end \in Nat
        BY ScriptKinds
    <2>2. v.begin <= v.end /\ v.end <= write_seq[s]
        BY DEF ViewOf
    <2>3. write_seq[s] \in Nat /\ Len(log[s]) \in Nat /\ write_seq[s] <= Len(log[s])
        BY WriterKinds, HeadInLog
    <2> QED
        BY <2>1, <2>2, <2>3
<1>2. b \in Nat /\ Len(log[s]) \in Nat /\ Capacity \in Nat
    BY <1>1, WriterKinds, CapacityAssumption
<1>3. b = 0 => Len(log[s]) <= Capacity
    BY DEF Begins
<1>4. b > 0 => Len(log[s]) < b + Capacity
    BY DEF Begins
<1>5. InWindow(x, s) <=> v.begin > 0 /\ At(s, v.begin - 1).lo.ts >= cutoff
    BY DEF InWindow
<1>6. /\ \A i \in (b + 1)..v.end : log[s][i].ts >= cutoff
      /\ b > 0 => log[s][b].ts < cutoff
    BY DEF Begins, IsWindow
<1>7. ASSUME v.begin > 0 PROVE At(s, v.begin - 1).lo = log[s][v.begin]
    <2> DEFINE q == v.begin - 1
    <2>1. q \in Nat /\ q < Len(log[s]) /\ q + 1 = v.begin
        BY <1>1, <1>2, <1>7
    <2>2. b <= q + 1
        BY <2>1
    <2> HIDE DEF q, v
    <2>3. Len(log[s]) <= q + Capacity
        <3>1. CASE b = 0
            BY <1>2, <1>3, <2>1, <3>1
        <3>2. CASE b > 0
            BY <1>2, <1>4, <2>1, <2>2, <3>2
        <3> QED
            BY <1>2, <3>1, <3>2
    <2>4. At(s, q).lo = log[s][q + 1]
        BY <2>1, <2>3 DEF Held
    <2> QED
        BY <2>1, <2>4 DEF q
<1>8. cutoff \in Nat /\ \A i \in 1..Len(log[s]) : log[s][i].ts \in Nat
    <2>1. trigger \in [Scripts -> Events] /\ log \in [Streams -> Seq(Events)]
        BY DEF TypeOK
    <2>2. trigger[x].ts \in Nat
        BY <2>1, WindowAssumption DEF Events
    <2>3. ASSUME NEW i \in 1..Len(log[s]) PROVE log[s][i].ts \in Nat
        <3>1. log[s][i] \in Events
            BY <2>1
        <3> QED
            BY <3>1, WindowAssumption DEF Events
    <2>4. Windows[x][s].n \in Nat
        BY WindowAssumption DEF Viewed
    <2> QED
        BY <2>2, <2>3, <2>4, CutoffIs
<1>9. ASSUME InWindow(x, s) PROVE b <= v.begin - 1
    <2>1. SUFFICES ASSUME v.begin = b PROVE FALSE
        BY <1>1, <1>2 DEF v
    <2>2. b > 0 /\ log[s][b].ts >= cutoff
        BY <1>5, <1>7, <1>9, <2>1
    <2>3. b \in 1..Len(log[s])
        BY <1>1, <1>2, <2>1, <2>2
    <2> HIDE DEF cutoff, v
    <2> QED
        BY <1>6, <1>8, <2>2, <2>3
<1>10. ASSUME ~InWindow(x, s) PROVE v.begin = b
    <2>1. SUFFICES ASSUME v.begin > b PROVE FALSE
        BY <1>1, <1>2 DEF v
    <2>2. v.begin > 0 /\ v.begin \in (b + 1)..v.end
        BY <1>1, <1>2, <2>1
    <2>3. log[s][v.begin].ts >= cutoff
        BY <1>6, <2>2
    <2> QED
        BY <1>5, <1>7, <1>10, <2>2, <2>3
<1> QED
    BY <1>9, <1>10

\* What the window of s should be does not change while the log grows, except that
\* the ring may cease to hold it.
LEMMA BeginsKept ==
    ASSUME TypeOK, TypeOK', HeadLogged, Grown, NEW x \in Scripts, ViewOf(x), NEW s \in Streams,
           view'[x][s].end = view[x][s].end, trigger'[x] = trigger[x],
           NEW b \in 0..view[x][s].end, Begins(x, s, b)'
    PROVE  Begins(x, s, b)
<1>1. /\ view[x][s].end \in Nat /\ Len(log[s]) \in Nat /\ view[x][s].end <= Len(log[s])
    <2>1. view[x][s].end \in Nat /\ view[x][s].end <= write_seq[s]
        BY ScriptKinds DEF ViewOf
    <2>2. write_seq[s] \in Nat /\ Len(log[s]) \in Nat /\ write_seq[s] <= Len(log[s])
        BY WriterKinds, HeadInLog
    <2> QED
        BY <2>1, <2>2
<1>2. Len(log'[s]) \in Nat /\ Capacity \in Nat /\ b \in Nat
    <2>1. log' \in [Streams -> Seq(Events)]
        BY DEF TypeOK
    <2> QED
        BY <1>1, <2>1, CapacityAssumption
<1>3. Len(log[s]) <= Len(log'[s]) /\ \A i \in 1..Len(log[s]) : log'[s][i] = log[s][i]
    BY DEF Grown
<1>4. /\ \A i \in (b + 1)..view[x][s].end : log'[s][i].ts >= Cutoff(trigger[x].ts, Windows[x][s].n)
      /\ b > 0 => log'[s][b].ts < Cutoff(trigger[x].ts, Windows[x][s].n)
    BY DEF Begins, IsWindow, Cutoff
<1>5. /\ b = 0 => Len(log'[s]) <= Capacity
      /\ b > 0 => Len(log'[s]) < b + Capacity
    BY DEF Begins
<1>6. (b + 1)..view[x][s].end \subseteq 1..Len(log[s]) /\ (b > 0 => b \in 1..Len(log[s]))
    BY <1>1, <1>2
<1>7. IsWindow(s, b, view[x][s].end, Cutoff(trigger[x].ts, Windows[x][s].n))
    BY <1>3, <1>4, <1>6 DEF IsWindow
<1>8. /\ b = 0 => Len(log[s]) <= Capacity
      /\ b > 0 => Len(log[s]) < b + Capacity
    BY <1>1, <1>2, <1>3, <1>5
<1> QED
    BY <1>7, <1>8 DEF Begins

\* A script that takes no step keeps its windows of time.
LEMMA WalkKept ==
    ASSUME TypeOK, TypeOK', HeadLogged, Grown, NEW x \in Scripts, ViewOf(x), WalkOf(x),
           pc[x] = "idle" \/ rings' = rings,
           pc'[x] = pc[x], cur'[x] = cur[x], view'[x] = view[x], todo'[x] = todo[x], trigger'[x] = trigger[x]
    PROVE  WalkOf(x)'
<1>1. cur[x] \in Streams
    BY ScriptKinds
<1>2. \A s \in Streams : \A b \in 0..view[x][s].end : Begins(x, s, b)' => Begins(x, s, b)
    BY BeginsKept
<1>3. \A s \in Streams : Bound(x, s)' => Bound(x, s)
    BY DEF Bound, Viewed
<1>4. (Reading(x) => todo[x] = {})'
    BY DEF WalkOf, Reading
<1>5. ASSUME pc[x] = "walk" PROVE cur[x] \in todo[x] \cap rings'
    BY <1>5 DEF WalkOf
<1> QED
    BY <1>1, <1>2, <1>3, <1>4, <1>5 DEF WalkOf

\* A script that computes its bounds finds the begin of each window of time.
LEMMA WalkScript ==
    ASSUME TypeInv, TypeOK', RingInv, NEW x \in Scripts, ViewOf(x), WalkOf(x), Script(x)
    PROVE  WalkOf(x)'
<1>1. TypeOK /\ HeadLogged /\ Held /\ InDispatch
    BY DEF TypeInv, RingInv
<1>2. UNCHANGED <<rings, slots, write_seq, writerVars>>
    BY DEF Script, Dispatch, SkipStream, BoundCount, BoundTime, ReadLo, Walk, BeginRead, ReadHi,
           EndRead, KeepWriters
<1>3. Grown
    BY <1>1, <1>2, GrownKept DEF writerVars
<1>4. /\ pc \in [Scripts -> {"idle", "bound", "walk", "begin_read", "read", "read_hi"}]
      /\ todo \in [Scripts -> SUBSET Streams] /\ cur \in [Scripts -> Streams]
    BY <1>1 DEF TypeOK
<1>5. view \in [Scripts -> [Streams -> [begin : Nat, end : Nat]]]
    BY <1>1 DEF TypeOK
<1>6. cur[x] \in Streams /\ \A s \in Streams : view[x][s].begin \in Nat /\ view[x][s].end \in Nat
    BY <1>1, ScriptKinds
<1>7. Viewed(x)' = Viewed(x)
    BY <1>2 DEF Viewed
<1> DEFINE Exact(s) == \A b \in 0..view[x][s].end : Begins(x, s, b) => view[x][s].begin = b
<1>8. ASSUME trigger'[x] = trigger[x], NEW s \in Streams, view'[x][s] = view[x][s], Exact(s)
      PROVE  Exact(s)'
    <2>1. \A b \in 0..view[x][s].end : Begins(x, s, b)' => Begins(x, s, b)
        BY <1>1, <1>3, <1>8, BeginsKept
    <2> QED
        BY <1>8, <2>1
\* The bounds of s are known now, and s is not a window of time or exact.
<1>9. ASSUME trigger'[x] = trigger[x], NEW s \in Streams, BoundsDone(x, s), pc[x] \in {"bound", "walk"},
             \A t \in Streams : t # s => view'[x][t] = view[x][t],
             s \in Viewed(x) /\ Windows[x][s].type = "time" => Exact(s)'
      PROVE  WalkOf(x)'
    <2>1. todo'[x] = todo[x] \ {s}
        BY <1>4, <1>9 DEF BoundsDone
    <2>2. /\ pc'[x] \in {"bound", "begin_read", "read"}
          /\ pc'[x] # "bound" => todo[x] = {s}
        BY <1>4, <1>9 DEF BoundsDone
    <2>3. (Reading(x) => todo[x] = {})'
        BY <2>1, <2>2 DEF Reading
    <2>4. ASSUME NEW t \in Streams, Bound(x, t)', Windows[x][t].type = "time" PROVE Exact(t)'
        <3>1. CASE t = s
            BY <1>7, <1>9, <2>4, <3>1 DEF Bound
        <3>2. CASE t # s
            <4>1. Bound(x, t)
                BY <1>7, <1>9, <2>1, <2>4, <3>2 DEF Bound
            <4> QED
                BY <1>8, <1>9, <2>4, <3>2, <4>1 DEF WalkOf
        <3> QED
            BY <3>1, <3>2
    <2> QED
        BY <2>2, <2>3, <2>4 DEF WalkOf
\* The bounds are known already.
<1>10. ASSUME trigger'[x] = trigger[x], view'[x] = view[x], todo'[x] = todo[x], Reading(x), Reading(x)'
       PROVE  WalkOf(x)'
    <2>1. \A s \in Streams : Bound(x, s)' => Bound(x, s)
        BY <1>7, <1>10 DEF Bound, Reading
    <2>2. ASSUME NEW s \in Streams, Bound(x, s)', Windows[x][s].type = "time" PROVE Exact(s)'
        BY <1>8, <1>10, <2>1, <2>2 DEF WalkOf
    <2> QED
        BY <1>10, <2>2 DEF WalkOf, Reading
<1>11. CASE Dispatch(x)
    <2>1. pc'[x] = "bound" /\ todo'[x] = DOMAIN Windows[x]
        BY <1>4, <1>11 DEF Dispatch
    <2> QED
        BY <2>1 DEF WalkOf, Reading, Bound, Viewed
<1>12. ASSUME NEW s \in Streams, SkipStream(x, s) PROVE WalkOf(x)'
    <2>1. BoundsDone(x, s) /\ pc[x] = "bound" /\ trigger' = trigger /\ view' = view /\ s \notin Viewed(x)
        BY <1>12 DEF SkipStream, Viewed
    <2> QED
        BY <1>9, <2>1
<1>13. ASSUME NEW s \in Streams, BoundCount(x, s) PROVE WalkOf(x)'
    <2>1. BoundsDone(x, s) /\ pc[x] = "bound" /\ trigger' = trigger /\ Windows[x][s].type = "count"
        BY <1>13 DEF BoundCount
    <2>2. \A t \in Streams : t # s => view'[x][t] = view[x][t]
        BY <1>5, <1>13 DEF BoundCount
    <2> QED
        BY <1>9, <2>1, <2>2
<1>14. ASSUME NEW s \in Streams, BoundTime(x, s) PROVE WalkOf(x)'
    <2>1. /\ pc[x] = "bound" /\ pc'[x] = "walk" /\ cur'[x] = s /\ todo' = todo /\ trigger' = trigger
          /\ s \in todo[x] \cap rings /\ Windows[x][s].type = "time"
        BY <1>4, <1>14 DEF BoundTime
    <2>2. /\ view'[x][s] = [begin |-> write_seq[s], end |-> write_seq[s]]
          /\ \A t \in Streams : t # s => view'[x][t] = view[x][t]
        BY <1>5, <1>14 DEF BoundTime
    <2>3. \A b \in 0..view'[x][s].end : b <= view'[x][s].begin
        BY <1>1, <2>2, WriterKinds
    <2>4. ASSUME NEW t \in Streams, Bound(x, t)', Windows[x][t].type = "time" PROVE Exact(t)'
        <3>1. t # s /\ Bound(x, t)
            BY <1>7, <2>1, <2>4 DEF Bound
        <3> QED
            BY <1>8, <2>1, <2>2, <2>4, <3>1 DEF WalkOf
    <2> QED
        BY <1>2, <2>1, <2>3, <2>4 DEF WalkOf, Reading
<1>15. ASSUME NEW s \in Streams, s = cur[x], Walk(x) PROVE WalkOf(x)'
    <2>1. /\ pc[x] = "walk" /\ UNCHANGED <<trigger, cur>> /\ s \in Streams
          /\ s \in todo[x] \cap rings /\ s \in Viewed(x) /\ Windows[x][s].type = "time"
        BY <1>1, <1>6, <1>15 DEF Walk, WalkOf, InDispatch, Viewed
    <2>2. \A b \in 0..view[x][s].end :
              Begins(x, s, b) => /\ InWindow(x, s) => b <= view[x][s].begin - 1
                                 /\ ~InWindow(x, s) => view[x][s].begin = b
        BY <1>1, <1>15, <2>1, WalkSound DEF WalkOf
    <2>3. CASE InWindow(x, s)
        <3>1. view' = [view EXCEPT ![x][s].begin = view[x][s].begin - 1] /\ UNCHANGED <<pc, todo>>
            BY <1>15, <2>3 DEF Walk
        <3>2. /\ view'[x][s].begin = view[x][s].begin - 1 /\ view'[x][s].end = view[x][s].end
              /\ \A t \in Streams : t # s => view'[x][t] = view[x][t]
            BY <1>5, <2>1, <3>1
        <3>3. \A b \in 0..view[x][s].end : Begins(x, s, b)' => Begins(x, s, b)
            BY <1>1, <1>3, <2>1, <3>2, BeginsKept
        <3>4. \A b \in 0..view'[x][s].end : Begins(x, s, b)' => b <= view'[x][s].begin
            BY <2>2, <2>3, <3>2, <3>3
        <3>5. ASSUME NEW t \in Streams, Bound(x, t)', Windows[x][t].type = "time" PROVE Exact(t)'
            <4>1. t # s /\ Bound(x, t)
                BY <1>7, <2>1, <3>1, <3>5 DEF Bound
            <4> QED
                BY <1>8, <2>1, <3>2, <3>5, <4>1 DEF WalkOf
        <3> QED
            BY <1>2, <1>15, <2>1, <3>1, <3>4, <3>5 DEF WalkOf, Reading
    <2>4. CASE ~InWindow(x, s)
        <3>1. BoundsDone(x, s) /\ view' = view
            BY <1>15, <2>4 DEF Walk
        <3>2. Exact(s)
            BY <2>2, <2>4
        <3>3. Exact(s)'
            BY <1>8, <2>1, <3>1, <3>2
        <3> QED
            BY <1>9, <2>1, <3>1, <3>3
    <2> QED
        BY <2>3, <2>4
<1>16. CASE BeginRead(x)
    <2>1. trigger' = trigger /\ view' = view /\ todo' = todo /\ Reading(x) /\ Reading(x)'
        BY <1>4, <1>16 DEF BeginRead, Reading
    <2> QED
        BY <1>10, <2>1
<1>17. ASSUME NEW s \in Streams, ReadLo(x, s) PROVE WalkOf(x)'
    <2>1. trigger' = trigger /\ view' = view /\ todo' = todo /\ Reading(x) /\ Reading(x)'
        BY <1>4, <1>17 DEF ReadLo, Reading
    <2> QED
        BY <1>10, <2>1
<1>18. CASE ReadHi(x)
    <2>1. trigger' = trigger /\ view' = view /\ todo' = todo /\ Reading(x) /\ Reading(x)'
        BY <1>4, <1>18 DEF ReadHi, Reading
    <2> QED
        BY <1>10, <2>1
<1>19. CASE EndRead(x)
    <2>1. pc'[x] = "idle"
        BY <1>4, <1>19 DEF EndRead
    <2> QED
        BY <2>1 DEF WalkOf, Reading, Bound
<1> QED
    BY <1>6, <1>11, <1>12, <1>13, <1>14, <1>15, <1>16, <1>17, <1>18, <1>19 DEF Script

\* While a script is dispatched, no stream gets a ring.
LEMMA SetUpOver ==
    ASSUME TypeInv, [Next]_vars, NEW x \in Scripts, pc[x] # "idle"
    PROVE  rings' = rings
<1>1. ~NotStarted
    BY WindowAssumption DEF TypeInv, InDispatch, NotStarted
<1>2. ASSUME NEW y \in Scripts, RegisterScript(y) \/ Script(y) PROVE rings' = rings
    BY <1>2 DEF RegisterScript, Script, Dispatch, SkipStream, BoundCount, BoundTime, ReadLo, Walk,
                BeginRead, ReadHi, EndRead, KeepWriters
<1>3. CASE UNCHANGED vars
    BY <1>3 DEF vars, ringVars
<1> QED
    BY <1>1, <1>2, <1>3, PushGrows DEF Next, EnsureStream

\* Initially no script has a window.
LEMMA WalkInit == Init => WalkInv
BY DEF Init, WalkInv, WalkOf, Reading, Bound

\* Every step keeps the windows of time as they should be.
LEMMA WalkStep == TypeInv /\ RingInv /\ ReadInv /\ WalkInv /\ [Next]_vars => WalkInv'
<1> SUFFICES ASSUME TypeInv, RingInv, ReadInv, WalkInv, [Next]_vars, NEW x \in Scripts
             PROVE  WalkOf(x)'
    BY DEF WalkInv
<1>1. TypeOK /\ TypeOK' /\ HeadLogged /\ Grown
    BY TypeStep, OnlyPushGrows DEF TypeInv, RingInv
<1>2. ViewOf(x) /\ WalkOf(x) /\ (pc[x] = "idle" \/ rings' = rings)
    BY SetUpOver DEF ReadInv, WalkInv
<1>3. CASE UNCHANGED <<pc, cur, view, todo, trigger>>
    BY <1>1, <1>2, <1>3, WalkKept
<1>4. ASSUME NEW y \in Scripts, Script(y) PROVE WalkOf(x)'
    <2>1. CASE y = x
        BY <1>1, <1>2, <1>4, <2>1, WalkScript
    <2>2. CASE y # x
        BY <1>1, <1>2, <1>4, <2>2, OthersKept, WalkKept
    <2> QED
        BY <2>1, <2>2
<1>5. ASSUME NEW s \in Streams, EnsureStream(s) \/ Push(s)
      PROVE  UNCHANGED <<pc, cur, view, todo, trigger>>
    BY <1>5, PushGrows DEF EnsureStream, scriptVars
<1>6. ASSUME NEW y \in Scripts, RegisterScript(y) PROVE UNCHANGED <<pc, cur, view, todo, trigger>>
    BY <1>6 DEF RegisterScript
<1>7. UNCHANGED vars => UNCHANGED <<pc, cur, view, todo, trigger>>
    BY DEF vars, scriptVars
<1> QED
    BY <1>3, <1>4, <1>5, <1>6, <1>7 DEF Next

\* compute_begin() finds the window of time that the ring still holds, whatever the
\* writers do while it walks.
THEOREM WindowCorrect == Spec => []WindowExact
<1> DEFINE Inv == TypeInv /\ RingInv /\ ReadInv /\ WalkInv
<1>1. Init => Inv
    BY TypeInit, RingInit, ReadInit, WalkInit
<1>2. Inv /\ [Next]_vars => Inv'
    BY TypeStep, RingStep, ReadStep, WalkStep
<1>3. Inv => WindowExact
    <2> SUFFICES ASSUME Inv, NEW x \in Scripts, NEW s \in Viewed(x), Reading(x), Windows[x][s].type = "time",
                        NEW b \in 0..view[x][s].end, Begins(x, s, b)
                 PROVE  view[x][s].begin = b
        BY DEF WindowExact, Begins
    <2>1. s \in Streams /\ Bound(x, s)
        BY WindowAssumption DEF WalkInv, WalkOf, Bound, Viewed, Reading
    <2> QED
        BY <2>1 DEF WalkInv, WalkOf
<1> QED
    BY <1>1, <1>2, <1>3, PTL DEF Spec

-----------------------------------------------------------------------------
(* Recorded drops.                                                         *)

\* As many events are numbered as were pushed.
LEMMA NumberedInit == Init => BoundInv
<1> SUFFICES ASSUME Init PROVE BoundInv
    OBVIOUS
<1>1. \A s \in Streams : DOMAIN sent[s] = {}
    BY DEF Init
<1>2. Numbered = {}
    BY <1>1 DEF Numbered
<1> QED
    BY <1>2, FS_EmptySet, WindowAssumption DEF BoundInv

\* push() numbers one event more, as long as the bound allows.
LEMMA NumberedStep == TypeInv /\ BoundInv /\ [Next]_vars => BoundInv'
<1> SUFFICES ASSUME TypeInv, BoundInv, [Next]_vars PROVE BoundInv'
    OBVIOUS
<1>1. ASSUME sent' = sent PROVE BoundInv'
    BY <1>1 DEF BoundInv, Numbered
<1>2. ASSUME NEW s \in Streams, NEW ts \in 0..MaxTs, PushLookup(s, ts) PROVE BoundInv'
    <2> DEFINE n == Len(sent[s]) + 1
               e == [id |-> n, ts |-> ts]
    <2>1. sent \in [Streams -> Seq(Events)] /\ sent' = [sent EXCEPT ![s] = Append(sent[s], e)]
        BY <1>2 DEF PushLookup, TypeInv, TypeOK
    <2>2. e \in Events
        <3>1. n \in Nat
            BY <2>1
        <3> QED
            BY <3>1 DEF Events
    <2> HIDE DEF e
    <2>3. DOMAIN sent'[s] = DOMAIN sent[s] \cup {n}
        BY <2>1, <2>2
    <2>4. \A t \in Streams : t # s => sent'[t] = sent[t]
        BY <2>1
    <2> HIDE DEF n
    <2>5. Numbered' = Numbered \cup {<<s, n>>}
        <3>1. ASSUME NEW t \in Streams
              PROVE  {t} \X DOMAIN sent'[t] = ({t} \X DOMAIN sent[t]) \cup (IF t = s THEN {<<s, n>>} ELSE {})
            BY <2>3, <2>4
        <3> QED
            BY <3>1 DEF Numbered
    <2>6. Cardinality(Numbered) < MaxEvents /\ Cardinality(Numbered) \in Nat /\ IsFiniteSet(Numbered)
        BY <1>2, FS_CardinalityType DEF PushLookup, Emitted, Numbered, BoundInv
    <2>7. IsFiniteSet(Numbered') /\ Cardinality(Numbered') <= Cardinality(Numbered) + 1
        <3>1. /\ IsFiniteSet(Numbered \cup {<<s, n>>})
              /\ Cardinality(Numbered \cup {<<s, n>>}) =
                    IF <<s, n>> \in Numbered THEN Cardinality(Numbered) ELSE Cardinality(Numbered) + 1
            BY <2>6, FS_AddElement
        <3>2. \A c \in Nat : c <= c + 1
            OBVIOUS
        <3> QED
            BY <2>5, <2>6, <3>1, <3>2
    <2>8. Cardinality(Numbered') \in Nat /\ MaxEvents \in Nat
        BY <2>7, FS_CardinalityType, WindowAssumption
    <2> QED
        BY <2>6, <2>7, <2>8 DEF BoundInv
<1>3. ASSUME NEW s \in Streams, EnsureStream(s) \/ PushMin(s) \/ PushWriteLo(s) \/ PushWriteHi(s) \/ PushStore(s)
      PROVE  sent' = sent
    BY <1>3 DEF EnsureStream, PushMin, PushWriteLo, PushWriteHi, PushStore, writerVars
<1>4. ASSUME NEW x \in Scripts, RegisterScript(x) \/ Script(x) PROVE sent' = sent
    BY <1>4 DEF RegisterScript, Script, Dispatch, SkipStream, BoundCount, BoundTime, ReadLo, Walk, BeginRead,
                ReadHi, EndRead, KeepWriters, writerVars
<1>5. UNCHANGED vars => sent' = sent
    BY DEF vars, writerVars
<1> QED
    BY <1>1, <1>2, <1>3, <1>4, <1>5 DEF Next, Push

\* No stream has more events than all of them together.
LEMMA SentBounded ==
    ASSUME TypeInv, BoundInv, NEW s \in Streams
    PROVE  Len(sent[s]) <= MaxEvents
<1> DEFINE n == Len(sent[s])
           T == {s} \X (1..n)
<1>1. n \in Nat /\ DOMAIN sent[s] = 1..n
    BY WriterKinds DEF TypeInv
<1>2. T \in SUBSET Numbered
    BY <1>1 DEF Numbered
<1>3. IsFiniteSet(1..n) /\ Cardinality(1..n) = n
    BY <1>1, FS_Interval
<1>4. IsFiniteSet({s}) /\ Cardinality({s}) = 1
    BY FS_Singleton
<1>5. Cardinality(T) = 1 * n
    <2>1. Cardinality({s} \X (1..n)) = Cardinality({s}) * Cardinality(1..n)
        BY <1>3, <1>4, FS_Product
    <2> QED
        BY <1>3, <1>4, <2>1
<1>6. Cardinality(T) <= Cardinality(Numbered) /\ Cardinality(Numbered) \in Nat
    BY <1>2, FS_Subset, FS_CardinalityType DEF BoundInv
<1> HIDE DEF n, T
<1>7. n <= MaxEvents
    BY <1>1, <1>5, <1>6, WindowAssumption DEF BoundInv
<1> QED
    BY <1>7 DEF n

\* A write that reuses the slot at or after a position that its writer knows is
\* recorded: the unsigned difference does not wrap.
LEMMA DropRecorded ==
    ASSUME TypeInv, RingInv, BoundInv, NEW s \in Streams, PushWriteLo(s),
           NEW p \in Nat, wmin[s] <= p, p + Capacity <= write_seq[s]
    PROVE  write_seq[s] \in dropped'[s]
<1>1. /\ write_seq[s] \in Nat /\ wmin[s] \in Nat /\ Len(log[s]) \in Nat /\ Len(sent[s]) \in Nat
      /\ Capacity \in Nat /\ Capacity > 0
      /\ MaxEvents \in Nat /\ Wrap \in Nat /\ MaxEvents + Capacity < Wrap
    BY WriterKinds, CapacityAssumption, WindowAssumption DEF TypeInv
<1>2. write_seq[s] = Len(log[s]) /\ Len(log[s]) < Len(sent[s])
    <2>1. wpc[s] = "min" /\ HeadLogged /\ LogSent
        BY DEF RingInv, PushWriteLo
    <2>2. Len(log[s]) = write_seq[s] + 0
        BY <2>1 DEF HeadLogged
    <2> QED
        BY <1>1, <2>1, <2>2 DEF LogSent
<1>3. write_seq[s] < MaxEvents
    BY <1>1, <1>2, SentBounded
<1>4. GlobalMin(wmin[s]) = wmin[s]
    BY <1>1, <1>3 DEF GlobalMin, UINT64_MAX
<1>5. write_seq[s] - wmin[s] \in 0..(Wrap - 1) /\ write_seq[s] - wmin[s] >= Capacity
    BY <1>1, <1>3
<1>6. (write_seq[s] - wmin[s]) % Wrap = write_seq[s] - wmin[s]
    BY <1>1, <1>5, SmallRemainder
<1>7. ~CanWrite(s)
    BY <1>1, <1>4, <1>5, <1>6 DEF CanWrite
<1>8. dropped \in [Streams -> SUBSET Nat]
    BY DEF TypeInv, TypeOK
<1> QED
    BY <1>7, <1>8 DEF PushWriteLo

\* What a script has that counts.
LEMMA CountsKinds ==
    ASSUME TypeOK, NEW x \in Scripts, NEW s \in Streams
    PROVE  /\ idx[x] \in Nat /\ idx[x] <= Len(positions)
           /\ idx[x] # 0 => positions[idx[x]] \in Nat
           /\ Counts(x, s) => /\ NextBegin(x, s) \in Nat /\ NextBegin(x, s) <= write_seq[s]
                              /\ Windows[x][s].n \in Nat
<1>1. idx \in [Scripts -> 0..Len(positions)] /\ positions \in Seq(Nat) /\ write_seq[s] \in Nat
    BY WriterKinds DEF TypeOK
<1>2. idx[x] \in Nat /\ idx[x] <= Len(positions)
    BY <1>1
<1>3. idx[x] # 0 => positions[idx[x]] \in Nat
    BY <1>1, <1>2
<1>4. ASSUME Counts(x, s)
      PROVE  NextBegin(x, s) \in Nat /\ NextBegin(x, s) <= write_seq[s] /\ Windows[x][s].n \in Nat
    <2>1. Windows[x][s].n \in Nat
        BY <1>4, WindowAssumption DEF Counts, Viewed
    <2> QED
        BY <1>1, <2>1, CountBeginIs DEF NextBegin
<1> QED
    BY <1>2, <1>3, <1>4

\* Until the first event is pushed, no position is published and nothing is counted.
LEMMA SetUpLap == TypeInv /\ RingInv /\ ReadInv /\ InSetUp /\ NotStarted => \A x \in Scripts : LapOf(x)
<1> SUFFICES ASSUME TypeInv, RingInv, ReadInv, InSetUp, NotStarted, NEW x \in Scripts
             PROVE  LapOf(x)
    OBVIOUS
<1>1. TypeOK /\ Capacity \in Nat /\ Capacity > 0
    BY CapacityAssumption DEF TypeInv
<1>2. \A s \in Streams : Len(sent[s]) = 0
    BY DEF NotStarted
<1>3. \A s \in Streams : wpc[s] = "idle" /\ wnext[s] = 1
    <2>1. \A s \in Streams : wpc[s] = "idle"
        BY DEF TypeInv, InPush, NotStarted
    <2> QED
        BY <2>1 DEF TypeInv, InPush
<1>4. \A s \in Streams : Len(log[s]) = 0 /\ write_seq[s] = 0
    <2> TAKE s \in Streams
    <2>1. Len(log[s]) \in Nat /\ write_seq[s] \in Nat /\ write_seq[s] <= Len(log[s])
        BY <1>1, WriterKinds, HeadInLog DEF RingInv
    <2>2. Len(log[s]) <= Len(sent[s])
        BY DEF RingInv, LogSent
    <2> QED
        BY <1>2, <2>1, <2>2
<1>5. pc[x] = "idle"
    BY WindowAssumption DEF TypeInv, InDispatch, NotStarted
<1>6. \A s \in Streams : view[x][s].begin = 0
    <2> TAKE s \in Streams
    <2>1. view[x][s].begin \in Nat /\ view[x][s].end \in Nat
        BY <1>1, ScriptKinds
    <2>2. view[x][s].begin <= view[x][s].end /\ view[x][s].end <= write_seq[s]
        BY DEF ReadInv, ViewOf
    <2> QED
        BY <1>4, <2>1, <2>2
<1>7. idx[x] # 0 => positions[idx[x]] = 0
    <2>1. ASSUME idx[x] # 0, NEW s \in Streams PROVE idx[x] \in PosIds
        BY <1>1, <2>1, CountsKinds DEF PosIds
    <2>2. \E s \in Streams : TRUE
        BY WindowAssumption
    <2> QED
        BY <2>1, <2>2 DEF InSetUp
<1>8. \A s \in Streams : ~Bound(x, s) /\ ~(wnext[s] > idx[x] /\ idx[x] # 0)
    <2> TAKE s \in Streams
    <2>1. idx[x] \in Nat
        BY <1>1, CountsKinds
    <2> QED
        BY <1>3, <1>5, <2>1 DEF Bound
<1>9. PositionOf(x)
    <2> SUFFICES ASSUME NEW s \in Streams, Counts(x, s)
                 PROVE  /\ view[x][s].begin <= NextBegin(x, s)
                        /\ Known(positions[idx[x]], x, s)
                        /\ \A t \in Streams : wnext[t] > idx[x] => Known(wmin[t], x, s)
        BY DEF PositionOf
    <2>1. NextBegin(x, s) \in Nat /\ idx[x] # 0
        BY <1>1, CountsKinds DEF Counts
    <2> QED
        BY <1>6, <1>7, <1>8, <2>1 DEF Known
<1>10. \A s \in Streams, b \in Nat : (b + Capacity)..(Len(log[s]) - 1) = {} /\ Capacity..(Len(log[s]) - 1) = {}
    BY <1>1, <1>4
<1>11. DropsOf(x)
    <2> SUFFICES ASSUME NEW s \in Streams, Counts(x, s)
                 PROVE  \A q \in (NextBegin(x, s) + Capacity)..(Len(log[s]) - 1) :
                           q >= write_seq[s] => q \in dropped[s]
        BY <1>8 DEF DropsOf
    <2>1. NextBegin(x, s) \in Nat
        BY <1>1, CountsKinds
    <2> QED
        BY <1>10, <2>1
<1>12. SnapshotOf(x)
    BY <1>5, <1>7, <1>8, <1>10 DEF SnapshotOf
<1> QED
    BY <1>9, <1>11, <1>12 DEF LapOf

\* What a writer has loaded of the position of a script is not above it, nor above
\* what it had loaded before.
LEMMA MinLoaded ==
    ASSUME TypeInv, NEW s \in Streams, Push(s), NEW x \in Scripts, idx[x] # 0,
           NEW t \in Streams, wnext'[t] > idx[x]
    PROVE  (wnext[t] > idx[x] /\ wmin'[t] <= wmin[t]) \/ wmin'[t] <= positions[idx[x]]
<1>1. /\ idx[x] \in Nat /\ idx[x] > 0 /\ positions[idx[x]] \in Nat
      /\ wmin[t] \in Nat /\ wnext[t] \in Nat
    BY CountsKinds, WriterKinds DEF TypeInv
<1>2. wmin \in [Streams -> 0..UINT64_MAX] /\ wnext \in [Streams -> Nat \ {0}] /\ positions \in Seq(Nat)
    BY DEF TypeInv, TypeOK
<1>3. CASE wnext'[t] = wnext[t] /\ wmin'[t] = wmin[t]
    BY <1>1, <1>3
<1>4. CASE PushMin(s) /\ t = s
    <2>1. /\ wmin'[s] = Lesser(wmin[s], positions[wnext[s]]) /\ wnext'[s] = wnext[s] + 1
          /\ positions[wnext[s]] \in Nat
        BY <1>2, <1>4 DEF PushMin, PosIds
    <2>2. wmin'[s] <= wmin[s] /\ wmin'[s] <= positions[wnext[s]]
        BY <1>1, <1>4, <2>1, LesserIs
    <2>3. wnext[s] > idx[x] \/ wnext[s] = idx[x]
        BY <1>1, <1>4, <2>1
    <2> QED
        BY <1>4, <2>2, <2>3
<1>5. CASE PushWriteLo(s) /\ t = s
    <2>1. wnext'[s] = 1
        BY <1>2, <1>5 DEF PushWriteLo
    <2> QED
        BY <1>1, <1>5, <2>1
<1>6. CASE t # s \/ (\E ts \in 0..MaxTs : PushLookup(s, ts)) \/ PushWriteHi(s) \/ PushStore(s)
    <2>1. wnext'[t] = wnext[t] /\ wmin'[t] = wmin[t]
        BY <1>2, <1>6 DEF Push, PushLookup, PushMin, PushWriteLo, PushWriteHi, PushStore
    <2> QED
        BY <1>3, <2>1
<1> QED
    BY <1>4, <1>5, <1>6 DEF Push

\* The write of s reuses a slot that a reader at p needs: it is recorded.  All older
\* writes are what they were.
LEMMA LogDrops ==
    ASSUME TypeInv, RingInv, BoundInv, NEW s \in Streams, Push(s), NEW t \in Streams, NEW p \in Nat,
           PushWriteLo(s) /\ t = s => wmin[s] <= p,
           NEW q \in (p + Capacity)..(Len(log'[t]) - 1)
    PROVE  q \in dropped'[t] \/ q \in (p + Capacity)..(Len(log[t]) - 1)
<1>1. /\ Len(log[t]) \in Nat /\ write_seq[t] \in Nat /\ Capacity \in Nat
      /\ log \in [Streams -> Seq(Events)]
    BY WriterKinds, CapacityAssumption DEF TypeInv, TypeOK
<1>2. CASE PushWriteLo(s) /\ t = s
    <2> DEFINE e == sent[s][Len(sent[s])]
    <2>1. log' = [log EXCEPT ![s] = Append(log[s], e)]
        BY <1>2 DEF PushWriteLo
    <2> HIDE DEF e
    <2>2. Len(log'[s]) = Len(log[s]) + 1
        BY <1>1, <1>2, <2>1
    <2>3. Len(log[s]) = write_seq[s] + 0
        <3>1. wpc[s] = "min"
            BY <1>2 DEF PushWriteLo
        <3> QED
            BY <3>1 DEF RingInv, HeadLogged
    <2>4. q <= Len(log[s]) - 1 \/ q = write_seq[s]
        BY <1>1, <1>2, <2>2, <2>3
    <2>5. ASSUME q = write_seq[s] PROVE q \in dropped'[s]
        <3>1. p + Capacity <= write_seq[s]
            BY <2>5
        <3> QED
            BY <1>2, <2>5, <3>1, DropRecorded
    <2> QED
        BY <1>1, <1>2, <2>4, <2>5
<1>3. CASE ~(PushWriteLo(s) /\ t = s)
    <2>1. log'[t] = log[t]
        BY <1>1, <1>3 DEF Push, PushLookup, PushMin, PushWriteLo, PushWriteHi, PushStore
    <2> QED
        BY <2>1
<1> QED
    BY <1>2, <1>3

\* A write records its drop when it reuses a slot of a window, or of one to come.
LEMMA LapPush ==
    ASSUME TypeInv, TypeOK', RingInv, RingInv', BoundInv, NEW s \in Streams, Push(s),
           NEW x \in Scripts, LapOf(x), ViewOf(x)
    PROVE  LapOf(x)'
<1>1. TypeOK /\ Grown /\ UNCHANGED <<rings, positions, idx, pc, todo, view>>
    BY PushGrows DEF TypeInv, scriptVars
<1>2. \A t \in Streams :
          /\ Counts(x, t)' <=> Counts(x, t)
          /\ Bound(x, t)' <=> Bound(x, t)
    BY <1>1 DEF Counts, Bound, Viewed
<1>3. ASSUME NEW t \in Streams, Counts(x, t)
      PROVE  /\ NextBegin(x, t) \in Nat /\ NextBegin(x, t)' \in Nat
             /\ NextBegin(x, t) <= NextBegin(x, t)'
    <2>1. write_seq[t] \in Nat /\ Windows[x][t].n \in Nat /\ write_seq'[t] \in Nat
        <3>1. write_seq' \in [Streams -> Nat]
            BY DEF TypeOK
        <3> QED
            BY <1>1, <1>3, <3>1, WriterKinds, CountsKinds
    <2>2. write_seq[t] <= write_seq'[t]
        BY <1>1 DEF Grown
    <2> QED
        BY <2>1, <2>2 DEF NextBegin, CountBegin
<1>4. /\ idx[x] \in Nat /\ (idx[x] # 0 => positions[idx[x]] \in Nat)
      /\ \A t \in Streams : /\ view[x][t].begin \in Nat /\ view[x][t].end \in Nat
                            /\ wmin[t] \in Nat /\ wnext[t] \in Nat
    BY <1>1, ScriptKinds, CountsKinds, WriterKinds
<1>5. \A t \in Streams : wmin'[t] \in Nat /\ wnext'[t] \in Nat
    <2>1. wmin' \in [Streams -> 0..UINT64_MAX] /\ wnext' \in [Streams -> Nat \ {0}]
        BY DEF TypeOK
    <2> QED
        BY <2>1
<1>6. ASSUME NEW t \in Streams, Counts(x, t), NEW p \in Nat, Known(p, x, t), NEW r \in Nat, r <= p
      PROVE  Known(r, x, t)'
    <2>1. r <= NextBegin(x, t)'
        BY <1>3, <1>6 DEF Known
    <2>2. Bound(x, t) => r <= view[x][t].begin
        BY <1>4, <1>6 DEF Known
    <2> QED
        BY <1>1, <1>2, <2>1, <2>2 DEF Known
<1>7. PositionOf(x)'
    <2> SUFFICES ASSUME NEW t \in Streams, Counts(x, t)
                 PROVE  /\ view[x][t].begin <= NextBegin(x, t)'
                        /\ Known(positions[idx[x]], x, t)'
                        /\ \A u \in Streams : wnext'[u] > idx[x] => Known(wmin[u], x, t)'
        BY <1>1, <1>2 DEF PositionOf
    <2>1. /\ view[x][t].begin <= NextBegin(x, t) /\ Known(positions[idx[x]], x, t) /\ idx[x] # 0
          /\ \A u \in Streams : wnext[u] > idx[x] => Known(wmin[u], x, t)
        BY DEF LapOf, PositionOf, Counts
    <2>2. view[x][t].begin <= NextBegin(x, t)'
        BY <1>3, <1>4, <2>1
    <2>3. ASSUME NEW r \in Nat, r <= positions[idx[x]] PROVE Known(r, x, t)'
        BY <1>4, <1>6, <2>1, <2>3
    <2>4. Known(positions[idx[x]], x, t)'
        <3>1. positions[idx[x]] \in Nat /\ positions[idx[x]] <= positions[idx[x]]
            BY <1>4, <2>1
        <3>2. positions'[idx'[x]] = positions[idx[x]]
            BY <1>1
        <3> QED
            BY <2>3, <3>1, <3>2 DEF Known
    <2>5. ASSUME NEW u \in Streams, wnext'[u] > idx[x] PROVE Known(wmin[u], x, t)'
        <3>1. (wnext[u] > idx[x] /\ wmin'[u] <= wmin[u]) \/ wmin'[u] <= positions[idx[x]]
            BY <2>1, <2>5, MinLoaded
        <3>2. ASSUME NEW r \in Nat, r = wmin'[u] PROVE Known(r, x, t)'
            BY <1>4, <1>6, <2>1, <2>3, <3>1, <3>2
        <3> QED
            BY <1>5, <3>2 DEF Known
    <2> QED
        BY <2>2, <2>4, <2>5
<1>8. ASSUME idx[x] # 0, PushWriteLo(s) PROVE wnext[s] > idx[x]
    <2>1. wnext[s] \notin PosIds /\ positions \in Seq(Nat) /\ wnext[s] \in Nat \ {0}
        BY <1>1, <1>8, WriterKinds DEF PushWriteLo, TypeOK
    <2>2. idx[x] <= Len(positions)
        BY <1>1, CountsKinds
    <2> QED
        BY <1>4, <2>1, <2>2 DEF PosIds
<1>9. DropsOf(x)'
    <2> SUFFICES ASSUME NEW t \in Streams, Counts(x, t)
                 PROVE  /\ \A q \in (NextBegin(x, t)' + Capacity)..(Len(log'[t]) - 1) :
                               q >= write_seq'[t] => q \in dropped'[t]
                        /\ Bound(x, t) /\ view[x][t].end - view[x][t].begin <= Capacity =>
                              \A q \in (view[x][t].begin + Capacity)..(Len(log'[t]) - 1) : q \in dropped'[t]
        BY <1>1, <1>2 DEF DropsOf
    <2>1. PushWriteLo(s) /\ t = s => Known(wmin[s], x, t)
        BY <1>8 DEF LapOf, PositionOf, Counts
    <2>2. dropped[t] \subseteq dropped'[t] /\ write_seq[t] \in Nat /\ write_seq'[t] >= write_seq[t]
        BY <1>1, WriterKinds DEF Grown
    <2>3. Capacity \in Nat /\ NextBegin(x, t) \in Nat /\ NextBegin(x, t)' \in Nat
        BY <1>3, CapacityAssumption
    <2>4. Len(log[t]) \in Nat /\ Len(log'[t]) \in Nat /\ write_seq'[t] \in Nat
        <3>1. write_seq' \in [Streams -> Nat] /\ log' \in [Streams -> Seq(Events)]
            BY DEF TypeOK
        <3> QED
            BY <1>1, <3>1, WriterKinds
    <2>5. ASSUME NEW q \in (NextBegin(x, t)' + Capacity)..(Len(log'[t]) - 1), q >= write_seq'[t]
          PROVE  q \in dropped'[t]
        <3>1. q \in (NextBegin(x, t) + Capacity)..(Len(log'[t]) - 1) /\ q >= write_seq[t]
            BY <1>3, <2>2, <2>3, <2>4, <2>5
        <3>2. PushWriteLo(s) /\ t = s => wmin[s] <= NextBegin(x, t)
            BY <2>1 DEF Known
        <3>3. q \in dropped'[t] \/ q \in (NextBegin(x, t) + Capacity)..(Len(log[t]) - 1)
            BY <2>3, <3>1, <3>2, LogDrops
        <3> QED
            BY <2>2, <3>1, <3>3 DEF LapOf, DropsOf
    <2>6. ASSUME Bound(x, t), view[x][t].end - view[x][t].begin <= Capacity,
                 NEW q \in (view[x][t].begin + Capacity)..(Len(log'[t]) - 1)
          PROVE  q \in dropped'[t]
        <3>1. PushWriteLo(s) /\ t = s => wmin[s] <= view[x][t].begin
            BY <2>1, <2>6 DEF Known
        <3>2. q \in dropped'[t] \/ q \in (view[x][t].begin + Capacity)..(Len(log[t]) - 1)
            BY <1>4, <2>6, <3>1, LogDrops
        <3> QED
            BY <2>2, <2>6, <3>2 DEF LapOf, DropsOf
    <2> QED
        BY <2>5, <2>6
<1>10. SnapshotOf(x)'
    <2> SUFFICES ASSUME Mode[x] = "snapshot", idx[x] # 0
                 PROVE  /\ positions[idx[x]] = 0
                        /\ \A t \in Streams : wnext'[t] > idx[x] => wmin'[t] = 0
                        /\ pc[x] # "begin_read"
                        /\ \A t \in Streams : \A q \in Capacity..(Len(log'[t]) - 1) : q \in dropped'[t]
        BY <1>1 DEF SnapshotOf
    <2>1. /\ positions[idx[x]] = 0 /\ pc[x] # "begin_read"
          /\ \A t \in Streams : wnext[t] > idx[x] => wmin[t] = 0
          /\ \A t \in Streams : \A q \in Capacity..(Len(log[t]) - 1) : q \in dropped[t]
        BY DEF LapOf, SnapshotOf
    <2>2. ASSUME NEW t \in Streams, wnext'[t] > idx[x] PROVE wmin'[t] = 0
        <3>1. (wnext[t] > idx[x] /\ wmin'[t] <= wmin[t]) \/ wmin'[t] <= positions[idx[x]]
            BY <2>2, MinLoaded
        <3>2. wmin'[t] <= 0
            BY <2>1, <3>1
        <3> QED
            BY <1>5, <3>2
    <2>3. ASSUME NEW t \in Streams, NEW q \in Capacity..(Len(log'[t]) - 1) PROVE q \in dropped'[t]
        <3>1. PushWriteLo(s) /\ t = s => wmin[s] <= 0
            BY <1>8, <2>1
        <3>2. Capacity = 0 + Capacity /\ 0 \in Nat
            BY CapacityAssumption
        <3>3. q \in dropped'[t] \/ q \in Capacity..(Len(log[t]) - 1)
            BY <2>3, <3>1, <3>2, LogDrops
        <3> QED
            BY <1>1, <2>1, <3>3 DEF Grown
    <2> QED
        BY <2>1, <2>2, <2>3
<1> QED
    BY <1>7, <1>9, <1>10 DEF LapOf

\* A script that takes no step knows what it knew.
LEMMA LapKept ==
    ASSUME UNCHANGED <<rings, write_seq, wmin, wnext, log, dropped>>, NEW x \in Scripts, LapOf(x),
           pc'[x] = pc[x], view'[x] = view[x], todo'[x] = todo[x], idx'[x] = idx[x],
           idx[x] # 0 => positions'[idx[x]] = positions[idx[x]]
    PROVE  LapOf(x)'
<1>1. \A t \in Streams :
          /\ Counts(x, t)' <=> Counts(x, t)
          /\ Bound(x, t)' <=> Bound(x, t)
          /\ NextBegin(x, t)' = NextBegin(x, t)
    BY DEF Counts, Bound, Viewed, NextBegin, CountBegin
<1>2. PositionOf(x)'
    BY <1>1 DEF LapOf, PositionOf, Known, Counts
<1>3. DropsOf(x)'
    BY <1>1 DEF LapOf, DropsOf
<1>4. SnapshotOf(x)'
    BY DEF LapOf, SnapshotOf
<1> QED
    BY <1>2, <1>3, <1>4 DEF LapOf

\* A script that computes its windows finds the drops of the writes that reuse them
\* recorded, and publishes a position at or below each of them.
LEMMA LapScript ==
    ASSUME TypeInv, TypeOK', RingInv, NEW x \in Scripts, ViewOf(x), WalkOf(x), LapOf(x), Script(x)
    PROVE  LapOf(x)'
<1>1. TypeOK /\ InDispatch
    BY DEF TypeInv
<1>2. UNCHANGED <<rings, write_seq, wmin, wnext, log, dropped, idx>>
    BY DEF Script, Dispatch, SkipStream, BoundCount, BoundTime, ReadLo, Walk, BeginRead, ReadHi,
           EndRead, KeepWriters, writerVars
<1>3. \A t \in Streams :
          /\ Counts(x, t)' <=> Counts(x, t)
          /\ NextBegin(x, t)' = NextBegin(x, t)
          /\ Viewed(x)' = Viewed(x)
    BY <1>2 DEF Counts, Viewed, NextBegin, CountBegin
<1>4. /\ pc \in [Scripts -> {"idle", "bound", "walk", "begin_read", "read", "read_hi"}]
      /\ todo \in [Scripts -> SUBSET Streams]
      /\ view \in [Scripts -> [Streams -> [begin : Nat, end : Nat]]]
      /\ positions \in Seq(Nat)
    BY <1>1 DEF TypeOK
<1>5. /\ idx[x] \in Nat /\ idx[x] <= Len(positions) /\ (idx[x] # 0 => positions[idx[x]] \in Nat)
      /\ \A t \in Streams : /\ view[x][t].begin \in Nat /\ view[x][t].end \in Nat
                            /\ wmin[t] \in Nat /\ write_seq[t] \in Nat /\ Len(log[t]) \in Nat
                            /\ Counts(x, t) => NextBegin(x, t) \in Nat
    BY <1>1, ScriptKinds, WriterKinds, CountsKinds
<1>6. Capacity \in Nat
    BY CapacityAssumption
\* No counted window is computed.
<1>7. ASSUME positions' = positions, Mode[x] = "snapshot" => pc'[x] # "begin_read",
             \A t \in Streams : Counts(x, t) => view'[x][t] = view[x][t] /\ (Bound(x, t)' => Bound(x, t))
      PROVE  LapOf(x)'
    <2>1. PositionOf(x)'
        BY <1>2, <1>3, <1>7 DEF LapOf, PositionOf, Known
    <2>2. DropsOf(x)'
        BY <1>2, <1>3, <1>7 DEF LapOf, DropsOf
    <2>3. SnapshotOf(x)'
        BY <1>2, <1>7 DEF LapOf, SnapshotOf
    <2> QED
        BY <2>1, <2>2, <2>3 DEF LapOf
<1>8. ASSUME NEW s \in Streams, BoundsDone(x, s), NEW t \in Streams, t # s, pc[x] \in {"bound", "walk"}, Bound(x, t)'
      PROVE  Bound(x, t)
    BY <1>3, <1>4, <1>8 DEF BoundsDone, Bound
<1>9. ASSUME NEW s \in Streams, BoundsDone(x, s), Mode[x] = "snapshot"
      PROVE  pc'[x] # "begin_read"
    BY <1>4, <1>9 DEF BoundsDone
<1>10. CASE Dispatch(x)
    <2>1. pc'[x] = "bound" /\ todo'[x] = DOMAIN Windows[x] /\ view' = view /\ positions' = positions
        BY <1>4, <1>10 DEF Dispatch
    <2> QED
        BY <1>7, <2>1 DEF Bound, Viewed
<1>11. ASSUME NEW s \in Streams, SkipStream(x, s) PROVE LapOf(x)'
    <2>1. /\ BoundsDone(x, s) /\ pc[x] = "bound" /\ view' = view /\ positions' = positions
          /\ s \notin Viewed(x)
        BY <1>11 DEF SkipStream, Viewed
    <2> QED
        BY <1>7, <1>8, <1>9, <2>1 DEF Counts
<1>12. ASSUME NEW s \in Streams, BoundCount(x, s) PROVE LapOf(x)'
    <2>1. /\ BoundsDone(x, s) /\ pc[x] = "bound" /\ positions' = positions
          /\ view' = [view EXCEPT ![x][s] = [begin |-> NextBegin(x, s), end |-> write_seq[s]]]
        BY <1>12 DEF BoundCount, NextBegin
    <2>2. /\ view'[x][s].begin = NextBegin(x, s) /\ view'[x][s].end = write_seq[s]
          /\ \A t \in Streams : t # s => view'[x][t] = view[x][t]
        BY <1>4, <2>1
    <2>3. \A t \in Streams : t # s => (Bound(x, t)' => Bound(x, t))
        BY <1>8, <2>1
    <2>4. PositionOf(x)'
        <3> SUFFICES ASSUME NEW t \in Streams, Counts(x, t)
                     PROVE  /\ view'[x][t].begin <= NextBegin(x, t)
                            /\ Known(positions[idx[x]], x, t)'
                            /\ \A u \in Streams : wnext[u] > idx[x] => Known(wmin[u], x, t)'
            BY <1>2, <1>3 DEF PositionOf
        <3>1. /\ view[x][t].begin <= NextBegin(x, t) /\ Known(positions[idx[x]], x, t)
              /\ \A u \in Streams : wnext[u] > idx[x] => Known(wmin[u], x, t)
            BY DEF LapOf, PositionOf
        <3>2. CASE t = s
            BY <1>2, <1>3, <1>5, <2>1, <2>2, <3>1, <3>2 DEF Known
        <3>3. CASE t # s
            BY <1>2, <1>3, <2>1, <2>2, <2>3, <3>1, <3>3 DEF Known
        <3> QED
            BY <3>2, <3>3
    <2>5. DropsOf(x)'
        <3> SUFFICES ASSUME NEW t \in Streams, Counts(x, t)
                     PROVE  /\ \A q \in (NextBegin(x, t) + Capacity)..(Len(log[t]) - 1) :
                                  q >= write_seq[t] => q \in dropped[t]
                            /\ Bound(x, t)' /\ view'[x][t].end - view'[x][t].begin <= Capacity =>
                                  \A q \in (view'[x][t].begin + Capacity)..(Len(log[t]) - 1) : q \in dropped[t]
            BY <1>2, <1>3 DEF DropsOf
        <3>1. \A q \in (NextBegin(x, t) + Capacity)..(Len(log[t]) - 1) : q >= write_seq[t] => q \in dropped[t]
            BY DEF LapOf, DropsOf
        <3>2. CASE t = s
            <4>1. \A q \in (NextBegin(x, s) + Capacity)..(Len(log[s]) - 1) :
                      write_seq[s] - NextBegin(x, s) <= Capacity => q >= write_seq[s]
                BY <1>5, <1>6, <3>2
            <4> QED
                BY <2>2, <3>1, <3>2, <4>1
        <3>3. CASE t # s
            BY <2>2, <2>3, <3>1, <3>3 DEF LapOf, DropsOf
        <3> QED
            BY <3>2, <3>3
    <2>6. SnapshotOf(x)'
        BY <1>2, <1>9, <2>1 DEF LapOf, SnapshotOf
    <2> QED
        BY <2>4, <2>5, <2>6 DEF LapOf
<1>13. ASSUME NEW s \in Streams, BoundTime(x, s) PROVE LapOf(x)'
    <2>1. /\ pc[x] = "bound" /\ pc'[x] = "walk" /\ todo' = todo /\ positions' = positions
          /\ Windows[x][s].type = "time"
        BY <1>4, <1>13 DEF BoundTime
    <2>2. \A t \in Streams : t # s => view'[x][t] = view[x][t]
        BY <1>4, <1>13 DEF BoundTime
    <2>3. \A t \in Streams : Bound(x, t)' => Bound(x, t)
        BY <1>3, <2>1 DEF Bound
    <2> QED
        BY <1>7, <2>1, <2>2, <2>3 DEF Counts
<1>14. ASSUME NEW s \in Streams, s = cur[x], Walk(x) PROVE LapOf(x)'
    <2>1. pc[x] = "walk" /\ positions' = positions /\ Windows[x][s].type = "time"
        BY <1>14 DEF Walk, WalkOf
    <2>2. CASE InWindow(x, s)
        <3>1. view' = [view EXCEPT ![x][s].begin = view[x][s].begin - 1] /\ UNCHANGED <<pc, todo>>
            BY <1>14, <2>2 DEF Walk
        <3>2. \A t \in Streams : t # s => view'[x][t] = view[x][t]
            BY <1>4, <3>1
        <3>3. \A t \in Streams : Bound(x, t)' => Bound(x, t)
            BY <1>3, <3>1 DEF Bound
        <3> QED
            BY <1>7, <2>1, <3>1, <3>2, <3>3 DEF Counts
    <2>3. CASE ~InWindow(x, s)
        <3>1. BoundsDone(x, s) /\ view' = view
            BY <1>14, <2>3 DEF Walk
        <3> QED
            BY <1>7, <1>8, <1>9, <2>1, <3>1 DEF Counts
    <2> QED
        BY <2>2, <2>3
<1>15. CASE BeginRead(x)
    <2>1. /\ pc[x] = "begin_read" /\ pc'[x] = "read" /\ view' = view /\ todo' = todo
        BY <1>4, <1>15 DEF BeginRead
    <2>2. \A t \in Streams : Bound(x, t)' <=> Bound(x, t)
        BY <1>3, <2>1 DEF Bound
    <2>3. CASE positions' = positions
        BY <1>7, <2>1, <2>2, <2>3
    <2>4. ASSUME NEW s \in Viewed(x), \A t \in Viewed(x) : view[x][s].begin <= view[x][t].begin,
                 positions' = [positions EXCEPT ![idx[x]] = view[x][s].begin]
          PROVE  LapOf(x)'
        <3>1. Mode[x] # "snapshot"
            BY <1>1, <2>1 DEF LapOf, SnapshotOf, InDispatch
        <3>2. idx[x] # 0 => positions'[idx[x]] = view[x][s].begin
            BY <1>4, <1>5, <2>4
        <3>3. PositionOf(x)'
            <4> SUFFICES ASSUME NEW t \in Streams, Counts(x, t)
                         PROVE  /\ view[x][t].begin <= NextBegin(x, t)
                                /\ Known(view[x][s].begin, x, t)
                                /\ \A u \in Streams : wnext[u] > idx[x] => Known(wmin[u], x, t)
                BY <1>2, <1>3, <2>1, <2>2, <3>2 DEF PositionOf, Known, Counts
            <4>1. /\ view[x][t].begin <= NextBegin(x, t)
                  /\ \A u \in Streams : wnext[u] > idx[x] => Known(wmin[u], x, t)
                BY DEF LapOf, PositionOf
            <4>2. s \in Streams /\ view[x][s].begin <= view[x][t].begin
                BY <2>4, WindowAssumption DEF Counts, Viewed
            <4>3. view[x][s].begin <= NextBegin(x, t)
                BY <1>5, <4>1, <4>2
            <4> QED
                BY <4>1, <4>2, <4>3 DEF Known
        <3>4. DropsOf(x)'
            BY <1>2, <1>3, <2>1, <2>2 DEF LapOf, DropsOf
        <3> QED
            BY <3>1, <3>3, <3>4 DEF LapOf, SnapshotOf
    <2> QED
        BY <1>15, <2>3, <2>4 DEF BeginRead
<1>16. ASSUME NEW s \in Streams, ReadLo(x, s) PROVE LapOf(x)'
    <2>1. /\ pc[x] = "read" /\ pc'[x] = "read_hi" /\ view' = view /\ todo' = todo /\ positions' = positions
        BY <1>4, <1>16 DEF ReadLo
    <2> QED
        BY <1>3, <1>7, <2>1 DEF Bound
<1>17. CASE ReadHi(x)
    <2>1. /\ pc[x] = "read_hi" /\ pc'[x] = "read" /\ view' = view /\ todo' = todo /\ positions' = positions
        BY <1>4, <1>17 DEF ReadHi
    <2> QED
        BY <1>3, <1>7, <2>1 DEF Bound
<1>18. CASE EndRead(x)
    <2>1. pc'[x] = "idle" /\ view'[x] = NoViews /\ positions' = positions
        BY <1>4, <1>18 DEF EndRead
    <2>2. \A t \in Streams : view'[x][t].begin = 0 /\ ~Bound(x, t)'
        BY <2>1 DEF NoViews, NoView, Bound
    <2>3. PositionOf(x)'
        BY <1>2, <1>3, <1>5, <2>1, <2>2 DEF LapOf, PositionOf, Known
    <2>4. DropsOf(x)'
        BY <1>2, <1>3, <2>2 DEF LapOf, DropsOf
    <2>5. SnapshotOf(x)'
        BY <1>2, <2>1 DEF LapOf, SnapshotOf
    <2> QED
        BY <2>3, <2>4, <2>5 DEF LapOf
<1>19. cur[x] \in Streams
    BY <1>1, ScriptKinds
<1> QED
    BY <1>10, <1>11, <1>12, <1>13, <1>14, <1>15, <1>16, <1>17, <1>18, <1>19 DEF Script

\* What sets the registry up and what scripts do leaves the events that were sent.
LEMMA SentKept ==
    ASSUME (\E s \in Streams : EnsureStream(s)) \/ (\E x \in Scripts : RegisterScript(x) \/ Script(x))
    PROVE  sent' = sent
<1>1. ASSUME NEW s \in Streams, EnsureStream(s) PROVE sent' = sent
    BY <1>1 DEF EnsureStream, writerVars
<1>2. ASSUME NEW x \in Scripts, RegisterScript(x) PROVE sent' = sent
    BY <1>2 DEF RegisterScript, writerVars
<1>3. ASSUME NEW x \in Scripts, Script(x) PROVE KeepWriters
    BY <1>3 DEF Script, Dispatch, SkipStream, BoundCount, BoundTime, ReadLo, Walk, BeginRead, ReadHi, EndRead
<1>4. KeepWriters => sent' = sent
    BY DEF KeepWriters, writerVars
<1> QED
    BY <1>1, <1>2, <1>3, <1>4

\* Positions are given out once, and published only when events come.
LEMMA PositionStep ==
    ASSUME TypeInv, OwnPosition, InSetUp, [Next]_vars
    PROVE  OwnPosition' /\ InSetUp'
<1>1. /\ idx \in [Scripts -> 0..Len(positions)] /\ positions \in Seq(Nat)
      /\ sent \in [Streams -> Seq(Events)]
    BY DEF TypeInv, TypeOK
<1>2. ASSUME idx' = idx, positions' = positions, NotStarted' => NotStarted PROVE OwnPosition' /\ InSetUp'
    BY <1>2 DEF OwnPosition, InSetUp, PosIds
<1>3. ASSUME NEW s \in Streams, EnsureStream(s) PROVE OwnPosition' /\ InSetUp'
    <2>1. idx' = idx /\ positions' = positions /\ sent' = sent
        BY <1>3 DEF EnsureStream, scriptVars, writerVars
    <2> QED
        BY <1>2, <2>1 DEF NotStarted
<1>4. ASSUME NEW s \in Streams, Push(s) PROVE OwnPosition' /\ InSetUp'
    <2>1. idx' = idx /\ positions' = positions
        BY <1>4, PushGrows DEF scriptVars
    <2>2. ASSUME NEW ts \in 0..MaxTs, PushLookup(s, ts) PROVE NotStarted' => NotStarted
        <3> DEFINE e == [id |-> Len(sent[s]) + 1, ts |-> ts]
        <3>1. sent' = [sent EXCEPT ![s] = Append(sent[s], e)]
            BY <2>2 DEF PushLookup
        <3>2. Len(sent[s]) + 1 \in Nat
            BY <1>1
        <3>3. e \in Events
            BY <3>2 DEF Events
        <3> HIDE DEF e
        <3>4. sent[s] \in Seq(Events)
            BY <1>1
        <3>5. Append(sent[s], e) # <<>>
            BY <3>3, <3>4
        <3>6. sent'[s] # <<>>
            BY <1>1, <3>1, <3>5
        <3> QED
            BY <3>6 DEF NotStarted
    <2>3. ASSUME PushMin(s) \/ PushWriteLo(s) \/ PushWriteHi(s) \/ PushStore(s) PROVE NotStarted' => NotStarted
        BY <2>3 DEF PushMin, PushWriteLo, PushWriteHi, PushStore, NotStarted
    <2> QED
        BY <1>2, <1>4, <2>1, <2>2, <2>3 DEF Push
<1>5. ASSUME NEW x \in Scripts, RegisterScript(x) PROVE OwnPosition' /\ InSetUp'
    <2>1. /\ NotStarted /\ positions' = Append(positions, 0)
          /\ idx' = [idx EXCEPT ![x] = Len(positions) + 1]
        BY <1>5 DEF RegisterScript
    <2>2. \A y \in Scripts : idx[y] \in Nat /\ idx[y] <= Len(positions)
        BY <1>1
    <2>3. Len(positions) \in Nat
        BY <1>1
    <2>4. OwnPosition'
        BY <1>1, <2>1, <2>2, <2>3 DEF OwnPosition
    <2>5. ASSUME NEW i \in 1..(Len(positions) + 1) PROVE positions'[i] = 0
        BY <1>1, <2>1, <2>3, <2>5 DEF InSetUp, PosIds
    <2>6. InSetUp'
        BY <1>1, <2>1, <2>5 DEF InSetUp, PosIds
    <2> QED
        BY <2>4, <2>6
<1>6. ASSUME NEW x \in Scripts, Script(x) PROVE OwnPosition' /\ InSetUp'
    <2>1. idx' = idx /\ (NotStarted' => NotStarted)
        BY <1>6, SentKept DEF Script, Dispatch, SkipStream, BoundCount, BoundTime, ReadLo, Walk, BeginRead,
                              ReadHi, EndRead, NotStarted
    <2>2. CASE BeginRead(x)
        <3>1. ~NotStarted
            BY <2>2, WindowAssumption DEF BeginRead, TypeInv, InDispatch, NotStarted
        <3> QED
            BY <2>1, <3>1 DEF OwnPosition, InSetUp
    <2>3. CASE ~BeginRead(x)
        <3>1. positions' = positions
            BY <1>6, <2>3 DEF Script, Dispatch, SkipStream, BoundCount, BoundTime, ReadLo, Walk, ReadHi, EndRead
        <3> QED
            BY <1>2, <2>1, <3>1
    <2> QED
        BY <2>2, <2>3
<1>7. CASE UNCHANGED vars
    BY <1>2, <1>7 DEF vars, ringVars, writerVars, scriptVars, NotStarted
<1> QED
    BY <1>3, <1>4, <1>5, <1>6, <1>7 DEF Next

\* Initially nothing is published.
LEMMA LapInit == Init => LapInv
<1> SUFFICES ASSUME Init PROVE LapInv
    OBVIOUS
<1>1. OwnPosition /\ InSetUp /\ NotStarted
    BY DEF Init, OwnPosition, InSetUp, PosIds, NotStarted
<1> QED
    BY <1>1, TypeInit, RingInit, ReadInit, NumberedInit, SetUpLap DEF LapInv

\* Every step keeps the drops that the scripts rely on recorded.
LEMMA LapStep == TypeInv /\ RingInv /\ ReadInv /\ WalkInv /\ LapInv /\ [Next]_vars => LapInv'
<1>1. (TypeInv /\ RingInv /\ ReadInv /\ InSetUp /\ NotStarted)' => (\A x \in Scripts : LapOf(x))'
    BY SetUpLap, PTL
<1> SUFFICES ASSUME TypeInv, RingInv, ReadInv, WalkInv, LapInv, [Next]_vars PROVE LapInv'
    OBVIOUS
<1>2. /\ OwnPosition /\ InSetUp /\ BoundInv
      /\ \A x \in Scripts : LapOf(x) /\ ViewOf(x) /\ WalkOf(x)
    BY DEF LapInv, ReadInv, WalkInv
<1>3. OwnPosition' /\ InSetUp' /\ BoundInv'
    BY <1>2, PositionStep, NumberedStep
<1>4. TypeOK /\ TypeInv' /\ TypeOK' /\ RingInv' /\ ReadInv'
    BY TypeStep, RingStep, ReadStep DEF TypeInv
<1>5. ASSUME NEW s \in Streams, EnsureStream(s) PROVE \A x \in Scripts : LapOf(x)'
    <2>1. NotStarted'
        BY <1>5, SentKept DEF EnsureStream, NotStarted
    <2> QED
        BY <1>1, <1>3, <1>4, <2>1
<1>6. ASSUME NEW y \in Scripts, RegisterScript(y) PROVE \A x \in Scripts : LapOf(x)'
    <2>1. NotStarted'
        BY <1>6, SentKept DEF RegisterScript, NotStarted
    <2> QED
        BY <1>1, <1>3, <1>4, <2>1
<1>7. ASSUME NEW s \in Streams, Push(s), NEW x \in Scripts PROVE LapOf(x)'
    BY <1>2, <1>4, <1>7, LapPush
<1>8. ASSUME NEW y \in Scripts, Script(y), NEW x \in Scripts PROVE LapOf(x)'
    <2>1. CASE x = y
        BY <1>2, <1>4, <1>8, <2>1, LapScript
    <2>2. CASE x # y
        <3>1. UNCHANGED <<rings, write_seq, wmin, wnext, log, dropped, idx>>
            BY <1>8 DEF Script, Dispatch, SkipStream, BoundCount, BoundTime, ReadLo, Walk, BeginRead, ReadHi,
                        EndRead, KeepWriters, writerVars
        <3>2. pc'[x] = pc[x] /\ view'[x] = view[x] /\ todo'[x] = todo[x]
            BY <1>4, <1>8, <2>2, OthersKept
        <3>3. idx[x] # 0 => positions'[idx[x]] = positions[idx[x]]
            <4>1. idx \in [Scripts -> 0..Len(positions)] /\ positions \in Seq(Nat)
                BY <1>4 DEF TypeOK
            <4>2. idx[x] # 0 => idx[x] # idx[y] /\ idx[x] \in 1..Len(positions)
                BY <1>2, <2>2, <4>1 DEF OwnPosition
            <4>3. positions' = positions \/ \E p : positions' = [positions EXCEPT ![idx[y]] = p]
                BY <1>8 DEF Script, Dispatch, SkipStream, BoundCount, BoundTime, ReadLo, Walk, BeginRead,
                            ReadHi, EndRead
            <4> QED
                BY <4>1, <4>2, <4>3
        <3> QED
            BY <1>2, <3>1, <3>2, <3>3, LapKept
    <2> QED
        BY <2>1, <2>2
<1>9. ASSUME UNCHANGED vars, NEW x \in Scripts PROVE LapOf(x)'
    BY <1>2, <1>9, LapKept DEF vars, ringVars, writerVars, scriptVars
<1> QED
    BY <1>3, <1>5, <1>6, <1>7, <1>8, <1>9 DEF Next, LapInv

\* No snapshot and no counted window is lapped by a write that can_write() did not
\* report, whatever the order of loads and stores of the writers and the scripts.
THEOREM LapCorrect == Spec => []LapCounted
<1> DEFINE Inv == TypeInv /\ RingInv /\ ReadInv /\ WalkInv /\ LapInv
<1>1. Init => Inv
    BY TypeInit, RingInit, ReadInit, WalkInit, LapInit
<1>2. Inv /\ [Next]_vars => Inv'
    BY TypeStep, RingStep, ReadStep, WalkStep, LapStep
<1>3. Inv => LapCounted
    <2> SUFFICES ASSUME Inv, NEW x \in Scripts, NEW s \in DOMAIN Windows[x],
                        Mode[x] = "snapshot" \/ Windows[x][s].type = "count",
                        Reading(x), view[x][s].begin < view[x][s].end,
                        view[x][s].end - view[x][s].begin <= Capacity,
                        NEW seq \in (view[x][s].begin + Capacity)..(Len(log[s]) - 1)
                 PROVE  seq \in dropped[s]
        BY DEF LapCounted, LapSeen
    <2>1. s \in Streams /\ TypeOK /\ idx[x] # 0 /\ pc[x] # "idle" /\ todo[x] = {} /\ LapOf(x)
        BY WindowAssumption DEF TypeInv, InDispatch, Reading, WalkInv, WalkOf, LapInv
    <2>2. s \in rings
        <3>1. view[x][s].begin \in Nat /\ view[x][s].end \in Nat
            BY <2>1, ScriptKinds
        <3>2. s \notin Viewed(x) => view[x][s] = NoView
            BY <2>1 DEF ReadInv, ViewOf
        <3> QED
            BY <3>1, <3>2 DEF NoView, Viewed
    <2>3. CASE Windows[x][s].type = "count"
        <3>1. Counts(x, s) /\ Bound(x, s)
            BY <2>1, <2>2, <2>3 DEF Counts, Bound, Viewed
        <3> QED
            BY <2>1, <3>1 DEF LapOf, DropsOf
    <2>4. CASE Mode[x] = "snapshot"
        <3>1. seq \in Capacity..(Len(log[s]) - 1)
            <4>1. view[x][s].begin \in Nat /\ Capacity \in Nat /\ Len(log[s]) \in Nat
                BY <2>1, ScriptKinds, WriterKinds, CapacityAssumption
            <4> QED
                BY <4>1
        <3> QED
            BY <2>1, <2>4, <3>1 DEF LapOf, SnapshotOf
    <2> QED
        BY <2>3, <2>4
<1> QED
    BY <1>1, <1>2, <1>3, PTL DEF Spec
=============================================================================
