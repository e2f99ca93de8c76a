--------------------------- MODULE WindowRegistry ---------------------------
(***************************************************************************)
(* core/window_registry.hpp: one ring per stream, written by push(), and   *)
(* the windows that scripts get of these rings.  A zero-copy script reads  *)
(* the ring itself (WasmScript serialises its events); a snapshot script   *)
(* gets copies.  Both read outside mu_, while the writers go on.           *)
(*                                                                         *)
(* Each stream has one writer, as RingBuffer demands; what several writers *)
(* do to a ring is the subject of ScriptQueue.  Loads and stores of shared *)
(* memory are steps of their own; what a thread does to its own variables  *)
(* joins the next such step.                                               *)
(***************************************************************************)
EXTENDS Ring, Integers, Sequences, FiniteSets

CONSTANTS
    Streams,
    Scripts,
    Mode,           \* script -> "zero_copy" or "snapshot"
    TriggerOf,      \* script -> the stream that triggers it
    Windows,        \* script -> [stream -> WindowSpec], Subscription::windows
    Ensured,        \* streams for which the embedding program calls ensure_stream()
    Wrap,           \* 2^64: sequence numbers are uint64_t
    MaxTs,          \* bound: timestamps
    MaxEvents,      \* bound: events pushed, to all streams together
    MaxInvocations  \* script -> bound: invocations

ASSUME WindowAssumption ==
    /\ Mode \in [Scripts -> {"zero_copy", "snapshot"}]
    /\ TriggerOf \in [Scripts -> Streams]
    /\ \A x \in Scripts : DOMAIN Windows[x] \subseteq Streams /\ DOMAIN Windows[x] # {}
    /\ \A x \in Scripts : \A s \in DOMAIN Windows[x] :
          Windows[x][s] \in [type : {"count", "time"}, n : Nat]
    /\ Ensured \subseteq Streams
    /\ MaxEvents \in Nat
    /\ MaxTs \in Nat
    /\ MaxInvocations \in [Scripts -> Nat]
    /\ Wrap \in Nat
    /\ MaxEvents + Capacity < Wrap

VARIABLES
    rings,          \* the streams that have a ring
    slots,          \* stream -> slot -> [lo, hi]
    write_seq,      \* stream -> write_seq_ of its ring
    positions,      \* script_positions_
    \* the writers, inside push()
    wpc,
    wmin,           \* get_global_min_reader(): min_seq
    wnext,          \* get_global_min_reader(): the position it loads next
    \* the scripts' workers, inside dispatch
    idx,            \* script_idx, 0 before register_script()
    pc,
    trigger,        \* the event that triggered the invocation
    todo,           \* streams of the loop under way still to visit
    cur,            \* the stream the loop is at
    view,           \* stream -> [begin, end], RingView or WindowInfo
    got,            \* the first word of the event being copied
    input,          \* stream -> the events the script was given
    taken,          \* how many triggers the script has had
    \* history
    sent,           \* stream -> the events given to push()
    log,            \* stream -> the events whose write has begun
    dropped         \* stream -> sequence numbers for which record_drop() was called

ringVars == <<rings, slots, write_seq, positions>>
writerVars == <<wpc, wmin, wnext, sent, log, dropped>>
scriptVars == <<idx, pc, trigger, todo, cur, view, got, input, taken>>
vars == <<ringVars, writerVars, scriptVars>>

-----------------------------------------------------------------------------
UINT64_MAX == Wrap - 1
NoEvent == [id |-> 0, ts |-> 0]         \* Event{}
Events == [id : Nat, ts : 0..MaxTs]
NoView == [begin |-> 0, end |-> 0]
NoViews == [s \in Streams |-> NoView]
NoInput == [s \in Streams |-> <<>>]
PosIds == 1..Len(positions)

Lesser(a, b) == IF b < a THEN b ELSE a

\* mu_ is held over several steps only while window bounds are computed.
Locked == \E x \in Scripts : pc[x] \in {"bound", "walk"}

\* The slot of sequence number seq in the ring of s.
At(s, seq) == slots[s][SlotOf(seq)]

Init ==
    /\ rings = {}
    /\ slots = [s \in Streams |-> NewSlots(NoEvent)]
    /\ write_seq = [s \in Streams |-> 0]
    /\ positions = <<>>
    /\ wpc = [s \in Streams |-> "idle"]
    /\ wmin = [s \in Streams |-> UINT64_MAX]
    /\ wnext = [s \in Streams |-> 1]
    /\ idx = [x \in Scripts |-> 0]
    /\ pc = [x \in Scripts |-> "idle"]
    /\ trigger = [x \in Scripts |-> NoEvent]
    /\ todo = [x \in Scripts |-> {}]
    /\ cur = [x \in Scripts |-> TriggerOf[x]]
    /\ view = [x \in Scripts |-> NoViews]
    /\ got = [x \in Scripts |-> NoEvent]
    /\ input = [x \in Scripts |-> NoInput]
    /\ taken = [x \in Scripts |-> 0]
    /\ sent = [s \in Streams |-> <<>>]
    /\ log = [s \in Streams |-> <<>>]
    /\ dropped = [s \in Streams |-> {}]

-----------------------------------------------------------------------------
(* Set-up.                                                                 *)

NotStarted == \A s \in Streams : sent[s] = <<>>

\* ensure_stream(), called while the program sets up its streams.
EnsureStream(s) ==
    /\ s \in Ensured \ rings
    /\ NotStarted
    /\ rings' = rings \cup {s}
    /\ UNCHANGED <<slots, write_seq, positions, writerVars, scriptVars>>

\* register_script(): start_pipeline() registers the scripts before any thread runs.
RegisterScript(x) ==
    /\ idx[x] = 0
    /\ NotStarted
    /\ positions' = Append(positions, 0)
    /\ idx' = [idx EXCEPT ![x] = Len(positions) + 1]
    /\ UNCHANGED <<rings, slots, write_seq, writerVars,
                   pc, trigger, todo, cur, view, got, input, taken>>

-----------------------------------------------------------------------------
(* push()                                                                  *)

\* The events pushed so far.
Emitted == Cardinality(UNION {{s} \X DOMAIN sent[s] : s \in Streams})

\* The ring is looked up under mu_; without one the event goes no further.
PushLookup(s, ts) ==
    /\ wpc[s] = "idle"
    /\ Emitted < MaxEvents
    /\ ~Locked
    /\ sent' = [sent EXCEPT ![s] = Append(@, [id |-> Len(@) + 1, ts |-> ts])]
    /\ wpc' = [wpc EXCEPT ![s] = IF s \in rings THEN "min" ELSE "idle"]
    /\ UNCHANGED <<ringVars, wmin, wnext, log, dropped, scriptVars>>

\* get_global_min_reader(): the positions are loaded one by one.
PushMin(s) ==
    /\ wpc[s] = "min"
    /\ wnext[s] \in PosIds
    /\ wmin' = [wmin EXCEPT ![s] = Lesser(@, positions[wnext[s]])]
    /\ wnext' = [wnext EXCEPT ![s] = @ + 1]
    /\ UNCHANGED <<ringVars, wpc, sent, log, dropped, scriptVars>>

GlobalMin(m) == IF m = UINT64_MAX THEN 0 ELSE m

\* Faulty CanWrite: one slot too generous.
CanWriteOffByOne(s) == (write_seq[s] - GlobalMin(wmin[s])) % Wrap <= Capacity

\* can_write(): the difference is unsigned.
CanWrite(s) == (write_seq[s] - GlobalMin(wmin[s])) % Wrap < Capacity

\* record_drop() when the slowest reader is about to be lapped; the event is
\* written all the same, its first word ...
PushWriteLo(s) ==
    /\ wpc[s] = "min"
    /\ wnext[s] \notin PosIds
    /\ dropped' = [dropped EXCEPT ![s] = IF CanWrite(s) THEN @ ELSE @ \cup {write_seq[s]}]
    /\ slots' = [slots EXCEPT ![s][SlotOf(write_seq[s])].lo = sent[s][Len(sent[s])]]
    /\ log' = [log EXCEPT ![s] = Append(@, sent[s][Len(sent[s])])]
    /\ wpc' = [wpc EXCEPT ![s] = "hi"]
    /\ wmin' = [wmin EXCEPT ![s] = UINT64_MAX]
    /\ wnext' = [wnext EXCEPT ![s] = 1]
    /\ UNCHANGED <<rings, write_seq, positions, sent, scriptVars>>

\* ... and its last, then the store of write_seq_
PushWriteHi(s) ==
    /\ wpc[s] = "hi"
    /\ slots' = [slots EXCEPT ![s][SlotOf(write_seq[s])].hi = sent[s][Len(sent[s])]]
    /\ wpc' = [wpc EXCEPT ![s] = "store"]
    /\ UNCHANGED <<rings, write_seq, positions, wmin, wnext, sent, log, dropped, scriptVars>>

PushStore(s) ==
    /\ wpc[s] = "store"
    /\ write_seq' = [write_seq EXCEPT ![s] = @ + 1]
    /\ wpc' = [wpc EXCEPT ![s] = "idle"]
    /\ UNCHANGED <<rings, slots, positions, wmin, wnext, sent, log, dropped, scriptVars>>
-----------------------------------------------------------------------------
(* dispatch: make_zero_copy_input() or make_snapshot_input(), then the     *)
(* script.                                                                 *)

KeepWriters == UNCHANGED <<rings, slots, write_seq, writerVars>>

\* The events of s for which push() has returned: route() enqueues them afterwards.
Pushed(s) == IF wpc[s] = "idle" THEN Len(sent[s]) ELSE Len(sent[s]) - 1

\* wait_for_trigger() returned the next event that was routed to the script; mu_
\* is taken.
Dispatch(x) ==
    /\ pc[x] = "idle"
    /\ idx[x] # 0
    /\ taken[x] < MaxInvocations[x]
    /\ taken[x] < Pushed(TriggerOf[x])
    /\ ~Locked
    /\ trigger' = [trigger EXCEPT ![x] = sent[TriggerOf[x]][taken[x] + 1]]
    /\ taken' = [taken EXCEPT ![x] = @ + 1]
    /\ todo' = [todo EXCEPT ![x] = DOMAIN Windows[x]]
    /\ pc' = [pc EXCEPT ![x] = "bound"]
    /\ UNCHANGED <<positions, idx, cur, view, got, input>>
    /\ KeepWriters

\* The bounds of s are known; with the last ones mu_ is released.  A snapshot is
\* copied; a zero-copy script first publishes the position it reads from.
BoundsDone(x, s) ==
    /\ todo' = [todo EXCEPT ![x] = @ \ {s}]
    /\ pc' = [pc EXCEPT ![x] = IF todo[x] # {s} THEN "bound"
                               ELSE IF Mode[x] = "zero_copy" THEN "begin_read" ELSE "read"]

\* A stream without a ring gets no window.
SkipStream(x, s) ==
    /\ pc[x] = "bound"
    /\ s \in todo[x] \ rings
    /\ BoundsDone(x, s)
    /\ UNCHANGED <<positions, idx, trigger, cur, view, got, input, taken>>
    /\ KeepWriters

\* Faulty CountBegin: the subtraction is not guarded.
CountBeginUnguarded(head, n) == head - n

\* compute_begin() for a window that counts.
CountBegin(head, n) == IF head >= n THEN head - n ELSE 0

\* The head is loaded; a counted window is computed from it at once.
BoundCount(x, s) ==
    /\ pc[x] = "bound"
    /\ s \in todo[x] \cap rings
    /\ Windows[x][s].type = "count"
    /\ view' = [view EXCEPT ![x][s] = [begin |-> CountBegin(write_seq[s], Windows[x][s].n),
                                      end   |-> write_seq[s]]]
    /\ BoundsDone(x, s)
    /\ UNCHANGED <<positions, idx, trigger, cur, got, input, taken>>
    /\ KeepWriters

\* A window of time starts from the head ...
BoundTime(x, s) ==
    /\ pc[x] = "bound"
    /\ s \in todo[x] \cap rings
    /\ Windows[x][s].type = "time"
    /\ view' = [view EXCEPT ![x][s] = [begin |-> write_seq[s], end |-> write_seq[s]]]
    /\ cur' = [cur EXCEPT ![x] = s]
    /\ pc' = [pc EXCEPT ![x] = "walk"]
    /\ UNCHANGED <<positions, idx, trigger, todo, got, input, taken>>
    /\ KeepWriters

Cutoff(ts, duration) == IF ts > duration THEN ts - duration ELSE 0

\* Faulty InWindow: the cutoff itself is left out.
InWindowStrict(x, s) ==
    /\ view[x][s].begin > 0
    /\ At(s, view[x][s].begin - 1).lo.ts > Cutoff(trigger[x].ts, Windows[x][s].n)

\* The event before `begin' is in the window: its timestamp, the first word of
\* whatever the slot holds by now, is not older than the cutoff.
InWindow(x, s) ==
    /\ view[x][s].begin > 0
    /\ At(s, view[x][s].begin - 1).lo.ts >= Cutoff(trigger[x].ts, Windows[x][s].n)

\* ... and walks back, one event after the other.
Walk(x) ==
    /\ pc[x] = "walk"
    /\ \/ /\ InWindow(x, cur[x])
          /\ view' = [view EXCEPT ![x][cur[x]].begin = @ - 1]
          /\ UNCHANGED <<pc, todo>>
       \/ /\ ~InWindow(x, cur[x])
          /\ BoundsDone(x, cur[x])
          /\ UNCHANGED view
    /\ UNCHANGED <<positions, idx, trigger, cur, got, input, taken>>
    /\ KeepWriters

\* The streams the script has a window of.
Viewed(x) == DOMAIN Windows[x] \cap rings

\* script_begin_read(script_idx, min_seq), the least begin of all windows; not
\* called when there is no window.
BeginRead(x) ==
    /\ pc[x] = "begin_read"
    /\ \/ /\ Viewed(x) = {}
          /\ UNCHANGED positions
       \/ \E s \in Viewed(x) :
          /\ \A t \in Viewed(x) : view[x][s].begin <= view[x][t].begin
          /\ positions' = [positions EXCEPT ![idx[x]] = view[x][s].begin]
    /\ pc' = [pc EXCEPT ![x] = "read"]
    /\ UNCHANGED <<idx, trigger, todo, cur, view, got, input, taken>>
    /\ KeepWriters

Size(v) == IF v.end > v.begin THEN v.end - v.begin ELSE 0

\* The streams whose window is not read to its end.
Unread(x) == {s \in Viewed(x) : Len(input[x][s]) < Size(view[x][s])}

\* Faulty ReadSeq: newest first, the order of RingView::operator[].
ReadSeqNewestFirst(x, s) == view[x][s].end - 1 - Len(input[x][s])

\* The sequence number the loop over the window of s is at.
ReadSeq(x, s) == view[x][s].begin + Len(input[x][s])

\* The windows are read one after the other, in some order.  read(seq) never
\* returns nullptr below a head that was loaded: the event is copied, its first
\* word ...
ReadLo(x, s) ==
    /\ pc[x] = "read"
    /\ s \in Unread(x)
    /\ \A t \in Unread(x) \ {s} : input[x][t] = <<>>
    /\ cur' = [cur EXCEPT ![x] = s]
    /\ got' = [got EXCEPT ![x] = At(s, ReadSeq(x, s)).lo]
    /\ pc' = [pc EXCEPT ![x] = "read_hi"]
    /\ UNCHANGED <<positions, idx, trigger, todo, view, input, taken>>
    /\ KeepWriters

\* ... and its last
ReadHi(x) ==
    /\ pc[x] = "read_hi"
    /\ input' = [input EXCEPT ![x][cur[x]] =
                     Append(@, [lo |-> got[x], hi |-> At(cur[x], ReadSeq(x, cur[x])).hi])]
    /\ got' = [got EXCEPT ![x] = NoEvent]
    /\ cur' = [cur EXCEPT ![x] = TriggerOf[x]]
    /\ pc' = [pc EXCEPT ![x] = "read"]
    /\ UNCHANGED <<positions, idx, trigger, todo, view, taken>>
    /\ KeepWriters

\* The script has all its input.
Invoked(x) == pc[x] = "read" /\ Unread(x) = {}

\* The script returns.  script_end_read() does nothing: the position stays.
EndRead(x) ==
    /\ Invoked(x)
    /\ pc' = [pc EXCEPT ![x] = "idle"]
    /\ trigger' = [trigger EXCEPT ![x] = NoEvent]
    /\ view' = [view EXCEPT ![x] = NoViews]
    /\ input' = [input EXCEPT ![x] = NoInput]
    /\ UNCHANGED <<positions, idx, todo, cur, got, taken>>
    /\ KeepWriters

-----------------------------------------------------------------------------
Push(s) ==
    \/ \E ts \in 0..MaxTs : PushLookup(s, ts)
    \/ PushMin(s) \/ PushWriteLo(s) \/ PushWriteHi(s) \/ PushStore(s)

Script(x) ==
    \/ Dispatch(x)
    \/ \E s \in Streams : SkipStream(x, s) \/ BoundCount(x, s) \/ BoundTime(x, s) \/ ReadLo(x, s)
    \/ Walk(x) \/ BeginRead(x) \/ ReadHi(x) \/ EndRead(x)

Next ==
    \/ \E s \in Streams : EnsureStream(s) \/ Push(s)
    \/ \E x \in Scripts : RegisterScript(x) \/ Script(x)

Spec == Init /\ [][Next]_vars

-----------------------------------------------------------------------------
(* Properties.                                                             *)

\* Every variable stays in its type.
TypeOK ==
    /\ rings \subseteq Ensured
    /\ slots \in [Streams -> [SlotIds -> [lo : Events, hi : Events]]]
    /\ write_seq \in [Streams -> Nat]
    /\ positions \in Seq(Nat)
    /\ wpc \in [Streams -> {"idle", "min", "hi", "store"}]
    /\ wmin \in [Streams -> 0..UINT64_MAX]
    /\ wnext \in [Streams -> Nat \ {0}]
    /\ idx \in [Scripts -> 0..Len(positions)]
    /\ pc \in [Scripts -> {"idle", "bound", "walk", "begin_read", "read", "read_hi"}]
    /\ trigger \in [Scripts -> Events]
    /\ todo \in [Scripts -> SUBSET Streams]
    /\ cur \in [Scripts -> Streams]
    /\ view \in [Scripts -> [Streams -> [begin : Nat, end : Nat]]]
    /\ got \in [Scripts -> Events]
    /\ input \in [Scripts -> [Streams -> Seq([lo : Events, hi : Events])]]
    /\ taken \in [Scripts -> Nat]
    /\ sent \in [Streams -> Seq(Events)]
    /\ log \in [Streams -> Seq(Events)]
    /\ dropped \in [Streams -> SUBSET Nat]

\* The script has its windows and may read them.
Reading(x) == pc[x] \in {"begin_read", "read", "read_hi"}

\* No write has reused, or begun to reuse, a slot of the view of s.
Unlapped(x, s) == Len(log[s]) <= view[x][s].begin + Capacity

\* The events of the window of s, in order, none missing and none torn.
Intact(x, s) ==
    input[x][s] = [i \in 1..(view[x][s].end - view[x][s].begin) |->
                      Whole(log[s][view[x][s].begin + i])]

\* What a script reads outside mu_, from the ring or as a snapshot, is what was
\* pushed, as long as no writer came round to the oldest event of the window.
InputIntact ==
    \A x \in Scripts, s \in Streams : Invoked(x) /\ Unlapped(x, s) => Intact(x, s)

\* Every write that reuses a slot of the window x has of s was reported by
\* can_write().
LapSeen(x, s) ==
    LET v == view[x][s]
    IN  Reading(x) /\ v.begin < v.end /\ v.end - v.begin <= Capacity =>
            \A seq \in (v.begin + Capacity)..(Len(log[s]) - 1) : seq \in dropped[s]

\* No snapshot and no counted window is lapped in silence, though the positions are
\* loaded one by one, shared by all streams, subtracted without sign and published
\* only after the bounds are known.  A zero-copy script's window of time can be: walked
\* back over the slot that a push under way reuses, it begins before the position
\* published last, which is all that can_write() knows.
LapCounted ==
    \A x \in Scripts : \A s \in DOMAIN Windows[x] :
        Mode[x] = "snapshot" \/ Windows[x][s].type = "count" => LapSeen(x, s)

\* The longest run of newest events among the first `head' of s that are not older
\* than the cutoff starts at b.
IsWindow(s, b, head, cutoff) ==
    /\ \A i \in (b + 1)..head : log[s][i].ts >= cutoff
    /\ b > 0 => log[s][b].ts < cutoff

\* compute_begin() finds the window of time, provided that the ring still held it
\* and the event before it.
WindowExact ==
    \A x \in Scripts : \A s \in Viewed(x) :
        Reading(x) /\ Windows[x][s].type = "time" =>
            \A b \in 0..view[x][s].end :
                /\ IsWindow(s, b, view[x][s].end, Cutoff(trigger[x].ts, Windows[x][s].n))
                /\ b = 0 => Len(log[s]) <= Capacity
                /\ b > 0 => Len(log[s]) < b + Capacity
                => view[x][s].begin = b
=============================================================================
