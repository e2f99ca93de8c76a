----------------------------- MODULE ScriptQueue -----------------------------
(***************************************************************************)
(* One script's event queue: StreamRouter::ScriptQueue with its ring, its  *)
(* mutex and its condition variable; the threads that route events into    *)
(* it; the worker thread that start_pipeline creates for the script; and   *)
(* the main thread stopping it.                                            *)
(*                                                                         *)
(* Every load and store of shared memory is a step of its own.  The mutex  *)
(* q.mtx is held over several steps only by the worker (Locked below);     *)
(* producers and the stopper take it around a single notify call, which is *)
(* one step that needs the mutex free.                                     *)
(***************************************************************************)
EXTENDS Ring, Sequences

CONSTANTS
    Producers,     \* threads that call route() for this queue: ingestors,
                   \* other script workers, the telemetry thread
    MaxEvents,     \* bound: events each producer routes
    NoEvent        \* content of a slot never written

ASSUME ProducersAssumption == Producers # {}
ASSUME MaxEventsAssumption == MaxEvents \in Nat
ASSUME NoEventAssumption == NoEvent \notin Producers \X (1..MaxEvents)

VARIABLES
    \* q.ring
    slots,         \* [slot -> [lo, hi]]
    write_seq,     \* write_seq_
    \* the producers, inside route()
    ppc,           \* where each one is
    pseq,          \* the `seq' each one loaded in write()
    sent,          \* how many events each one has begun to route
    \* q.stopped, g_running and the thread in stop_all_queues()
    stopped,
    g_running,
    spc,
    \* the worker, inside wait_for_trigger()
    wpc,
    read_pos,      \* read_positions_[queue_idx]
    whead,         \* the `head' loaded by the wait predicate
    got,           \* the copy of the event under construction
    \* history
    delivered,     \* what wait_for_trigger() returned, in order
    lapse          \* how the ring was lapped so far, see Lapse

ringVars == <<slots, write_seq>>
prodVars == <<ppc, pseq, sent>>
stopVars == <<stopped, g_running, spc>>
workVars == <<wpc, read_pos, whead, got, delivered>>
vars == <<ringVars, prodVars, stopVars, workVars, lapse>>

-----------------------------------------------------------------------------
\* The k-th event producer p routes.
Event(p, k) == <<p, k>>
Events == Producers \X (1..MaxEvents)
Words == Events \cup {NoEvent}
Copies == [lo : Words, hi : Words]

\* Positions of the worker with q.mtx held.
Critical == {"pred_head", "pred_stopped", "check_stopped", "check_head",
             "ring_read", "copy_lo", "copy_hi"}
Locked == wpc \in Critical

\* The worker loads from the slot before read_pos: wait_for_trigger stores
\* read_pos + 1 first and copies *ev afterwards.
Copying == wpc \in {"copy_lo", "copy_hi"}

\* The write with sequence number seq reuses the slot of an event the worker
\* has still to take ("lag"), or of the one it is copying ("copy").
Lapse(seq) ==
    IF ReaderLag(seq, read_pos) >= Capacity THEN "lag"
    ELSE IF Copying /\ ReaderLag(seq, read_pos - 1) >= Capacity THEN "copy"
    ELSE "none"

\* lapse keeps the worst so far.
Worse(a, b) ==
    IF "lag" \in {a, b} THEN "lag" ELSE IF "copy" \in {a, b} THEN "copy" ELSE "none"

-----------------------------------------------------------------------------
\* register_script_queue() and the construction of the worker thread.
Init ==
    /\ slots = NewSlots(NoEvent)
    /\ write_seq = 0
    /\ ppc = [p \in Producers |-> "idle"]
    /\ pseq = [p \in Producers |-> 0]
    /\ sent = [p \in Producers |-> 0]
    /\ stopped = FALSE
    /\ g_running = TRUE
    /\ spc = "running"
    /\ wpc = "loop"
    /\ read_pos = 0
    /\ whead = 0
    /\ got = Whole(NoEvent)
    /\ delivered = <<>>
    /\ lapse = "none"

-----------------------------------------------------------------------------
(* route() for a target that is this script: q.ring.write(ev), then        *)
(* notify_one under the mutex.                                             *)

\* write(): seq = write_seq_.load()
WriteLoad(p) ==
    /\ ppc[p] = "idle"
    /\ sent[p] < MaxEvents
    /\ sent' = [sent EXCEPT ![p] = @ + 1]
    /\ pseq' = [pseq EXCEPT ![p] = write_seq]
    /\ ppc' = [ppc EXCEPT ![p] = "loaded"]
    /\ UNCHANGED <<ringVars, stopVars, workVars, lapse>>

\* Faulty WriteLo: write_seq_ is bumped before the slot is filled.
WriteLoPublishFirst(p) ==
    /\ ppc[p] = "loaded"
    /\ slots' = [slots EXCEPT ![SlotOf(pseq[p])].lo = Event(p, sent[p])]
    /\ write_seq' = pseq[p] + 1
    /\ lapse' = Worse(lapse, Lapse(pseq[p]))
    /\ ppc' = [ppc EXCEPT ![p] = "half"]
    /\ UNCHANGED <<pseq, sent, stopVars, workVars>>

\* write(): slots_[seq & mask_] = std::move(item), its first word ...
WriteLo(p) ==
    /\ ppc[p] = "loaded"
    /\ slots' = [slots EXCEPT ![SlotOf(pseq[p])].lo = Event(p, sent[p])]
    /\ lapse' = Worse(lapse, Lapse(pseq[p]))
    /\ ppc' = [ppc EXCEPT ![p] = "half"]
    /\ UNCHANGED <<write_seq, pseq, sent, stopVars, workVars>>

\* ... and its last
WriteHi(p) ==
    /\ ppc[p] = "half"
    /\ slots' = [slots EXCEPT ![SlotOf(pseq[p])].hi = Event(p, sent[p])]
    /\ ppc' = [ppc EXCEPT ![p] = "filled"]
    /\ UNCHANGED <<write_seq, pseq, sent, stopVars, workVars, lapse>>

\* write(): write_seq_.store(seq + 1)
WriteStore(p) ==
    /\ ppc[p] = "filled"
    /\ write_seq' = pseq[p] + 1
    /\ ppc' = [ppc EXCEPT ![p] = "stored"]
    /\ UNCHANGED <<slots, pseq, sent, stopVars, workVars, lapse>>

\* A notification moves the worker out of the wait; without a waiting worker
\* it has no effect.
Wake == wpc' = IF wpc = "waiting" THEN "woken" ELSE wpc

\* Faulty Notify: notify_one without q.mtx.
NotifyUnlocked(p) ==
    /\ ppc[p] = "stored"
    /\ Wake
    /\ ppc' = [ppc EXCEPT ![p] = "idle"]
    /\ UNCHANGED <<ringVars, pseq, sent, stopVars, read_pos, whead, got, delivered, lapse>>

\* Faulty Notify: the event is stored and nobody is notified.
NotifyNobody(p) ==
    /\ ppc[p] = "stored"
    /\ ~Locked
    /\ ppc' = [ppc EXCEPT ![p] = "idle"]
    /\ UNCHANGED <<ringVars, pseq, sent, stopVars, workVars, lapse>>

\* lock_guard(q.mtx); q.cv.notify_one()
Notify(p) ==
    /\ ppc[p] = "stored"
    /\ ~Locked
    /\ Wake
    /\ ppc' = [ppc EXCEPT ![p] = "idle"]
    /\ UNCHANGED <<ringVars, pseq, sent, stopVars, read_pos, whead, got, delivered, lapse>>

-----------------------------------------------------------------------------
(* The worker: while (g_running) { wait_for_trigger; dispatch; }           *)

Goto(pc) == wpc' = pc
KeepOthers == UNCHANGED <<ringVars, prodVars, stopVars, lapse>>

\* while (g_running), then unique_lock(q.mtx); the mutex is free because no
\* one else holds it over a step.
LoopTop ==
    /\ wpc = "loop"
    /\ Goto(IF g_running THEN "pred_head" ELSE "exited")
    /\ UNCHANGED <<read_pos, whead, got, delivered>>
    /\ KeepOthers

\* The wait predicate loads the head ...
PredHead ==
    /\ wpc = "pred_head"
    /\ whead' = write_seq
    /\ Goto("pred_stopped")
    /\ UNCHANGED <<read_pos, got, delivered>>
    /\ KeepOthers

\* Faulty PredStopped: head >= read_pos.
PredStoppedOffByOne ==
    /\ wpc = "pred_stopped"
    /\ Goto(IF stopped \/ whead >= read_pos THEN "check_stopped" ELSE "waiting")
    /\ UNCHANGED <<read_pos, whead, got, delivered>>
    /\ KeepOthers

\* ... then stopped.  FALSE releases the mutex and waits, in one step.
PredStopped ==
    /\ wpc = "pred_stopped"
    /\ Goto(IF stopped \/ whead > read_pos THEN "check_stopped" ELSE "waiting")
    /\ UNCHANGED <<read_pos, whead, got, delivered>>
    /\ KeepOthers

\* cv.wait may return without a notification.
SpuriousWakeup ==
    /\ wpc = "waiting"
    /\ Goto("woken")
    /\ UNCHANGED <<read_pos, whead, got, delivered>>
    /\ KeepOthers

\* cv.wait takes the mutex again and evaluates the predicate again.
Reacquire ==
    /\ wpc = "woken"
    /\ Goto("pred_head")
    /\ UNCHANGED <<read_pos, whead, got, delivered>>
    /\ KeepOthers

\* Faulty CheckStopped: the flag is not looked at again after the wait.
CheckStoppedSkipped ==
    /\ wpc = "check_stopped"
    /\ Goto("check_head")
    /\ UNCHANGED <<read_pos, whead, got, delivered>>
    /\ KeepOthers

\* if (q.stopped) return nullopt; the loop breaks on nullopt.
CheckStopped ==
    /\ wpc = "check_stopped"
    /\ Goto(IF stopped THEN "exited" ELSE "check_head")
    /\ UNCHANGED <<read_pos, whead, got, delivered>>
    /\ KeepOthers

\* head = q.ring.head(); if (head <= read_pos) return nullopt
CheckHead ==
    /\ wpc = "check_head"
    /\ Goto(IF write_seq > read_pos THEN "ring_read" ELSE "exited")
    /\ UNCHANGED <<read_pos, whead, got, delivered>>
    /\ KeepOthers

\* Faulty RingRead: the position jumps to the head instead of the next event.
RingReadSkips ==
    /\ wpc = "ring_read"
    /\ \/ /\ Written(read_pos, write_seq)
          /\ read_pos' = write_seq
          /\ Goto("copy_lo")
       \/ /\ ~Written(read_pos, write_seq)
          /\ Goto("exited")
          /\ UNCHANGED read_pos
    /\ UNCHANGED <<whead, got, delivered>>
    /\ KeepOthers

\* ev = q.ring.read(read_pos), which loads the head once more; nullptr
\* returns nullopt, otherwise read_positions_ is advanced.
RingRead ==
    /\ wpc = "ring_read"
    /\ \/ /\ Written(read_pos, write_seq)
          /\ read_pos' = read_pos + 1
          /\ Goto("copy_lo")
       \/ /\ ~Written(read_pos, write_seq)
          /\ Goto("exited")
          /\ UNCHANGED read_pos
    /\ UNCHANGED <<whead, got, delivered>>
    /\ KeepOthers

\* return *ev copies the slot, word by word ...
CopyLo ==
    /\ wpc = "copy_lo"
    /\ got' = [got EXCEPT !.lo = slots[SlotOf(read_pos - 1)].lo]
    /\ Goto("copy_hi")
    /\ UNCHANGED <<read_pos, whead, delivered>>
    /\ KeepOthers

\* ... and the mutex is released after the copy.
CopyHi ==
    /\ wpc = "copy_hi"
    /\ got' = [got EXCEPT !.hi = slots[SlotOf(read_pos - 1)].hi]
    /\ delivered' = Append(delivered, got')
    /\ Goto("dispatch")
    /\ UNCHANGED <<read_pos, whead>>
    /\ KeepOthers

\* data.dispatch(*ev_opt) and the routing of what the script emitted.
Dispatch ==
    /\ wpc = "dispatch"
    /\ Goto("loop")
    /\ UNCHANGED <<read_pos, whead, got, delivered>>
    /\ KeepOthers

-----------------------------------------------------------------------------
(* The main thread.                                                        *)

\* handle_signal, or a failed reload: g_running = false
Shutdown ==
    /\ g_running
    /\ g_running' = FALSE
    /\ UNCHANGED <<ringVars, prodVars, stopped, spc, workVars, lapse>>

\* stop_all_queues(): stopped.store(true) ...
StopStore ==
    /\ spc = "running"
    /\ stopped' = TRUE
    /\ spc' = "storing"
    /\ UNCHANGED <<ringVars, prodVars, g_running, workVars, lapse>>

\* Faulty StopNotify: the flag is set and the sleeping worker not woken.
StopNotifyNobody ==
    /\ spc = "storing"
    /\ ~Locked
    /\ spc' = "notified"
    /\ UNCHANGED <<ringVars, prodVars, stopped, g_running, workVars, lapse>>

\* ... then lock_guard(q.mtx); q.cv.notify_all()
StopNotify ==
    /\ spc = "storing"
    /\ ~Locked
    /\ Wake
    /\ spc' = "notified"
    /\ UNCHANGED <<ringVars, prodVars, stopped, g_running,
                   read_pos, whead, got, delivered, lapse>>

\* stop_pipeline: t.join() on the worker.
Join ==
    /\ spc = "notified"
    /\ wpc = "exited"
    /\ spc' = "joined"
    /\ UNCHANGED <<ringVars, prodVars, stopped, g_running, workVars, lapse>>

-----------------------------------------------------------------------------
Route(p) == WriteLoad(p) \/ WriteLo(p) \/ WriteHi(p) \/ WriteStore(p) \/ Notify(p)

\* A spurious wakeup is the environment's: no fairness makes it happen.
Worker ==
    \/ LoopTop \/ PredHead \/ PredStopped \/ Reacquire
    \/ CheckStopped \/ CheckHead \/ RingRead \/ CopyLo \/ CopyHi
    \/ Dispatch

Stopper == StopNotify \/ Join

Next ==
    \/ \E p \in Producers : Route(p)
    \/ Worker
    \/ SpuriousWakeup
    \/ Shutdown
    \/ StopStore
    \/ Stopper

Spec == Init /\ [][Next]_vars

\* A producer inside route() runs on and obtains the mutex; one that is idle
\* need not route again.  Scripts return.  Whoever called stop_all_queues()
\* goes on to join.  Nothing obliges anyone to stop the queue, except that
\* main() calls stop_pipeline() once g_running is false.
Fairness ==
    /\ \A p \in Producers :
          WF_vars(WriteLo(p) \/ WriteHi(p) \/ WriteStore(p) \/ Notify(p))
    /\ WF_vars(Worker)
    /\ WF_vars(Stopper)
    /\ WF_vars(~g_running /\ StopStore)

LiveSpec == Spec /\ Fairness
-----------------------------------------------------------------------------
(* Properties.                                                             *)

\* Every variable stays in its type.
TypeOK ==
    /\ slots \in [SlotIds -> Copies]
    /\ write_seq \in Nat
    /\ ppc \in [Producers -> {"idle", "loaded", "half", "filled", "stored"}]
    /\ pseq \in [Producers -> Nat]
    /\ sent \in [Producers -> 0..MaxEvents]
    /\ stopped \in BOOLEAN
    /\ g_running \in BOOLEAN
    /\ spc \in {"running", "storing", "notified", "joined"}
    /\ wpc \in Critical \cup {"loop", "waiting", "woken", "dispatch", "exited"}
    /\ read_pos \in Nat
    /\ whead \in Nat
    /\ got \in Copies
    /\ delivered \in Seq(Copies)
    /\ lapse \in {"none", "copy", "lag"}

\* Neither an event nor the stop request slips past a worker that is about to
\* wait: if the worker waits although route() has stored an event or
\* stop_all_queues() has set the flag, the notification for it is still to
\* come.  It holds because both notify under q.mtx after their store, for any
\* number of producers.
NoLostWakeup ==
    wpc = "waiting" =>
        /\ stopped => spc = "storing"
        /\ write_seq > read_pos => \E p \in Producers : ppc[p] = "stored"

\* The events of `delivered' are the producer's first ones, in order, each
\* one intact (a queue with one producer).
Fifo ==
    \A p \in Producers : \A i \in 1..Len(delivered) :
        delivered[i] = Whole(Event(p, i))

\* With one producer, wait_for_trigger() returns the events in order, intact
\* and each once, as long as write() never touched a slot the worker still
\* had to read or was copying.
FifoUnlessLapped == lapse = "none" => Fifo

\* Nothing is left behind: when all producers have left route() and the worker
\* waits, every event that route() was given has been delivered.
NothingLost ==
    /\ wpc = "waiting"
    /\ \A p \in Producers : ppc[p] = "idle"
    /\ lapse = "none"
    => \A p \in Producers : \A k \in 1..sent[p] :
          \E i \in 1..Len(delivered) : delivered[i] = Whole(Event(p, k))

\* The worker leaves its loop only because it was told to: the `spurious wake'
\* returns of wait_for_trigger(), which end the thread for good, are dead code
\* when there is one producer.
ExitOnlyWhenStopped == wpc = "exited" => stopped \/ ~g_running

\* An event stored in the ring is delivered, unless the queue is stopped.
EventuallyDelivered ==
    \A n \in 1..MaxEvents :
        write_seq >= n ~> (Len(delivered) >= n \/ stopped \/ ~g_running)

\* Once the program shuts down, or the queue is stopped for a reload, the worker
\* leaves its loop and the join in stop_pipeline() returns.
StopJoins == (stopped \/ ~g_running) ~> (spc = "joined")

\* The queue as the channel of EventChannel (one producer).  A worker past its
\* check of `stopped' still takes its event.
Sole == CHOOSE p \in Producers : TRUE

Channel == INSTANCE EventChannel WITH
    Limit <- MaxEvents,
    put   <- write_seq,
    taken <- [i \in 1..Len(delivered) |->
                 IF delivered[i] = Whole(Event(Sole, i)) THEN i ELSE 0],
    sound <- lapse = "none",
    phase <- IF ~stopped THEN "open"
             ELSE IF wpc \in {"check_head", "ring_read", "copy_lo", "copy_hi"}
                  THEN "closing" ELSE "closed"

\* The queue implements the channel: order, integrity, and at most one delivery
\* after stop_all_queues() has set the flag.
ImplementsChannel == Channel!ChannelSpec
=============================================================================
