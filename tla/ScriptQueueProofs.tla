-------------------------- MODULE ScriptQueueProofs --------------------------
(***************************************************************************)
(* Proofs about ScriptQueue, for every ring capacity, every set of         *)
(* producers and every number of events.                                   *)
(***************************************************************************)
EXTENDS ScriptQueue, DataProofs, SequenceTheorems

\* A sequence number always selects one of the slots.
LEMMA SlotOfInRange ==
    ASSUME NEW seq \in Nat
    PROVE  SlotOf(seq) \in SlotIds
<1>1. Capacity \in Nat /\ Capacity > 0
    BY CapacityAssumption
<1> QED
    BY <1>1 DEF SlotOf, SlotIds

\* Two sequence numbers less than a ring apart use different slots.
LEMMA SlotsDistinct ==
    ASSUME NEW a \in Nat, NEW b \in Nat, a < b, b - a < Capacity
    PROVE  SlotOf(a) # SlotOf(b)
<1>1. Capacity \in Nat
    BY CapacityAssumption
<1> QED
    BY <1>1, RemaindersDiffer DEF SlotOf

\* Both words of an intact event are that event.
LEMMA WholeWords == \A x : Whole(x).lo = x /\ Whole(x).hi = x
BY DEF Whole

\* Storing one word of an event into a slot, or into the worker's copy, leaves a
\* well-formed slot.
LEMMA WordStore ==
    ASSUME NEW c \in Copies, NEW w \in Words
    PROVE  /\ [c EXCEPT !.lo = w] \in Copies
           /\ [c EXCEPT !.hi = w] \in Copies
BY DEF Copies

-----------------------------------------------------------------------------
(* Type correctness.                                                       *)

\* A producer inside route() has an event in hand; without this an in-flight
\* event would not be known to be one of Events.
InFlight == \A p \in Producers : ppc[p] # "idle" => sent[p] \in 1..MaxEvents

\* The worker copies the slot before its position.
CopyPos == Copying => read_pos > 0

TypeInv == TypeOK /\ InFlight /\ CopyPos

\* Initially all is well-typed and nothing is in flight.
LEMMA TypeInit == Init => TypeInv
<1> SUFFICES ASSUME Init PROVE TypeInv
    OBVIOUS
<1>1. Whole(NoEvent) \in Copies
    BY DEF Whole, Copies, Words
<1>2. slots \in [SlotIds -> Copies]
    BY <1>1 DEF Init, NewSlots
<1>3. delivered \in Seq(Copies)
    BY DEF Init
<1>4. ppc \in [Producers -> {"idle", "loaded", "half", "filled", "stored"}]
    BY DEF Init
<1>5. pseq \in [Producers -> Nat] /\ sent \in [Producers -> 0..MaxEvents]
    BY MaxEventsAssumption DEF Init
<1>6. InFlight /\ CopyPos
    BY DEF Init, InFlight, CopyPos, Copying
<1> QED
    BY <1>1, <1>2, <1>3, <1>4, <1>5, <1>6 DEF Init, TypeInv, TypeOK

\* Every step of every thread preserves the types.
LEMMA TypeStep == TypeInv /\ [Next]_vars => TypeInv'
<1> SUFFICES ASSUME TypeInv, [Next]_vars PROVE TypeInv'
    OBVIOUS
<1> USE DEF TypeInv, TypeOK, InFlight, CopyPos, Copying, ringVars, prodVars, stopVars, workVars, Goto, KeepOthers
<1>1. ASSUME NEW p \in Producers, WriteLoad(p) PROVE TypeInv'
    BY <1>1, MaxEventsAssumption DEF WriteLoad
<1>2. ASSUME NEW p \in Producers, WriteLo(p) PROVE TypeInv'
    <2>1. Event(p, sent[p]) \in Words
        BY <1>2 DEF WriteLo, Event, Words, Events
    <2>2. SlotOf(pseq[p]) \in SlotIds
        BY SlotOfInRange
    <2>3. slots' \in [SlotIds -> Copies]
        BY <1>2, <2>1, <2>2, WordStore DEF WriteLo
    <2>4. lapse' \in {"none", "copy", "lag"}
        BY <1>2 DEF WriteLo, Worse
    <2> QED
        BY <1>2, <2>3, <2>4 DEF WriteLo
<1>3. ASSUME NEW p \in Producers, WriteHi(p) PROVE TypeInv'
    <2>1. Event(p, sent[p]) \in Words
        BY <1>3 DEF WriteHi, Event, Words, Events
    <2>2. SlotOf(pseq[p]) \in SlotIds
        BY SlotOfInRange
    <2>3. slots' \in [SlotIds -> Copies]
        BY <1>3, <2>1, <2>2, WordStore DEF WriteHi
    <2> QED
        BY <1>3, <2>3 DEF WriteHi
<1>4. ASSUME NEW p \in Producers, WriteStore(p) PROVE TypeInv'
    BY <1>4 DEF WriteStore
<1>5. ASSUME NEW p \in Producers, Notify(p) PROVE TypeInv'
    BY <1>5 DEF Notify, Wake
<1>6. CASE LoopTop \/ PredHead \/ PredStopped \/ SpuriousWakeup \/ Reacquire
    BY <1>6 DEF LoopTop, PredHead, PredStopped, SpuriousWakeup, Reacquire, Critical
<1>7. CASE CheckStopped \/ CheckHead \/ RingRead \/ Dispatch
    BY <1>7 DEF CheckStopped, CheckHead, RingRead, Dispatch, Critical
<1>8. CASE CopyLo
    <2>1. read_pos - 1 \in Nat
        BY <1>8 DEF CopyLo
    <2>2. slots[SlotOf(read_pos - 1)].lo \in Words
        <3>1. slots[SlotOf(read_pos - 1)] \in Copies
            BY <2>1, SlotOfInRange
        <3> QED
            BY <3>1 DEF Copies
    <2> QED
        BY <1>8, <2>2, WordStore DEF CopyLo, Critical
<1>9. CASE CopyHi
    <2>1. read_pos - 1 \in Nat
        BY <1>9 DEF CopyHi
    <2>2. slots[SlotOf(read_pos - 1)].hi \in Words
        <3>1. slots[SlotOf(read_pos - 1)] \in Copies
            BY <2>1, SlotOfInRange
        <3> QED
            BY <3>1 DEF Copies
    <2>3. got' \in Copies
        BY <1>9, <2>2, WordStore DEF CopyHi
    <2>4. delivered' \in Seq(Copies)
        BY <1>9, <2>3 DEF CopyHi
    <2> QED
        BY <1>9, <2>3, <2>4 DEF CopyHi
<1>10. CASE Shutdown \/ StopStore \/ StopNotify \/ Join
    BY <1>10 DEF Shutdown, StopStore, StopNotify, Join, Wake
<1>11. CASE UNCHANGED vars
    BY <1>11 DEF vars
<1> QED
    BY <1>1, <1>2, <1>3, <1>4, <1>5, <1>6, <1>7, <1>8, <1>9, <1>10, <1>11
    DEF Next, Route, Worker, Stopper

\* Every variable keeps its type, whatever the threads do, and the worker never
\* copies from before the first slot.
THEOREM TypeCorrect == Spec => []TypeOK
<1>1. Spec => []TypeInv
    BY TypeInit, TypeStep, PTL DEF Spec
<1>2. TypeInv => TypeOK
    BY DEF TypeInv
<1> QED
    BY <1>1, <1>2, PTL

-----------------------------------------------------------------------------
(* No lost wakeup.                                                         *)

StorePending == \E p \in Producers : ppc[p] = "stored"

\* The window between the predicate's load of the head and the wait: a store
\* the predicate missed still has its notification ahead of it, because the
\* worker holds q.mtx.
MissedStore ==
    wpc = "pred_stopped" /\ whead <= read_pos /\ write_seq > read_pos => StorePending

\* The stop flag is up exactly while or after stop_all_queues() runs.
StopFlag == stopped <=> spc # "running"

WakeupInv == TypeInv /\ NoLostWakeup /\ MissedStore /\ StopFlag

\* Every step preserves the invariant behind NoLostWakeup.
LEMMA WakeupStep == WakeupInv /\ [Next]_vars => WakeupInv'
<1> SUFFICES ASSUME WakeupInv, [Next]_vars PROVE WakeupInv'
    OBVIOUS
<1>1. TypeInv'
    BY TypeStep DEF WakeupInv
<1> USE <1>1 DEF WakeupInv, NoLostWakeup, MissedStore, StopFlag, StorePending,
        TypeInv, TypeOK, ringVars, prodVars, stopVars, workVars, Goto, KeepOthers
<1>2. ASSUME NEW p \in Producers, WriteLoad(p) \/ WriteLo(p) \/ WriteHi(p) PROVE WakeupInv'
    BY <1>2 DEF WriteLoad, WriteLo, WriteHi
<1>3. ASSUME NEW p \in Producers, WriteStore(p) PROVE WakeupInv'
    BY <1>3 DEF WriteStore
<1>4. ASSUME NEW p \in Producers, Notify(p) PROVE WakeupInv'
    BY <1>4 DEF Notify, Wake, Locked, Critical
<1>5. CASE LoopTop \/ PredHead \/ PredStopped \/ SpuriousWakeup \/ Reacquire
    BY <1>5 DEF LoopTop, PredHead, PredStopped, SpuriousWakeup, Reacquire
<1>6. CASE CheckStopped \/ CheckHead \/ RingRead \/ CopyLo \/ CopyHi \/ Dispatch
    BY <1>6 DEF CheckStopped, CheckHead, RingRead, CopyLo, CopyHi, Dispatch
<1>7. CASE Shutdown \/ StopStore \/ Join
    BY <1>7 DEF Shutdown, StopStore, Join
<1>8. CASE StopNotify
    BY <1>8 DEF StopNotify, Wake, Locked, Critical
<1>9. CASE UNCHANGED vars
    BY <1>9 DEF vars
<1> QED
    BY <1>2, <1>3, <1>4, <1>5, <1>6, <1>7, <1>8, <1>9 DEF Next, Route, Worker, Stopper

\* Initially the worker is not waiting.
LEMMA WakeupInit == Init => WakeupInv
BY TypeInit DEF Init, WakeupInv, NoLostWakeup, MissedStore, StopFlag, StorePending

\* A waiting worker that has something to do has a notification on its way, for
\* any number of producers.
THEOREM WakeupCorrect == Spec => []NoLostWakeup
<1>1. WakeupInv => NoLostWakeup
    BY DEF WakeupInv
<1> QED
    BY <1>1, WakeupInit, WakeupStep, PTL DEF Spec

-----------------------------------------------------------------------------
(* One producer: the worker survives until it is told to stop.             *)

OneWriter == \A p, q \in Producers : p = q

\* The producer's sequence number is the head until it stores.
HeadClaimed ==
    \A p \in Producers : ppc[p] \in {"loaded", "half", "filled"} => pseq[p] = write_seq

\* What the worker concluded from the head it loaded stays true.
HeadAhead ==
    /\ whead <= write_seq
    /\ wpc = "check_stopped" => stopped \/ write_seq > read_pos
    /\ wpc \in {"check_head", "ring_read"} => write_seq > read_pos

ExitInv == TypeInv /\ HeadClaimed /\ HeadAhead /\ ExitOnlyWhenStopped

\* With one producer the head never moves back under the worker.
LEMMA ExitStep == ASSUME OneWriter PROVE ExitInv /\ [Next]_vars => ExitInv'
<1> SUFFICES ASSUME ExitInv, [Next]_vars PROVE ExitInv'
    OBVIOUS
<1>1. TypeInv'
    BY TypeStep DEF ExitInv
<1> USE <1>1 DEF ExitInv, HeadClaimed, HeadAhead, ExitOnlyWhenStopped,
        TypeInv, TypeOK, ringVars, prodVars, stopVars, workVars, Goto, KeepOthers
<1>2. ASSUME NEW p \in Producers, WriteLoad(p) \/ WriteLo(p) \/ WriteHi(p) PROVE ExitInv'
    BY <1>2 DEF WriteLoad, WriteLo, WriteHi
<1>3. ASSUME NEW p \in Producers, WriteStore(p) PROVE ExitInv'
    <2>1. write_seq' = write_seq + 1
        BY <1>3 DEF WriteStore
    <2>2. \A q \in Producers : ppc'[q] = "stored"
        BY <1>3, OneWriter DEF WriteStore, OneWriter
    <2> QED
        BY <1>3, <2>1, <2>2 DEF WriteStore
<1>4. ASSUME NEW p \in Producers, Notify(p) PROVE ExitInv'
    BY <1>4 DEF Notify, Wake
<1>5. CASE LoopTop \/ PredHead \/ PredStopped \/ SpuriousWakeup \/ Reacquire
    BY <1>5 DEF LoopTop, PredHead, PredStopped, SpuriousWakeup, Reacquire
<1>6. CASE CheckStopped \/ CheckHead \/ RingRead \/ CopyLo \/ CopyHi \/ Dispatch
    BY <1>6 DEF CheckStopped, CheckHead, RingRead, CopyLo, CopyHi, Dispatch, Written
<1>7. CASE Shutdown \/ StopStore \/ StopNotify \/ Join
    BY <1>7 DEF Shutdown, StopStore, StopNotify, Join, Wake
<1>8. CASE UNCHANGED vars
    BY <1>8 DEF vars
<1> QED
    BY <1>2, <1>3, <1>4, <1>5, <1>6, <1>7, <1>8 DEF Next, Route, Worker, Stopper

\* With one producer the `spurious wake' and nullptr returns of
\* wait_for_trigger() are never taken: the worker ends only when told to.
THEOREM ExitCorrect == ASSUME OneWriter PROVE Spec => []ExitOnlyWhenStopped
<1>1. Init => ExitInv
    BY TypeInit DEF Init, ExitInv, HeadClaimed, HeadAhead, ExitOnlyWhenStopped
<1>2. ExitInv => ExitOnlyWhenStopped
    BY DEF ExitInv
<1> QED
    BY <1>1, <1>2, ExitStep, PTL DEF Spec

-----------------------------------------------------------------------------
(* One producer: the events come out in order and intact.                  *)

Taken == Len(delivered)

\* wait_for_trigger() has delivered everything before its position, except the
\* event it is copying.
Position == Taken = (IF Copying THEN read_pos - 1 ELSE read_pos) /\ read_pos <= write_seq

\* The event with sequence number s is the producer's event s + 1.
Counted ==
    \A p \in Producers :
        sent[p] = IF ppc[p] \in {"loaded", "half", "filled"} THEN write_seq + 1 ELSE write_seq

\* The undelivered events fit in the ring, with a slot to spare for the one
\* being written.
Fits ==
    /\ write_seq - Taken <= Capacity
    /\ \A p \in Producers : ppc[p] \in {"half", "filled"} => write_seq - Taken < Capacity

\* Every undelivered event is intact in its slot.
Live ==
    \A p \in Producers : \A s \in Taken..(write_seq - 1) :
        slots[SlotOf(s)] = Whole(Event(p, s + 1))

\* What write() has put into the slot so far.
Filling ==
    \A p \in Producers :
        /\ ppc[p] = "half" => slots[SlotOf(write_seq)].lo = Event(p, write_seq + 1)
        /\ ppc[p] = "filled" => slots[SlotOf(write_seq)] = Whole(Event(p, write_seq + 1))

\* What the worker has copied so far.
Copied == wpc = "copy_hi" => \A p \in Producers : got.lo = Event(p, read_pos)

DataInv == Fits /\ Live /\ Filling /\ Copied /\ Fifo

FifoInv == ExitInv /\ Position /\ Counted /\ (lapse = "none" => DataInv)

\* The bookkeeping part: positions and counts.
LEMMA PositionStep ==
    ASSUME OneWriter, FifoInv, [Next]_vars
    PROVE  Position' /\ Counted'
<1>1. ExitInv'
    BY ExitStep DEF FifoInv
<1> USE <1>1 DEF FifoInv, Position, Counted, Taken, Copying, ExitInv, HeadClaimed,
        TypeInv, TypeOK, ringVars, prodVars, stopVars, workVars, Goto, KeepOthers
<1>2. ASSUME NEW p \in Producers, WriteLoad(p) \/ WriteLo(p) \/ WriteHi(p)
      PROVE  Position' /\ Counted'
    <2>1. CASE WriteLoad(p)
        BY <2>1 DEF WriteLoad
    <2>2. CASE WriteLo(p)
        BY <2>2 DEF WriteLo
    <2>3. CASE WriteHi(p)
        BY <2>3 DEF WriteHi
    <2> QED
        BY <1>2, <2>1, <2>2, <2>3
<1>3. ASSUME NEW p \in Producers, WriteStore(p) PROVE Position' /\ Counted'
    <2>1. write_seq' = write_seq + 1
        BY <1>3 DEF WriteStore
    <2>2. \A q \in Producers : q = p
        BY OneWriter DEF OneWriter
    <2> QED
        BY <1>3, <2>1, <2>2 DEF WriteStore
<1>4. ASSUME NEW p \in Producers, Notify(p) PROVE Position' /\ Counted'
    BY <1>4 DEF Notify, Wake
<1>5. CASE LoopTop \/ PredHead \/ PredStopped \/ SpuriousWakeup \/ Reacquire
    BY <1>5 DEF LoopTop, PredHead, PredStopped, SpuriousWakeup, Reacquire
<1>6. CASE CheckStopped \/ CheckHead \/ CopyLo \/ Dispatch
    BY <1>6 DEF CheckStopped, CheckHead, CopyLo, Dispatch
<1>7. CASE RingRead
    <2>1. Written(read_pos, write_seq)
        BY <1>7 DEF RingRead, Written, HeadAhead
    <2>2. read_pos' = read_pos + 1 /\ wpc' = "copy_lo" /\ wpc = "ring_read"
        BY <1>7, <2>1 DEF RingRead
    <2> QED
        BY <1>7, <2>1, <2>2 DEF RingRead, Written
<1>8. CASE CopyHi
    <2>1. Len(delivered') = Len(delivered) + 1
        BY <1>8 DEF CopyHi
    <2> QED
        BY <1>8, <2>1 DEF CopyHi
<1>9. CASE Shutdown \/ StopStore \/ StopNotify \/ Join
    BY <1>9 DEF Shutdown, StopStore, StopNotify, Join, Wake
<1>10. CASE UNCHANGED vars
    BY <1>10 DEF vars
<1> QED
    BY <1>2, <1>3, <1>4, <1>5, <1>6, <1>7, <1>8, <1>9, <1>10 DEF Next, Route, Worker, Stopper

\* A write that laps nobody leaves the slots of the undelivered events alone.
LEMMA WriteElsewhere ==
    ASSUME FifoInv, write_seq - Taken < Capacity,
           NEW s \in Taken..(write_seq - 1)
    PROVE  SlotOf(s) # SlotOf(write_seq)
<1>1. Taken \in Nat /\ write_seq \in Nat
    BY DEF Taken, FifoInv, ExitInv, TypeInv, TypeOK
<1>2. s \in Nat /\ s < write_seq /\ write_seq - s < Capacity
    BY <1>1, CapacityAssumption
<1> QED
    BY <1>1, <1>2, SlotsDistinct

\* The data part: as long as the ring is not lapped, slots, copy and deliveries
\* hold the right events.
LEMMA DataStep ==
    ASSUME OneWriter, FifoInv, [Next]_vars, lapse' = "none"
    PROVE  DataInv'
<1>1. ExitInv' /\ Position' /\ Counted'
    BY ExitStep, PositionStep DEF FifoInv
<1>2. lapse = "none"
    <2>1. CASE lapse' = lapse
        BY <2>1
    <2>2. ASSUME NEW p \in Producers, WriteLo(p) PROVE lapse = "none"
        BY <2>2 DEF WriteLo, Worse, FifoInv, ExitInv, TypeInv, TypeOK
    <2>3. lapse' = lapse \/ \E p \in Producers : WriteLo(p)
        BY DEF Next, Route, Worker, Stopper, vars, ringVars, prodVars, stopVars, workVars,
           KeepOthers, WriteLoad, WriteHi, WriteStore, Notify, LoopTop, PredHead,
           PredStopped, SpuriousWakeup, Reacquire, CheckStopped, CheckHead, RingRead,
           CopyLo, CopyHi, Dispatch, Shutdown, StopStore, StopNotify, Join
    <2> QED
        BY <2>1, <2>2, <2>3
<1>3. DataInv
    BY <1>2 DEF FifoInv
<1>4. TypeOK /\ HeadClaimed /\ Position /\ Counted /\ Taken \in Nat /\ Capacity \in Nat
    BY CapacityAssumption DEF FifoInv, ExitInv, TypeInv, TypeOK, Taken
<1>5. \A p, q \in Producers : p = q
    BY OneWriter DEF OneWriter
<1> USE DEF ringVars, prodVars, stopVars, workVars, Goto, KeepOthers
<1>6. ASSUME NEW p \in Producers, WriteLoad(p) PROVE DataInv'
    BY <1>6, <1>3, <1>4
    DEF WriteLoad, DataInv, Fits, Live, Filling, Copied, Fifo, Taken, TypeOK
<1>7. ASSUME NEW p \in Producers, WriteLo(p) PROVE DataInv'
    <2>1. pseq[p] = write_seq /\ sent[p] = write_seq + 1
        BY <1>7, <1>4 DEF WriteLo, HeadClaimed, Counted
    <2>2. write_seq - Taken < Capacity
        BY <1>7, <1>2, <1>4, <2>1
        DEF WriteLo, Worse, Lapse, ReaderLag, Position, Copying, TypeOK
    <2>3. slots' = [slots EXCEPT ![SlotOf(write_seq)].lo = Event(p, write_seq + 1)]
        BY <1>7, <2>1 DEF WriteLo
    <2>4. SlotOf(write_seq) \in SlotIds
        BY <1>4, SlotOfInRange DEF TypeOK
    <2>5. Live'
        BY <1>7, <1>3, <1>4, <2>2, <2>3, WriteElsewhere DEF WriteLo, DataInv, Live, Taken
    <2>6. Filling'
        BY <1>7, <1>4, <1>5, <2>3, <2>4 DEF WriteLo, Filling, TypeOK, Copies
    <2> QED
        BY <1>7, <1>3, <2>2, <2>5, <2>6 DEF WriteLo, DataInv, Fits, Copied, Fifo, Taken
<1>8. ASSUME NEW p \in Producers, WriteHi(p) PROVE DataInv'
    <2>1. pseq[p] = write_seq /\ sent[p] = write_seq + 1
        BY <1>8, <1>4 DEF WriteHi, HeadClaimed, Counted
    <2>2. write_seq - Taken < Capacity
        BY <1>8, <1>3 DEF WriteHi, DataInv, Fits
    <2>3. slots' = [slots EXCEPT ![SlotOf(write_seq)].hi = Event(p, write_seq + 1)]
        BY <1>8, <2>1 DEF WriteHi
    <2>4. SlotOf(write_seq) \in SlotIds
        BY <1>4, SlotOfInRange DEF TypeOK
    <2>5. Live'
        BY <1>8, <1>3, <1>4, <2>2, <2>3, WriteElsewhere DEF WriteHi, DataInv, Live, Taken
    <2>6. Filling'
        BY <1>8, <1>3, <1>4, <1>5, <2>3, <2>4
        DEF WriteHi, DataInv, Filling, TypeOK, Copies, Whole
    <2> QED
        BY <1>8, <1>3, <2>2, <2>5, <2>6 DEF WriteHi, DataInv, Fits, Copied, Fifo, Taken
<1>9. ASSUME NEW p \in Producers, WriteStore(p) PROVE DataInv'
    <2>1. write_seq' = write_seq + 1
        BY <1>9, <1>4 DEF WriteStore, HeadClaimed
    <2>2. Live'
        BY <1>9, <1>3, <1>4, <1>5, <2>1
        DEF WriteStore, DataInv, Live, Filling, Taken, TypeOK
    <2>3. Fits' /\ Filling'
        BY <1>9, <1>3, <1>4, <1>5, <2>1 DEF WriteStore, DataInv, Fits, Filling, Taken, TypeOK
    <2> QED
        BY <1>9, <1>3, <2>2, <2>3 DEF WriteStore, DataInv, Copied, Fifo
<1>10. ASSUME NEW p \in Producers, Notify(p) PROVE DataInv'
    BY <1>10, <1>3, <1>4
    DEF Notify, Wake, DataInv, Fits, Live, Filling, Copied, Fifo, Taken, TypeOK
<1>11. CASE LoopTop \/ PredHead \/ PredStopped \/ SpuriousWakeup \/ Reacquire
           \/ CheckStopped \/ CheckHead \/ RingRead \/ Dispatch
    BY <1>11, <1>3
    DEF LoopTop, PredHead, PredStopped, SpuriousWakeup, Reacquire, CheckStopped, CheckHead,
        RingRead, Dispatch, DataInv, Fits, Live, Filling, Copied, Fifo, Taken
<1>12. CASE CopyLo
    <2>1. read_pos \in Nat /\ read_pos - 1 = Taken /\ read_pos - 1 \in Taken..(write_seq - 1)
        BY <1>12, <1>4 DEF CopyLo, Position, Copying, TypeOK
    <2>2. \A p \in Producers : slots[SlotOf(read_pos - 1)] = Whole(Event(p, read_pos))
        <3>1. (read_pos - 1) + 1 = read_pos
            BY <2>1
        <3> QED
            BY <1>3, <2>1, <3>1 DEF DataInv, Live
    <2>3. Copied'
        <3> SUFFICES ASSUME NEW p \in Producers PROVE got'.lo = Event(p, read_pos)
            BY <1>12 DEF CopyLo, Copied
        <3>1. slots[SlotOf(read_pos - 1)].lo = Event(p, read_pos)
            BY <2>2, WholeWords, Zenon
        <3> QED
            BY <1>12, <1>4, <3>1 DEF CopyLo, TypeOK, Copies
    <2> QED
        BY <1>12, <1>3, <2>3 DEF CopyLo, DataInv, Fits, Live, Filling, Fifo, Taken
<1>13. CASE CopyHi
    <2>1. read_pos \in Nat /\ read_pos - 1 = Taken /\ read_pos - 1 \in Taken..(write_seq - 1)
        BY <1>13, <1>4 DEF CopyHi, Position, Copying, TypeOK
    <2>2. \A p \in Producers : slots[SlotOf(read_pos - 1)] = Whole(Event(p, read_pos))
        <3>1. (read_pos - 1) + 1 = read_pos
            BY <2>1
        <3> QED
            BY <1>3, <2>1, <3>1 DEF DataInv, Live
    <2>3. \A p \in Producers : got' = Whole(Event(p, read_pos))
        <3> SUFFICES ASSUME NEW p \in Producers PROVE got' = Whole(Event(p, read_pos))
            OBVIOUS
        <3>1. got.lo = Event(p, read_pos)
            BY <1>13, <1>3 DEF CopyHi, DataInv, Copied
        <3>2. slots[SlotOf(read_pos - 1)].hi = Event(p, read_pos)
            BY <2>2, WholeWords, Zenon
        <3>3. got' = [lo |-> got.lo, hi |-> slots[SlotOf(read_pos - 1)].hi]
            BY <1>13, <1>4 DEF CopyHi, TypeOK, Copies
        <3> QED
            BY <3>1, <3>2, <3>3 DEF Whole
    <2>4. read_pos = Len(delivered) + 1
        BY <1>13, <1>4 DEF CopyHi, Position, Copying, Taken, TypeOK
    <2>5. delivered' = Append(delivered, got') /\ delivered \in Seq(Copies) /\ got' \in Copies
        BY <1>13, <1>1, <1>4 DEF CopyHi, TypeOK, ExitInv, TypeInv
    <2>6. Fifo'
        BY <1>3, <2>3, <2>4, <2>5 DEF DataInv, Fifo
    <2>7. Taken' = Taken + 1
        BY <2>5 DEF Taken
    <2>8. Fits'
        BY <1>13, <1>3, <1>4, <2>7 DEF CopyHi, DataInv, Fits, TypeOK
    <2>9. Live'
        <3>1. \A s \in Taken'..(write_seq' - 1) : s \in Taken..(write_seq - 1)
            BY <1>13, <1>4, <2>7 DEF CopyHi, TypeOK
        <3> QED
            BY <1>13, <1>3, <3>1 DEF CopyHi, DataInv, Live
    <2> QED
        BY <1>13, <1>3, <2>6, <2>8, <2>9 DEF CopyHi, DataInv, Filling, Copied
<1>14. CASE Shutdown \/ StopStore \/ StopNotify \/ Join
    BY <1>14, <1>3
    DEF Shutdown, StopStore, StopNotify, Join, Wake, DataInv, Fits, Live, Filling, Copied,
        Fifo, Taken
<1>15. CASE UNCHANGED vars
    BY <1>15, <1>3 DEF vars, DataInv, Fits, Live, Filling, Copied, Fifo, Taken
<1> QED
    BY <1>6, <1>7, <1>8, <1>9, <1>10, <1>11, <1>12, <1>13, <1>14, <1>15
    DEF Next, Route, Worker, Stopper

\* Initially the ring is empty and nothing is delivered.
LEMMA FifoInit == Init => FifoInv
<1> SUFFICES ASSUME Init PROVE FifoInv
    OBVIOUS
<1>1. ExitInv
    BY TypeInit DEF Init, ExitInv, HeadClaimed, HeadAhead, ExitOnlyWhenStopped
<1>2. Taken = 0
    BY DEF Init, Taken
<1>3. Position /\ Counted
    BY <1>2 DEF Init, Position, Counted, Copying
<1>4. Fits /\ Live /\ Filling /\ Copied
    BY <1>2, CapacityAssumption DEF Init, Fits, Live, Filling, Copied
<1>5. Fifo
    BY <1>2 DEF Fifo, Taken
<1> QED
    BY <1>1, <1>3, <1>4, <1>5 DEF FifoInv, DataInv

\* Every step preserves both parts.
LEMMA FifoStep == ASSUME OneWriter PROVE FifoInv /\ [Next]_vars => FifoInv'
BY ExitStep, PositionStep, DataStep DEF FifoInv

\* With one producer, and as long as no write reuses a slot the worker has yet to
\* read or is copying, wait_for_trigger() returns every event once, in order and
\* intact, whatever the capacity.
THEOREM FifoCorrect == ASSUME OneWriter PROVE Spec => []FifoUnlessLapped
<1>1. FifoInv => FifoUnlessLapped
    BY DEF FifoInv, DataInv, FifoUnlessLapped
<1> QED
    BY <1>1, FifoInit, FifoStep, PTL DEF Spec

-----------------------------------------------------------------------------
(* One producer: nothing is left behind.                                   *)

\* With one producer and an unlapped ring, a queue at rest has delivered every
\* event that route() was given.
THEOREM NothingLostCorrect == ASSUME OneWriter PROVE Spec => []NothingLost
<1>1. Init => FifoInv /\ WakeupInv
    BY FifoInit, WakeupInit
<1>2. FifoInv /\ WakeupInv /\ [Next]_vars => FifoInv' /\ WakeupInv'
    BY FifoStep, WakeupStep
<1>3. FifoInv /\ WakeupInv => NothingLost
    <2> SUFFICES ASSUME FifoInv, WakeupInv, wpc = "waiting", lapse = "none",
                        \A p \in Producers : ppc[p] = "idle",
                        NEW p \in Producers, NEW k \in 1..sent[p]
                 PROVE  \E i \in 1..Len(delivered) : delivered[i] = Whole(Event(p, k))
        BY DEF NothingLost
    <2>1. write_seq = read_pos
        BY DEF FifoInv, Position, ExitInv, WakeupInv, NoLostWakeup, TypeInv, TypeOK
    <2>2. Len(delivered) = read_pos /\ sent[p] = write_seq
        BY DEF FifoInv, Position, Copying, Taken, Counted
    <2>3. k \in 1..Len(delivered)
        BY <2>1, <2>2
    <2> QED
        BY <2>3 DEF FifoInv, DataInv, Fifo
<1> QED
    BY <1>1, <1>2, <1>3, PTL DEF Spec

-----------------------------------------------------------------------------
(* One producer: the queue implements EventChannel.                        *)

\* The abstract messages: taken and phase as the refinement mapping computes them.
Number(d, i) == IF d[i] = Whole(Event(Sole, i)) THEN i ELSE 0
Numbers(d) == [i \in 1..Len(d) |-> Number(d, i)]
Taking == wpc \in {"check_head", "ring_read", "copy_lo", "copy_hi"}
Phase == IF ~stopped THEN "open" ELSE IF Taking THEN "closing" ELSE "closed"

\* Delivering one more event takes one more message.
LEMMA NumbersAppend ==
    ASSUME NEW d \in Seq(Copies), NEW c \in Copies
    PROVE  Numbers(Append(d, c)) = Append(Numbers(d), Number(Append(d, c), Len(d) + 1))
<1> DEFINE dd == Append(d, c)
           n == Len(d) + 1
<1>1. Len(d) \in Nat /\ Len(dd) = n /\ \A i \in 1..Len(d) : dd[i] = d[i]
    OBVIOUS
<1> HIDE DEF dd
<1>2. \A i \in 1..Len(d) : Number(dd, i) = Number(d, i)
    BY <1>1 DEF Number
<1>3. \A i \in 1..Len(d) : Number(d, i) \in Nat
    BY DEF Number
<1>4. Numbers(d) \in Seq(Nat) /\ Len(Numbers(d)) = Len(d)
    BY <1>1, <1>3 DEF Numbers
<1>5. Number(dd, n) \in Nat
    BY <1>1 DEF Number
<1>6. Append(Numbers(d), Number(dd, n)) = [i \in 1..n |-> Number(dd, i)]
    <2> DEFINE a == Append(Numbers(d), Number(dd, n))
    <2>1. a \in Seq(Nat) /\ Len(a) = n
        BY <1>4, <1>5
    <2>2. \A i \in 1..Len(d) : a[i] = Numbers(d)[i]
        BY <1>1, <1>4, <1>5
    <2>3. a[n] = Number(dd, n)
        BY <1>4, <1>5
    <2>4. \A i \in 1..n : a[i] = Number(dd, i)
        BY <1>1, <1>2, <2>2, <2>3 DEF Numbers
    <2> HIDE DEF a
    <2>5. a \in [1..n -> Nat]
        BY <2>1, LenProperties
    <2>6. a = [i \in 1..n |-> Number(dd, i)]
        BY <2>4, <2>5
    <2> QED
        BY <2>6 DEF a
<1>7. Numbers(dd) = [i \in 1..n |-> Number(dd, i)]
    BY <1>1 DEF Numbers
<1>8. Numbers(dd) = Append(Numbers(d), Number(dd, n))
    BY <1>6, <1>7
<1> QED
    BY <1>8 DEF dd

\* The producer of the mapping is the one there is.
LEMMA SoleProducer == Sole \in Producers
BY ProducersAssumption DEF Sole

\* The state functions above are those of the mapping.
LEMMA Mapping ==
    /\ Channel!Put <=> /\ write_seq < MaxEvents
                       /\ write_seq' = write_seq + 1
                       /\ Numbers(delivered)' = Numbers(delivered)
                       /\ (lapse = "none")' = (lapse = "none")
                       /\ Phase' = Phase
    /\ Channel!Take <=> /\ Phase # "closed"
                        /\ Len(Numbers(delivered)) < write_seq
                        /\ \/ Numbers(delivered)' =
                                  Append(Numbers(delivered), Len(Numbers(delivered)) + 1)
                           \/ /\ ~(lapse = "none")
                              /\ Numbers(delivered)' = Append(Numbers(delivered), 0)
                        /\ Phase' = IF Phase = "closing" THEN "closed" ELSE Phase
                        /\ write_seq' = write_seq
                        /\ (lapse = "none")' = (lapse = "none")
    /\ Channel!Lap <=> /\ lapse = "none"
                       /\ (lapse = "none")' = FALSE
                       /\ write_seq' = write_seq
                       /\ Numbers(delivered)' = Numbers(delivered)
                       /\ Phase' = Phase
    /\ Channel!Close <=> /\ Phase = "open"
                         /\ Phase' \in {"closing", "closed"}
                         /\ write_seq' = write_seq
                         /\ Numbers(delivered)' = Numbers(delivered)
                         /\ (lapse = "none")' = (lapse = "none")
    /\ UNCHANGED Channel!chanVars <=> /\ write_seq' = write_seq
                                      /\ Numbers(delivered)' = Numbers(delivered)
                                      /\ (lapse = "none")' = (lapse = "none")
                                      /\ Phase' = Phase
BY DEF Channel!Put, Channel!Take, Channel!Lap, Channel!Close, Channel!chanVars,
       Numbers, Number, Phase, Taking

\* Every step of the queue is a step of the channel or leaves it as it is.
LEMMA ChannelStep ==
    ASSUME OneWriter, FifoInv, FifoInv', [Next]_vars
    PROVE  [Channel!ChannelNext]_Channel!chanVars
<1> DEFINE Stutter == /\ write_seq' = write_seq
                      /\ delivered' = delivered
                      /\ (lapse' = "none") = (lapse = "none")
                      /\ Phase' = Phase
<1>1. TypeOK /\ HeadAhead /\ Position /\ Counted /\ (lapse' = "none" => Fifo')
    BY DEF FifoInv, ExitInv, TypeInv, DataInv
<1>2. Stutter => UNCHANGED Channel!chanVars
    BY Mapping DEF Numbers, Number
<1> USE DEF ringVars, prodVars, stopVars, workVars, Goto, KeepOthers
<1>3. ASSUME NEW p \in Producers, WriteLoad(p) \/ WriteHi(p) PROVE Stutter
    BY <1>3 DEF WriteLoad, WriteHi, Phase, Taking
<1>4. ASSUME NEW p \in Producers, WriteLo(p) PROVE Stutter \/ Channel!Lap
    <2>1. lapse' = "none" => lapse = "none"
        BY <1>4, <1>1 DEF WriteLo, Worse, TypeOK
    <2>2. Phase' = Phase /\ Numbers(delivered)' = Numbers(delivered)
        BY <1>4 DEF WriteLo, Phase, Taking, Numbers, Number
    <2>3. CASE lapse = "none" /\ lapse' # "none"
        BY <1>4, <2>2, <2>3, Mapping DEF WriteLo
    <2>4. CASE lapse # "none" \/ lapse' = "none"
        BY <1>4, <2>1, <2>2, <2>4 DEF WriteLo
    <2> QED
        BY <2>3, <2>4
<1>5. ASSUME NEW p \in Producers, WriteStore(p) PROVE Channel!Put
    <2>1. pseq[p] = write_seq /\ sent[p] = write_seq + 1
        BY <1>5, <1>1 DEF WriteStore, Counted, FifoInv, ExitInv, HeadClaimed
    <2>2. write_seq < MaxEvents
        BY <1>1, <2>1, MaxEventsAssumption DEF TypeOK
    <2>3. Phase' = Phase /\ Numbers(delivered)' = Numbers(delivered) /\ lapse' = lapse
        BY <1>5 DEF WriteStore, Phase, Taking, Numbers, Number
    <2> QED
        BY <1>5, <2>1, <2>2, <2>3, Mapping DEF WriteStore
<1>6. ASSUME NEW p \in Producers, Notify(p) PROVE Stutter
    BY <1>6 DEF Notify, Wake, Phase, Taking
<1>7. CASE LoopTop \/ PredHead \/ PredStopped \/ SpuriousWakeup \/ Reacquire \/ Dispatch
    <2>1. Stutter
        BY <1>7 DEF LoopTop, PredHead, PredStopped, SpuriousWakeup, Reacquire, Dispatch,
                    Phase, Taking
    <2> QED
        BY <1>2, <2>1
<1>8. CASE CheckStopped \/ CheckHead \/ RingRead \/ CopyLo
    <2>1. Stutter
        BY <1>8, <1>1 DEF CheckStopped, CheckHead, RingRead, CopyLo, Written, HeadAhead,
                          Phase, Taking
    <2> QED
        BY <1>2, <2>1
<1>9. CASE CopyHi
    <2>1. Len(delivered) = read_pos - 1 /\ read_pos <= write_seq /\ read_pos \in Nat
        BY <1>9, <1>1 DEF CopyHi, Position, Copying, Taken, TypeOK
    <2>2. delivered \in Seq(Copies) /\ got' \in Copies /\ delivered' = Append(delivered, got')
        BY <1>9, <1>1 DEF CopyHi, FifoInv, ExitInv, TypeInv, TypeOK
    <2>3. Numbers(delivered)' = Append(Numbers(delivered), Number(delivered', read_pos))
        <3>1. Numbers(delivered)' = Numbers(delivered')
            BY DEF Numbers, Number
        <3>2. Len(delivered) + 1 = read_pos
            BY <2>1, <2>2
        <3> QED
            BY <2>2, <3>1, <3>2, NumbersAppend
    <2>4. Len(Numbers(delivered)) = read_pos - 1
        BY <2>1, <2>2 DEF Numbers
    <2>5. lapse = "none" => Number(delivered', read_pos) = read_pos
        <3>1. lapse = "none" => \A i \in 1..Len(delivered') : delivered'[i] = Whole(Event(Sole, i))
            BY <1>9, <1>1, SoleProducer DEF CopyHi, Fifo
        <3>2. read_pos \in 1..Len(delivered')
            BY <2>1, <2>2
        <3> QED
            BY <3>1, <3>2 DEF Number
    <2>6. Number(delivered', read_pos) \in {0, read_pos}
        BY DEF Number
    <2>7. Phase # "closed" /\ Phase' = IF Phase = "closing" THEN "closed" ELSE Phase
        BY <1>9 DEF CopyHi, Phase, Taking
    <2>8. write_seq' = write_seq /\ lapse' = lapse
        BY <1>9 DEF CopyHi
    <2>9. Channel!Take
        <3>1. Len(Numbers(delivered)) < write_seq /\ Len(Numbers(delivered)) + 1 = read_pos
            BY <1>1, <2>1, <2>4 DEF TypeOK
        <3>2. \/ Numbers(delivered)' = Append(Numbers(delivered), Len(Numbers(delivered)) + 1)
              \/ lapse # "none" /\ Numbers(delivered)' = Append(Numbers(delivered), 0)
            BY <2>3, <2>5, <2>6, <3>1
        <3> QED
            BY <2>7, <2>8, <3>1, <3>2, Mapping
    <2> QED
        BY <2>9 DEF Channel!ChannelNext
<1>10. CASE Shutdown \/ StopNotify \/ Join
    <2>1. Stutter
        BY <1>10 DEF Shutdown, StopNotify, Join, Wake, Phase, Taking
    <2> QED
        BY <1>2, <2>1
<1>11. CASE StopStore
    <2>1. CASE stopped
        <3>1. Stutter
            BY <1>11, <1>1, <2>1 DEF StopStore, Phase, Taking, TypeOK
        <3> QED
            BY <1>2, <3>1
    <2>2. CASE ~stopped
        <3>1. Phase = "open" /\ Phase' \in {"closing", "closed"}
            BY <1>11, <2>2 DEF StopStore, Phase, Taking
        <3>2. Numbers(delivered)' = Numbers(delivered)
            BY <1>11 DEF StopStore, Numbers, Number
        <3>3. Channel!Close
            BY <1>11, <3>1, <3>2, Mapping DEF StopStore
        <3> QED
            BY <3>3 DEF Channel!ChannelNext
    <2> QED
        BY <2>1, <2>2
<1>12. CASE UNCHANGED vars
    <2>1. Stutter
        BY <1>12 DEF vars, Phase, Taking
    <2> QED
        BY <1>2, <2>1
<1> QED
    BY <1>3, <1>4, <1>5, <1>6, <1>7, <1>8, <1>9, <1>10, <1>11, <1>12, <1>2
    DEF Next, Route, Worker, Stopper, Channel!ChannelNext

\* With one producer the queue is a channel: order, integrity, each event once,
\* and at most one delivery after stop_all_queues() has set the flag.
THEOREM ChannelImplemented == ASSUME OneWriter PROVE Spec => ImplementsChannel
<1>1. Init => Channel!ChannelInit
    <2> SUFFICES ASSUME Init PROVE Channel!ChannelInit
        OBVIOUS
    <2>1. Numbers(delivered) = <<>>
        BY DEF Init, Numbers
    <2> QED
        BY <2>1 DEF Init, Channel!ChannelInit, Numbers, Number
<1>2. Spec => []FifoInv
    BY FifoInit, FifoStep, PTL DEF Spec
<1>3. FifoInv /\ FifoInv' /\ [Next]_vars => [Channel!ChannelNext]_Channel!chanVars
    BY ChannelStep
<1> QED
    BY <1>1, <1>2, <1>3, PTL DEF Spec, ImplementsChannel, Channel!ChannelSpec
=============================================================================
