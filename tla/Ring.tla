-------------------------------- MODULE Ring --------------------------------
(***************************************************************************)
(* core/ring_buffer.hpp: the lock-free ring every queue and every window   *)
(* is built on.  The steps of `write' are taken by the threads that call   *)
(* it (ScriptQueue, WindowRegistry); this module holds what they share:    *)
(* the layout of a slot, the index of a sequence number, the lag.          *)
(*                                                                         *)
(* An Event is about 4 KiB of plain data, so neither the assignment into a *)
(* slot nor the copy out of one is atomic.  A slot is therefore two words, *)
(* lo and hi, stored and loaded one after the other; an event x is intact  *)
(* exactly when both words are x.                                          *)
(***************************************************************************)
EXTENDS Naturals

CONSTANT Capacity       \* capacity_, the number of slots

\* The assertion of the constructor: mask_ = capacity_ - 1 selects the slot,
\* which is the remainder only for a power of two.
ASSUME CapacityAssumption ==
    /\ Capacity \in Nat \ {0}
    /\ \E k \in 0..Capacity : Capacity = 2^k

SlotIds == 0..(Capacity - 1)

\* seq & mask_
SlotOf(seq) == seq % Capacity

\* A slot, or the copy of one, holding the single event x.
Whole(x) == [lo |-> x, hi |-> x]

\* Faulty NewSlots: one slot too many.
NewSlotsOffByOne(x) == [i \in 0..Capacity |-> Whole(x)]

\* std::vector<T> slots_(capacity): every slot is the default Event.
NewSlots(x) == [i \in SlotIds |-> Whole(x)]

\* read() returns nullptr when the sequence number is not yet written.
Written(seq, head) == seq < head

\* reader_lag(), given the head it loaded.
ReaderLag(head, reader_seq) == IF head > reader_seq THEN head - reader_seq ELSE 0
=============================================================================
