----------------------------- MODULE EventRing -----------------------------
(***************************************************************************)
(* The kernel's event ring (samo-lib/grifo/src/event.c) as pure operators: *)
(* a fixed array of event slots, the head from which Event_get reads and   *)
(* the tail at which Event_put writes.  The pointers of the C code are     *)
(* slot numbers here.  Every operation of event.c runs with interrupts     *)
(* disabled, so each is one value-to-value operator; the modules that      *)
(* extend this one decide when it runs and how often in one handler.       *)
(*                                                                         *)
(* An event's payload and its time stamp are opaque: a member of Event.    *)
(***************************************************************************)
EXTENDS Naturals, Sequences

CONSTANTS
  Event,      \* the events that producers put
  None,       \* what a get returns from an empty ring: item_type EVENT_NONE
  QueueSize   \* number of slots of the array (256 in the code)

ASSUME QueueSizeAssumption == QueueSize \in Nat \ {0}
ASSUME NoneAssumption == None \notin Event

Slots == 0 .. QueueSize - 1

(* A ring value: the array and the two positions. *)
Ring == [slot : [Slots -> Event \cup {None}], head : Slots, tail : Slots]

(* The position after i, back to the start of the array at its end. *)
Successor(i) == IF i + 1 >= QueueSize THEN 0 ELSE i + 1

IsEmpty(q) == q.head = q.tail

IsFull(q) == q.head = Successor(q.tail)

(* Zeroed static storage: no event anywhere, both positions at the start.  *)
FreshRing == [slot |-> [i \in Slots |-> None], head |-> 0, tail |-> 0]

(* Event_flush: only the positions are reset, the slots keep old events.   *)
Flushed(q) == [q EXCEPT !.head = 0, !.tail = 0]

PutWithoutFullTest(q, e) ==
  [q EXCEPT !.slot[q.tail] = e, !.tail = Successor(q.tail)]

PutAdvancingFirst(q, e) ==
  IF IsFull(q) THEN q
  ELSE [q EXCEPT !.slot[Successor(q.tail)] = e, !.tail = Successor(q.tail)]

(* Event_put: a full ring stays as it is and the event is dropped.         *)
Put(q, e) ==
  IF IsFull(q) THEN q
  ELSE [q EXCEPT !.slot[q.tail] = e, !.tail = Successor(q.tail)]

(* Event_get: the event copied out, and the ring it leaves.                *)
First(q) == IF IsEmpty(q) THEN None ELSE q.slot[q.head]

RestWithoutWrap(q) ==
  IF IsEmpty(q) THEN q ELSE [q EXCEPT !.head = @ + 1]

Rest(q) ==
  IF IsEmpty(q) THEN q ELSE [q EXCEPT !.head = Successor(q.head)]

-----------------------------------------------------------------------------
(* What a ring holds, oldest event first.                                  *)
Count(q) ==
  IF q.tail >= q.head THEN q.tail - q.head ELSE QueueSize + q.tail - q.head

SlotAt(q, k) ==
  IF q.head + k >= QueueSize THEN q.head + k - QueueSize ELSE q.head + k

Contents(q) == [k \in 1 .. Count(q) |-> q.slot[SlotAt(q, k - 1)]]
=============================================================================
