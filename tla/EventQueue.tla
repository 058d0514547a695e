----------------------------- MODULE EventQueue -----------------------------
(***************************************************************************)
(* The event queue as a component: Event_put, Event_get and Event_flush,   *)
(* each a critical section with interrupts disabled, called in any order   *)
(* by handlers and by the application.                                     *)
(***************************************************************************)
EXTENDS EventRing

VARIABLES
  queue,     \* the static array EventQueue with head and tail
  accepted,  \* value returned by the last Event_put
  taken      \* value returned by the last Event_get

vars == <<queue, accepted, taken>>

Init ==
  /\ queue = FreshRing
  /\ accepted = TRUE
  /\ taken = None

Event_put(e) ==
  /\ queue' = Put(queue, e)
  /\ accepted' = ~IsFull(queue)
  /\ UNCHANGED taken

Event_get ==
  /\ taken' = First(queue)
  /\ queue' = Rest(queue)
  /\ UNCHANGED accepted

Event_flush ==
  /\ queue' = Flushed(queue)
  /\ UNCHANGED <<accepted, taken>>

Next == (\E e \in Event : Event_put(e)) \/ Event_get \/ Event_flush

Spec == Init /\ [][Next]_vars
-----------------------------------------------------------------------------
(* Type invariant: the slot array and both positions stay inside the ring  *)
(* and the results are what the callers' types allow.                      *)
TypeOK ==
  /\ queue \in Ring
  /\ accepted \in BOOLEAN
  /\ taken \in Event \cup {None}

(* No garbage is ever delivered: every slot between head and tail holds an *)
(* event that was put, never the zeroed contents of an unused slot, so an  *)
(* Event_get on a non-empty ring cannot return EVENT_NONE (event.c 80-95), *)
(* which is what Event_wait relies on to tell an event from an empty ring. *)
NoGarbage == \A k \in 1 .. Count(queue) : Contents(queue)[k] \in Event

(* The ring implements the bounded queue: order of arrival is kept, events *)
(* are neither lost, repeated nor invented, and a put is refused exactly   *)
(* when QueueSize - 1 events wait (one slot always stays free).            *)
Fifo == INSTANCE BoundedFifo WITH
          Item <- Event, Capacity <- QueueSize - 1, items <- Contents(queue)

ImplementsFifo == Fifo!Spec
=============================================================================
