---------------------------- MODULE BoundedFifo ----------------------------
(***************************************************************************)
(* What the event queue promises to its producers and to the application:  *)
(* a first-in first-out queue of at most Capacity events.  A put on a full *)
(* queue is refused and changes nothing else; a get on an empty queue      *)
(* returns None; a flush forgets everything.                               *)
(***************************************************************************)
EXTENDS Naturals, Sequences

CONSTANTS Item, None, Capacity

VARIABLES
  items,     \* the queued items, oldest first
  accepted,  \* result of the last put
  taken      \* result of the last get

fifoVars == <<items, accepted, taken>>

Init ==
  /\ items = <<>>
  /\ accepted = TRUE
  /\ taken = None

PutItem(e) ==
  /\ IF Len(items) < Capacity
     THEN items' = Append(items, e) /\ accepted' = TRUE
     ELSE items' = items /\ accepted' = FALSE
  /\ UNCHANGED taken

GetItem ==
  /\ IF items = <<>>
     THEN items' = items /\ taken' = None
     ELSE items' = Tail(items) /\ taken' = Head(items)
  /\ UNCHANGED accepted

Clear ==
  /\ items' = <<>>
  /\ UNCHANGED <<accepted, taken>>

Next == (\E e \in Item : PutItem(e)) \/ GetItem \/ Clear

Spec == Init /\ [][Next]_fifoVars
=============================================================================
