-------------------------- MODULE EventQueueProofs --------------------------
(***************************************************************************)
(* The event queue for every number of slots and every set of events: what *)
(* Put, Rest and Flushed do to the sequence of waiting events, the type of *)
(* the queue, and the refinement of the bounded FIFO queue.                *)
(***************************************************************************)
EXTENDS EventQueue, SequenceTheorems, TLAPS

(* What every reachable ring satisfies: positions inside the array and an  *)
(* event in every slot between them.                                       *)
RingOK(q) ==
  /\ q \in Ring
  /\ \A k \in 1 .. Count(q) : q.slot[SlotAt(q, k - 1)] \in Event

(* The number of waiting events is between 0 and QueueSize - 1; the ring   *)
(* is empty or full exactly at these ends (event.c 69 and 83 tell the two  *)
(* apart by keeping one slot free).                                        *)
LEMMA CountBounds ==
  ASSUME NEW q \in Ring
  PROVE  /\ Count(q) \in 0 .. QueueSize - 1
         /\ IsEmpty(q) <=> Count(q) = 0
         /\ IsFull(q) <=> Count(q) = QueueSize - 1
BY QueueSizeAssumption DEF Ring, Slots, Count, IsEmpty, IsFull, Successor

(* Waiting events occupy different slots, and the slot after the last one  *)
(* is the tail.                                                            *)
LEMMA SlotsDistinct ==
  ASSUME NEW q \in Ring
  PROVE  /\ \A k \in 0 .. QueueSize - 1 : SlotAt(q, k) \in Slots
         /\ \A j, k \in 0 .. QueueSize - 1 :
              SlotAt(q, j) = SlotAt(q, k) => j = k
         /\ SlotAt(q, Count(q)) = q.tail
BY QueueSizeAssumption DEF Ring, Slots, Count, SlotAt

(* The waiting events are a sequence of events.                            *)
LEMMA ContentsType ==
  ASSUME NEW q, RingOK(q)
  PROVE  /\ Contents(q) \in Seq(Event)
         /\ Len(Contents(q)) = Count(q)
         /\ Count(q) \in 0 .. QueueSize - 1
<1>1. Count(q) \in 0 .. QueueSize - 1
  BY CountBounds DEF RingOK
<1>2. Contents(q) \in [1 .. Count(q) -> Event]
  BY DEF RingOK, Contents
<1>3. Count(q) \in Nat
  BY <1>1, QueueSizeAssumption
<1>. QED
  BY <1>1, <1>2, <1>3

(* A put appends the event, or leaves a full ring alone.                   *)
LEMMA PutContents ==
  ASSUME NEW q, RingOK(q), NEW e \in Event
  PROVE  /\ RingOK(Put(q, e))
         /\ Contents(Put(q, e)) =
              IF IsFull(q) THEN Contents(q) ELSE Append(Contents(q), e)
<1>1. CASE IsFull(q)
  BY <1>1 DEF Put
<1>2. CASE ~IsFull(q)
  <2> DEFINE p == Put(q, e)
  <2>1. q \in Ring
    BY DEF RingOK
  <2>2. /\ p \in Ring
        /\ p.head = q.head
        /\ p.tail = Successor(q.tail)
        /\ p.slot = [q.slot EXCEPT ![q.tail] = e]
    <3>1. p = [q EXCEPT !.slot[q.tail] = e, !.tail = Successor(q.tail)]
      BY <1>2 DEF Put
    <3>2. Successor(q.tail) \in Slots
      BY <2>1, QueueSizeAssumption DEF Ring, Successor, Slots
    <3>. QED
      BY <2>1, <3>1, <3>2 DEF Ring
  <2>3. Count(p) = Count(q) + 1 /\ Count(q) \in 0 .. QueueSize - 2
    <3> HIDE DEF p
    <3>1. /\ q.head \in 0 .. QueueSize - 1
          /\ q.tail \in 0 .. QueueSize - 1
          /\ q.head # Successor(q.tail)
      BY <1>2, <2>1 DEF Ring, Slots, IsFull
    <3>. QED
      BY <2>2, <3>1, QueueSizeAssumption DEF Count, Successor
  <2>4. \A k \in 0 .. QueueSize - 1 : SlotAt(p, k) = SlotAt(q, k)
    BY <2>2 DEF SlotAt
  <2>5. ASSUME NEW k \in 1 .. Count(q)
        PROVE  p.slot[SlotAt(p, k - 1)] = q.slot[SlotAt(q, k - 1)]
    <3>1. SlotAt(q, k - 1) # q.tail /\ SlotAt(q, k - 1) \in Slots
      BY <2>1, <2>3, SlotsDistinct, QueueSizeAssumption
    <3>. QED
      BY <3>1, <2>1, <2>2, <2>3, <2>4, QueueSizeAssumption DEF Ring
  <2>6. p.slot[SlotAt(p, Count(q))] = e
    BY <2>1, <2>2, <2>3, <2>4, SlotsDistinct, QueueSizeAssumption DEF Ring
  <2>7. \A k \in 1 .. Count(p) :
          p.slot[SlotAt(p, k - 1)] =
            IF k = Count(q) + 1 THEN e ELSE q.slot[SlotAt(q, k - 1)]
    BY <2>3, <2>5, <2>6, QueueSizeAssumption
  <2>8. RingOK(p)
    BY <2>2, <2>3, <2>7, QueueSizeAssumption DEF RingOK
  <2>9. Contents(p) = Append(Contents(q), e)
    <3> DEFINE c == Contents(q)
               d == Contents(p)
    <3>1. /\ c \in Seq(Event) /\ Len(c) = Count(q)
          /\ d \in Seq(Event) /\ Len(d) = Count(q) + 1
      BY <2>3, <2>8, ContentsType
    <3>2. \A k \in 1 .. Count(q) + 1 :
            d[k] = IF k = Count(q) + 1 THEN e ELSE c[k]
      BY <2>3, <2>7, QueueSizeAssumption DEF Contents
    <3> HIDE DEF c, d
    <3>3. /\ Append(c, e) \in Seq(Event)
          /\ Len(Append(c, e)) = Len(d)
          /\ \A k \in 1 .. Len(d) : Append(c, e)[k] = d[k]
      BY <3>1, <3>2, AppendProperties, <2>3, QueueSizeAssumption
    <3>4. d = Append(c, e)
      BY <3>1, <3>3, SeqEqual
    <3>. QED
      BY <3>4 DEF c, d
  <2>. QED
    BY <1>2, <2>8, <2>9
<1>. QED
  BY <1>1, <1>2

(* A get takes the oldest event away and returns it.                       *)
LEMMA RestContents ==
  ASSUME NEW q, RingOK(q)
  PROVE  /\ RingOK(Rest(q))
         /\ IsEmpty(q) <=> Contents(q) = <<>>
         /\ IsEmpty(q) => Contents(Rest(q)) = Contents(q)
         /\ ~IsEmpty(q) => /\ First(q) = Head(Contents(q))
                           /\ First(q) \in Event
                           /\ Contents(Rest(q)) = Tail(Contents(q))
<1>1. q \in Ring /\ Count(q) \in 0 .. QueueSize - 1
  BY CountBounds DEF RingOK
<1>2. /\ Contents(q) \in Seq(Event)
      /\ Len(Contents(q)) = Count(q)
  BY ContentsType
<1>3. IsEmpty(q) <=> Contents(q) = <<>>
  BY <1>1, <1>2, CountBounds, QueueSizeAssumption
<1>4. CASE IsEmpty(q)
  BY <1>3, <1>4 DEF Rest
<1>5. CASE ~IsEmpty(q)
  <2> DEFINE r == Rest(q)
  <2>1. /\ r \in Ring
        /\ r.head = Successor(q.head)
        /\ r.tail = q.tail
        /\ r.slot = q.slot
    BY <1>1, <1>5, QueueSizeAssumption DEF Rest, Ring, Successor, Slots
  <2>2. Count(r) = Count(q) - 1 /\ Count(q) \in 1 .. QueueSize - 1
    BY <1>1, <1>5, <2>1, QueueSizeAssumption
       DEF Ring, Slots, Count, IsEmpty, Successor
  <2>3. \A k \in 0 .. Count(r) : SlotAt(r, k) = SlotAt(q, k + 1)
    BY <1>1, <2>1, <2>2, QueueSizeAssumption DEF SlotAt, Successor, Ring, Slots
  <2>4. \A k \in 1 .. Count(r) :
          r.slot[SlotAt(r, k - 1)] = q.slot[SlotAt(q, (k + 1) - 1)]
    <3> TAKE k \in 1 .. Count(r)
    <3>1. k - 1 \in 0 .. Count(r) /\ (k - 1) + 1 = (k + 1) - 1
      BY <2>2, QueueSizeAssumption
    <3>. QED
      BY <3>1, <2>1, <2>3
  <2>5. RingOK(r)
    <3>1. \A k \in 1 .. Count(r) : k + 1 \in 1 .. Count(q)
      BY <2>2, QueueSizeAssumption
    <3>. QED
      BY <3>1, <2>1, <2>4 DEF RingOK
  <2>6. First(q) = Contents(q)[1] /\ First(q) \in Event
    <3>1. SlotAt(q, 0) = q.head
      BY <1>1, QueueSizeAssumption DEF SlotAt, Ring, Slots
    <3>2. 1 \in 1 .. Count(q) /\ 1 - 1 = 0
      BY <2>2, QueueSizeAssumption
    <3>. QED
      BY <3>1, <3>2, <1>5 DEF First, Contents, RingOK
  <2>7. Contents(r) = Tail(Contents(q))
    <3> DEFINE c == Contents(q)
               d == Contents(r)
    <3>1. /\ c \in Seq(Event) /\ Len(c) = Count(q) /\ c # <<>>
          /\ d \in Seq(Event) /\ Len(d) = Count(q) - 1
      BY <1>2, <1>3, <1>5, <2>2, <2>5, ContentsType
    <3>2. \A k \in 1 .. Count(q) - 1 : k + 1 \in 1 .. Count(q)
      BY <2>2, QueueSizeAssumption
    <3>3. \A k \in 1 .. Count(q) - 1 : d[k] = c[k + 1]
      BY <2>2, <2>4, <3>2 DEF Contents
    <3> HIDE DEF c, d
    <3>4. /\ Tail(c) \in Seq(Event)
          /\ Len(Tail(c)) = Len(d)
          /\ \A k \in 1 .. Len(d) : Tail(c)[k] = d[k]
      BY <3>1, <3>3, HeadTailProperties
    <3>5. d = Tail(c)
      BY <3>1, <3>4, SeqEqual
    <3>. QED
      BY <3>5 DEF c, d
  <2>8. Head(Contents(q)) = Contents(q)[1]
    BY <1>2
  <2>. QED
    BY <1>3, <1>5, <2>5, <2>6, <2>7, <2>8
<1>. QED
  BY <1>4, <1>5

(* Flushing leaves none.                                                   *)
LEMMA FlushedContents ==
  ASSUME NEW q, RingOK(q)
  PROVE  RingOK(Flushed(q)) /\ Contents(Flushed(q)) = <<>>
<1> DEFINE f == Flushed(q)
<1>1. f \in Ring /\ f.head = 0 /\ f.tail = 0
  <2>1. q \in Ring /\ 0 \in Slots
    BY QueueSizeAssumption DEF RingOK, Slots
  <2>. QED
    BY <2>1 DEF Ring, Flushed
<1>2. Count(f) = 0
  BY <1>1 DEF Count
<1>3. RingOK(f)
  BY <1>1, <1>2 DEF RingOK
<1>4. /\ Contents(f) \in Seq(Event)
      /\ Len(Contents(f)) = 0
  BY <1>2, <1>3, ContentsType
<1>5. Contents(f) = <<>>
  <2> HIDE DEF f
  <2>. QED
    BY <1>4, EmptySeq
<1>. QED
  BY <1>3, <1>5

(* There is none at first.                                                 *)
LEMMA FreshContents == RingOK(FreshRing) /\ Contents(FreshRing) = <<>>
<1>1. FreshRing \in Ring /\ Count(FreshRing) = 0
  BY QueueSizeAssumption DEF FreshRing, Ring, Slots, Count
<1>. QED
  BY <1>1 DEF RingOK, Contents
-----------------------------------------------------------------------------
(* The inductive invariant: types, and an event in every occupied slot.    *)
Inv == TypeOK /\ RingOK(queue)

(* Every reachable queue satisfies it.                                     *)
LEMMA QueueInvariant == Spec => []Inv
<1>1. Init => Inv
  BY FreshContents DEF Init, Inv, TypeOK, RingOK
<1>2. Inv /\ [Next]_vars => Inv'
  <2> SUFFICES ASSUME Inv, [Next]_vars
               PROVE  Inv'
    OBVIOUS
  <2>1. ASSUME NEW e \in Event, Event_put(e)
        PROVE  Inv'
    BY <2>1, PutContents DEF Event_put, Inv, TypeOK, RingOK
  <2>2. CASE Event_get
    <3>1. RingOK(Rest(queue)) /\ First(queue) \in Event \cup {None}
      BY RestContents DEF Inv, First
    <3>. QED
      BY <2>2, <3>1 DEF Event_get, Inv, TypeOK, RingOK
  <2>3. CASE Event_flush
    BY <2>3, FlushedContents DEF Event_flush, Inv, TypeOK, RingOK
  <2>4. CASE UNCHANGED vars
    BY <2>4 DEF vars, Inv, TypeOK
  <2>. QED
    BY <2>1, <2>2, <2>3, <2>4 DEF Next
<1>. QED
  BY <1>1, <1>2, PTL DEF Spec

(* The array positions and the results always have their types.            *)
THEOREM TypeCorrect == Spec => []TypeOK
BY QueueInvariant, PTL DEF Inv

(* No Event_get on a non-empty queue returns EVENT_NONE or stale memory.   *)
THEOREM NothingInvented == Spec => []NoGarbage
<1>1. Inv => NoGarbage
  BY DEF Inv, RingOK, NoGarbage, Contents
<1>. QED
  BY <1>1, QueueInvariant, PTL

(* The ring buffer of event.c is a bounded first-in first-out queue.       *)
THEOREM RingIsFifo == Spec => ImplementsFifo
<1>1. Init => Fifo!Init
  BY FreshContents DEF Init, Fifo!Init
<1>2. Inv /\ [Next]_vars => [Fifo!Next]_(Fifo!fifoVars)
  <2> SUFFICES ASSUME Inv, [Next]_vars
               PROVE  [Fifo!Next]_(Fifo!fifoVars)
    OBVIOUS
  <2>0. /\ queue \in Ring /\ RingOK(queue)
        /\ Len(Contents(queue)) = Count(queue)
        /\ Count(queue) \in 0 .. QueueSize - 1
        /\ IsFull(queue) <=> Count(queue) = QueueSize - 1
    BY ContentsType, CountBounds DEF Inv, RingOK
  <2>1. ASSUME NEW e \in Event, Event_put(e)
        PROVE  Fifo!PutItem(e)
    <3>1. IsFull(queue) <=> ~(Len(Contents(queue)) < QueueSize - 1)
      BY <2>0, QueueSizeAssumption
    <3>. QED
      BY <2>0, <2>1, <3>1, PutContents DEF Event_put, Fifo!PutItem
  <2>2. ASSUME Event_get
        PROVE  Fifo!GetItem
    BY <2>0, <2>2, RestContents DEF Event_get, Fifo!GetItem, First
  <2>3. ASSUME Event_flush
        PROVE  Fifo!Clear
    BY <2>0, <2>3, FlushedContents DEF Event_flush, Fifo!Clear
  <2>4. ASSUME UNCHANGED vars
        PROVE  UNCHANGED Fifo!fifoVars
    BY <2>4 DEF vars, Fifo!fifoVars, Contents, Count, SlotAt
  <2>. QED
    BY <2>1, <2>2, <2>3, <2>4 DEF Next, Fifo!Next
<1>. QED
  BY <1>1, <1>2, QueueInvariant, PTL DEF Spec, ImplementsFifo, Fifo!Spec
=============================================================================
