------------------------- MODULE InputDriversProofs -------------------------
(***************************************************************************)
(* What the application hears of the keys and of the panel, for any number *)
(* of keys and a queue of any length.                                      *)
(***************************************************************************)
EXTENDS InputDrivers, SequenceTheorems, WellFoundedInduction, TLAPS

(* Known, of any queue and of what was told before it.                     *)
Knows(q, t, s, n) ==
  LET of == {j \in 1 .. n : About(q[j]) = s}
  IN  IF of = {} THEN s \in t
      ELSE Down(q[CHOOSE j \in of : \A k \in of : k <= j])

(* Event i is the last about s among the first n of a queue.               *)
LastAbout(q, s, n, i) ==
  /\ i \in 1 .. n /\ About(q[i]) = s
  /\ \A k \in 1 .. n : About(q[k]) = s => k <= i

(* Without an event about it, nothing is known of a subject but what was   *)
(* told.                                                                   *)
LEMMA KnowsNone ==
  ASSUME NEW q, NEW t, NEW s, NEW n \in Nat,
         \A k \in 1 .. n : About(q[k]) # s
  PROVE  Knows(q, t, s, n) = (s \in t)
<1>1. {j \in 1 .. n : About(q[j]) = s} = {}
  OBVIOUS
<1>. QED
  BY <1>1, Zenon DEF Knows

(* The last event about it decides.                                        *)
LEMMA KnowsLast ==
  ASSUME NEW q, NEW t, NEW s, NEW n \in Nat, NEW i, LastAbout(q, s, n, i)
  PROVE  Knows(q, t, s, n) = Down(q[i])
<1> DEFINE of == {j \in 1 .. n : About(q[j]) = s}
           Top(j) == \A k \in of : k <= j
<1>1. i \in of /\ Top(i)
  BY DEF LastAbout
<1>2. \A j \in of : Top(j) => j = i
  BY <1>1
<1>3. (CHOOSE j \in of : Top(j)) = i
  <2>1. (CHOOSE j \in of : Top(j)) \in of /\ Top(CHOOSE j \in of : Top(j))
    BY <1>1, Zenon
  <2>. QED
    BY <1>2, <2>1
<1>4. of # {}
  BY <1>1
<1>. QED
  BY <1>3, <1>4, Zenon DEF Knows

(* If there is one about it there is a last.                               *)
LEMMA LastExists ==
  ASSUME NEW q, NEW s, NEW n \in Nat, \E k \in 1 .. n : About(q[k]) = s
  PROVE  \E i : LastAbout(q, s, n, i)
<1> DEFINE D == {d \in Nat : d < n /\ About(q[n - d]) = s}
<1>1. D # {} /\ D \subseteq Nat
  <2>1. PICK k \in 1 .. n : About(q[k]) = s
    OBVIOUS
  <2>2. n - k \in Nat /\ n - k < n /\ n - (n - k) = k
    BY <2>1
  <2>3. n - k \in D
    BY <2>1, <2>2
  <2>. QED
    BY <2>3
<1> HIDE DEF D
<1>2. PICK d \in D : \A e \in D : ~(e < d)
  <2>1. IsWellFoundedOn(OpToRel(<, Nat), Nat)
    BY NatLessThanWellFounded
  <2>2. PICK d \in D : \A e \in D : ~(<<e, d>> \in OpToRel(<, Nat))
    BY <1>1, <2>1, WFMin, Zenon
  <2>3. \A e \in D : e < d => <<e, d>> \in OpToRel(<, Nat)
    BY <1>1, <2>2 DEF OpToRel
  <2>. QED
    BY <2>2, <2>3
<1>3. d \in Nat /\ d < n /\ About(q[n - d]) = s
  BY <1>2 DEF D
<1>4. ASSUME NEW k \in 1 .. n, About(q[k]) = s
      PROVE  k <= n - d
  <2>1. n - k \in Nat /\ n - k < n /\ n - (n - k) = k
    OBVIOUS
  <2>2. n - k \in D
    BY <1>4, <2>1 DEF D
  <2>. QED
    BY <1>2, <1>3, <2>2
<1>. QED
  BY <1>3, <1>4 DEF LastAbout

(* Known is a truth value.                                                 *)
LEMMA KnowsType ==
  ASSUME NEW q, NEW t, NEW s, NEW n \in Nat
  PROVE  Knows(q, t, s, n) \in BOOLEAN
<1>1. CASE \A k \in 1 .. n : About(q[k]) # s
  <2>1. Knows(q, t, s, n) = (s \in t)
    BY <1>1, KnowsNone
  <2>2. CASE s \in t
    BY <2>1, <2>2
  <2>3. CASE s \notin t
    BY <2>1, <2>3
  <2>. QED
    BY <2>2, <2>3
<1>2. CASE \E k \in 1 .. n : About(q[k]) = s
  <2> PICK i : LastAbout(q, s, n, i)
    BY <1>2, LastExists
  <2>1. Knows(q, t, s, n) = Down(q[i])
    BY KnowsLast
  <2>2. CASE Down(q[i])
    BY <2>1, <2>2 DEF Down
  <2>3. CASE ~Down(q[i])
    BY <2>1, <2>3 DEF Down
  <2>. QED
    BY <2>2, <2>3
<1>. QED
  BY <1>1, <1>2

(* Only the first n events of the queue count.                             *)
LEMMA KnowsSame ==
  ASSUME NEW q, NEW r, NEW t, NEW s, NEW n \in Nat,
         \A k \in 1 .. n : r[k] = q[k]
  PROVE  Knows(r, t, s, n) = Knows(q, t, s, n)
<1>1. CASE \A k \in 1 .. n : About(q[k]) # s
  <2>1. \A k \in 1 .. n : About(r[k]) # s
    BY <1>1
  <2>. QED
    BY <1>1, <2>1, KnowsNone
<1>2. CASE \E k \in 1 .. n : About(q[k]) = s
  <2>1. PICK i : LastAbout(q, s, n, i)
    BY <1>2, LastExists
  <2>2. LastAbout(r, s, n, i) /\ r[i] = q[i]
    BY <2>1 DEF LastAbout
  <2>. QED
    BY <2>1, <2>2, KnowsLast
<1>. QED
  BY <1>1, <1>2

(* Events about other subjects do not count.                               *)
LEMMA KnowsLonger ==
  ASSUME NEW q, NEW t, NEW s, NEW n \in Nat, NEW m \in Nat, n <= m,
         \A k \in n + 1 .. m : About(q[k]) # s
  PROVE  Knows(q, t, s, m) = Knows(q, t, s, n)
<1>1. CASE \A k \in 1 .. n : About(q[k]) # s
  <2>1. \A k \in 1 .. m : About(q[k]) # s
    BY <1>1
  <2>. QED
    BY <1>1, <2>1, KnowsNone
<1>2. CASE \E k \in 1 .. n : About(q[k]) = s
  <2>1. PICK i : LastAbout(q, s, n, i)
    BY <1>2, LastExists
  <2>2. LastAbout(q, s, m, i)
    BY <2>1 DEF LastAbout
  <2>. QED
    BY <2>1, <2>2, KnowsLast
<1>. QED
  BY <1>1, <1>2

(* Taking an event does not change what is known with those behind it.     *)
LEMMA KnowsTaken ==
  ASSUME NEW q, NEW r, NEW t, NEW u, NEW s, NEW n \in Nat,
         \A k \in 1 .. n : r[k] = q[k + 1],
         (s \in u) = (IF About(q[1]) = s THEN Down(q[1]) ELSE s \in t)
  PROVE  Knows(r, u, s, n) = Knows(q, t, s, n + 1)
<1>1. CASE \E k \in 1 .. n : About(r[k]) = s
  <2>1. PICK i : LastAbout(r, s, n, i)
    BY <1>1, LastExists
  <2>2. i \in 1 .. n /\ About(r[i]) = s /\ \A k \in 1 .. n : About(r[k]) = s => k <= i
    BY <2>1 DEF LastAbout
  <2>3. ASSUME NEW k \in 1 .. n + 1, About(q[k]) = s
        PROVE  k <= i + 1
    <3>1. CASE k = 1
      BY <2>2, <3>1
    <3>2. CASE k # 1
      <4>1. k - 1 \in 1 .. n /\ (k - 1) + 1 = k
        BY <3>2
      <4>2. About(r[k - 1]) = s
        BY <2>3, <4>1
      <4>. QED
        BY <2>2, <4>1, <4>2
    <3>. QED
      BY <3>1, <3>2
  <2>4. LastAbout(q, s, n + 1, i + 1) /\ r[i] = q[i + 1]
    BY <2>2, <2>3 DEF LastAbout
  <2>. QED
    BY <2>1, <2>4, KnowsLast
<1>2. CASE \A k \in 1 .. n : About(r[k]) # s
  <2>1. Knows(r, u, s, n) = (s \in u)
    BY <1>2, KnowsNone
  <2>2. \A k \in 2 .. n + 1 : About(q[k]) # s
    <3> SUFFICES ASSUME NEW k \in 2 .. n + 1 PROVE About(q[k]) # s
      OBVIOUS
    <3>1. k - 1 \in 1 .. n /\ (k - 1) + 1 = k
      OBVIOUS
    <3>. QED
      BY <1>2, <3>1
  <2>3. CASE About(q[1]) = s
    <3>1. LastAbout(q, s, n + 1, 1)
      BY <2>2, <2>3 DEF LastAbout
    <3>. QED
      BY <2>1, <2>3, <3>1, KnowsLast
  <2>4. CASE About(q[1]) # s
    <3>1. \A k \in 1 .. n + 1 : About(q[k]) # s
      BY <2>2, <2>4
    <3>. QED
      BY <2>1, <2>4, <3>1, KnowsNone
  <2>. QED
    BY <2>3, <2>4
<1>. QED
  BY <1>1, <1>2
-----------------------------------------------------------------------------
(* The parser is where the bytes since the last 0xaa say, and has in its   *)
(* coordinates what they gave.                                             *)
ParserInv ==
  /\ touch_state = (CASE packet.n = 0 -> "X_HIGH" [] packet.n = 1 -> "X_LOW"
                      [] packet.n = 2 -> "Y_HIGH" [] packet.n = 3 -> "Y_LOW"
                      [] packet.n = 4 -> "TOUCH"  [] OTHER -> "WAITING")
  /\ ~packet.kept =>
       /\ packet.n = 1 => x = "high"
       /\ packet.n \in 2 .. 4 => x = "new"
       /\ packet.n = 3 => y = "high"
       /\ packet.n = 4 => y = "new"

OrderInv ==
  ApplicationCatchesUp /\ EventsMakeSense /\ behind \subseteq missed

IInv == TypeOK /\ OrderInv /\ ParserInv

(* Two keys never are the panel nor the power key.                         *)
LEMMA SubjectFacts ==
  /\ Power \notin Subject /\ Touch \in Subject /\ Touch \notin Key
  /\ Touch # Power /\ Key \subseteq Subject
BY KeysAssumption DEF Power, Subject, Key, Touch

(* What Put does, event by event.                                          *)
LEMMA PutFacts ==
  ASSUME TypeOK, NEW events \in Seq(Event), Put(events)
  PROVE  \E room \in 0 .. Len(events) :
    /\ Len(queue) + room <= Capacity
    /\ room < Len(events) => Len(queue) + room = Capacity
    /\ queue' \in Seq(Event) /\ Len(queue') = Len(queue) + room
    /\ \A k \in 1 .. Len(queue) : queue'[k] = queue[k]
    /\ \A k \in 1 .. room : queue'[Len(queue) + k] = events[k]
    /\ behind' = (behind \ {About(events[k]) : k \in 1 .. room})
                 \cup ({About(events[k]) : k \in room + 1 .. Len(events)}
                       \cap Subject)
    /\ missed' = missed \cup ({About(events[k]) : k \in room + 1 .. Len(events)}
                              \cap Subject)
<1> DEFINE free == Capacity - Len(queue)
           room == Min({free, Len(events)})
           kept == SubSeq(events, 1, room)
           lost == SubSeq(events, room + 1, Len(events))
<1>1. /\ queue \in Seq(Event) /\ Len(queue) \in Nat /\ Len(events) \in Nat
      /\ free \in Nat
  BY CapacityAssumption DEF TypeOK
<1>2. /\ room \in {free, Len(events)}
      /\ room <= free /\ room <= Len(events)
  <2>1. \E r \in {free, Len(events)} : \A z \in {free, Len(events)} : r <= z
    BY <1>1
  <2> HIDE DEF free
  <2>. QED
    BY <2>1 DEF Min
<1>3. /\ queue' = queue \o kept
      /\ behind' = (behind \ Subjects(kept)) \cup Subjects(lost)
      /\ missed' = missed \cup Subjects(lost)
  BY DEF Put
<1> HIDE DEF room
<1>4. room \in 0 .. Len(events)
  BY <1>1, <1>2
<1>5. /\ kept \in Seq(Event) /\ Len(kept) = room
      /\ \A k \in 1 .. room : kept[k] = events[k]
  BY <1>4, SubSeqProperties
<1>6. /\ lost \in Seq(Event) /\ Len(lost) = Len(events) - room
      /\ \A k \in 1 .. Len(events) - room : lost[k] = events[room + k]
  BY <1>1, <1>4, SubSeqProperties
<1> HIDE DEF kept, lost
<1>7. Subjects(kept) = {About(events[k]) : k \in 1 .. room} \cap Subject
  <2>1. {About(kept[k]) : k \in DOMAIN kept} = {About(events[k]) : k \in 1 .. room}
    BY <1>4, <1>5
  <2>. QED
    BY <2>1, Zenon DEF Subjects
<1>8. Subjects(lost) =
        {About(events[k]) : k \in room + 1 .. Len(events)} \cap Subject
  <2>1. DOMAIN lost = 1 .. Len(events) - room
    BY <1>6
  <2>2. \A k \in DOMAIN lost : room + k \in room + 1 .. Len(events)
                               /\ lost[k] = events[room + k]
    BY <1>1, <1>4, <1>6, <2>1
  <2>3. ASSUME NEW k \in room + 1 .. Len(events)
        PROVE  k - room \in DOMAIN lost /\ events[k] = lost[k - room]
    <3>1. k - room \in 1 .. Len(events) - room /\ room + (k - room) = k
      BY <1>1, <1>4
    <3>. QED
      BY <1>6, <2>1, <3>1
  <2>4. {About(lost[k]) : k \in DOMAIN lost}
        = {About(events[k]) : k \in room + 1 .. Len(events)}
    BY <2>2, <2>3
  <2>. QED
    BY <2>4, Zenon DEF Subjects
<1>9. /\ queue' \in Seq(Event) /\ Len(queue') = Len(queue) + room
      /\ \A k \in 1 .. Len(queue) : queue'[k] = queue[k]
      /\ \A k \in 1 .. room : queue'[Len(queue) + k] = events[k]
  <2>1. /\ Len(queue \o kept) = Len(queue) + room
        /\ queue \o kept \in Seq(Event)
        /\ \A i \in 1 .. Len(queue) + room : (queue \o kept)[i] =
              IF i <= Len(queue) THEN queue[i] ELSE kept[i - Len(queue)]
    BY <1>1, <1>5, ConcatProperties
  <2>2. ASSUME NEW k \in 1 .. Len(queue)
        PROVE  queue'[k] = queue[k]
    BY <1>1, <1>3, <1>4, <2>1
  <2>3. ASSUME NEW k \in 1 .. room
        PROVE  queue'[Len(queue) + k] = events[k]
    <3>1. /\ Len(queue) + k \in 1 .. Len(queue) + room
          /\ ~(Len(queue) + k <= Len(queue)) /\ (Len(queue) + k) - Len(queue) = k
      BY <1>1, <1>4
    <3>. QED
      BY <1>3, <1>5, <2>1, <3>1
  <2>. QED
    BY <1>3, <2>1, <2>2, <2>3
<1>10. behind \subseteq Subject
  BY DEF TypeOK
<1>11. /\ Len(queue) + room <= Capacity
       /\ room < Len(events) => Len(queue) + room = Capacity
  BY <1>1, <1>2, <1>4, CapacityAssumption
<1>12. behind' = (behind \ {About(events[k]) : k \in 1 .. room})
                 \cup ({About(events[k]) : k \in room + 1 .. Len(events)}
                       \cap Subject)
  BY <1>3, <1>7, <1>8, <1>10
<1>13. missed' = missed \cup ({About(events[k]) : k \in room + 1 .. Len(events)}
                              \cap Subject)
  BY <1>3, <1>8
<1>. QED
  BY <1>4, <1>9, <1>11, <1>12, <1>13

(* The event tells that its subject went down or up, from what it was.     *)
Fits(e, before) ==
  CASE e.type \in {"BUTTON_DOWN", "TOUCH_DOWN"} -> ~before
    [] e.type \in {"BUTTON_UP", "TOUCH_MOTION"} -> before
    [] OTHER -> TRUE

(* EventsMakeSense of any queue.                                           *)
Sense(q, t, m) ==
  \A n \in DOMAIN q :
    About(q[n]) \in Subject \ m => Fits(q[n], Knows(q, t, About(q[n]), n - 1))

(* The invariant in these terms.                                           *)
LEMMA InOtherWords ==
  /\ \A s, n : Known(s, n) = Knows(queue, told, s, n)
  /\ EventsMakeSense <=> Sense(queue, told, missed)
<1>1. \A s, n : Known(s, n) = Knows(queue, told, s, n)
  BY DEF Known, Knows
<1>2. EventsMakeSense <=> Sense(queue, told, missed)
  BY <1>1 DEF EventsMakeSense, Sense, Fits
<1>. QED
  BY <1>1, <1>2

(* The same after a step.                                                  *)
LEMMA InOtherWordsNext ==
  /\ \A s, n : Known(s, n)' = Knows(queue', told', s, n)
  /\ EventsMakeSense' <=> Sense(queue', told', missed')
<1>1. \A s, n : Known(s, n)' = Knows(queue', told', s, n)
  BY DEF Known, Knows
<1>2. EventsMakeSense' <=> Sense(queue', told', missed')
  BY <1>1 DEF EventsMakeSense, Sense, Fits
<1>. QED
  BY <1>1, <1>2

(* Events that fit what was reported before them and tell what is reported *)
(* after them keep the application's view in order, whether they find room *)
(* or not.                                                                 *)
LEMMA PutStep ==
  ASSUME TypeOK, OrderInv, NEW events \in Seq(Event), Put(events), told' = told,
    \A k \in 1 .. Len(events) :
      About(events[k]) \in Subject =>
        /\ Fits(events[k], Reported(About(events[k])))
        /\ Reported(About(events[k]))' = Down(events[k]),
    \A j, k \in 1 .. Len(events) :
      About(events[j]) = About(events[k]) /\ About(events[k]) \in Subject => j = k,
    \A s \in Subject :
      (\A k \in 1 .. Len(events) : About(events[k]) # s)
      => Reported(s)' = Reported(s)
  PROVE  OrderInv'
<1> DEFINE L == Len(queue)
<1>1. PICK room \in 0 .. Len(events) :
    /\ queue' \in Seq(Event) /\ Len(queue') = Len(queue) + room
    /\ \A k \in 1 .. Len(queue) : queue'[k] = queue[k]
    /\ \A k \in 1 .. room : queue'[Len(queue) + k] = events[k]
    /\ behind' = (behind \ {About(events[k]) : k \in 1 .. room})
                 \cup ({About(events[k]) : k \in room + 1 .. Len(events)}
                       \cap Subject)
    /\ missed' = missed \cup ({About(events[k]) : k \in room + 1 .. Len(events)}
                              \cap Subject)
  BY PutFacts
<1>2. L \in Nat /\ Len(events) \in Nat /\ DOMAIN queue = 1 .. L
      /\ DOMAIN queue' = 1 .. L + room
  BY <1>1 DEF TypeOK
<1>3. /\ \A s, n : Known(s, n) = Knows(queue, told, s, n)
      /\ Sense(queue, told, missed)
  BY InOtherWords DEF OrderInv
<1>4. \A s \in Subject \ behind : Knows(queue, told, s, L) = Reported(s)
  BY <1>3 DEF OrderInv, ApplicationCatchesUp
<1>5. \A s, n : n \in 0 .. L => Knows(queue', told, s, n) = Knows(queue, told, s, n)
  <2> SUFFICES ASSUME NEW s, NEW n \in 0 .. L
               PROVE  Knows(queue', told, s, n) = Knows(queue, told, s, n)
    OBVIOUS
  <2>1. n \in Nat /\ \A k \in 1 .. n : queue'[k] = queue[k]
    BY <1>1, <1>2
  <2>. QED
    BY <2>1, KnowsSame
<1> HIDE DEF L
<1>6. \A j \in L + 1 .. L + room : j - L \in 1 .. room /\ queue'[j] = events[j - L]
  <2> SUFFICES ASSUME NEW j \in L + 1 .. L + room
               PROVE  j - L \in 1 .. room /\ queue'[j] = events[j - L]
    OBVIOUS
  <2>1. j - L \in 1 .. room /\ L + (j - L) = j
    BY <1>2
  <2>. QED
    BY <1>1, <2>1 DEF L
<1>7. ASSUME NEW s \in Subject, s \notin behind'
      PROVE  Known(s, Len(queue))' = Reported(s)'
  <2>1. \A k \in room + 1 .. Len(events) : About(events[k]) # s
    BY <1>1, <1>7
  <2>2. Known(s, Len(queue))' = Knows(queue', told, s, L + room)
    <3>1. Known(s, Len(queue))' = Knows(queue', told', s, Len(queue'))
      BY DEF Known, Knows
    <3>. QED
      BY <1>1, <3>1 DEF L
  <2>3. CASE \E k \in 1 .. room : About(events[k]) = s
    <3>1. PICK k \in 1 .. room : About(events[k]) = s
      BY <2>3
    <3>2. L + k \in L + 1 .. L + room /\ About(queue'[L + k]) = s
      BY <1>1, <1>2, <3>1 DEF L
    <3>3. PICK j \in L + 1 .. L + room :
            /\ About(queue'[j]) = s
            /\ Knows(queue', told, s, L + room) = Down(queue'[j])
      <4>1. L + room \in Nat /\ L + k \in 1 .. L + room
        BY <1>2
      <4>2. PICK i : LastAbout(queue', s, L + room, i)
        BY <3>2, <4>1, LastExists
      <4>3. i \in L + 1 .. L + room /\ About(queue'[i]) = s
        BY <1>2, <3>2, <4>1, <4>2 DEF LastAbout
      <4>4. Knows(queue', told, s, L + room) = Down(queue'[i])
        BY <4>1, <4>2, KnowsLast
      <4>. QED
        BY <4>3, <4>4
    <3>4. j - L \in 1 .. Len(events) /\ queue'[j] = events[j - L]
      BY <1>2, <1>6
    <3>5. Reported(s)' = Down(queue'[j])
      BY <3>3, <3>4
    <3>. QED
      BY <2>2, <3>3, <3>5
  <2>4. CASE \A k \in 1 .. room : About(events[k]) # s
    <3>1. \A k \in 1 .. Len(events) : About(events[k]) # s
      BY <1>2, <2>1, <2>4
    <3>2. s \notin behind
      BY <1>1, <1>7, <3>1
    <3>3. \A j \in L + 1 .. L + room : About(queue'[j]) # s
      BY <1>6, <2>4
    <3>4. Knows(queue', told, s, L + room) = Knows(queue', told, s, L)
      BY <1>2, <3>3, KnowsLonger
    <3>5. Knows(queue', told, s, L) = Reported(s)
      BY <1>2, <1>4, <1>5, <3>2
    <3>. QED
      BY <2>2, <3>1, <3>4, <3>5
  <2>. QED
    BY <2>3, <2>4
<1>8. ASSUME NEW n \in 1 .. L + room, About(queue'[n]) \in Subject \ missed'
      PROVE  Fits(queue'[n], Knows(queue', told, About(queue'[n]), n - 1))
  <2> DEFINE s == About(queue'[n])
  <2>1. s \in Subject /\ s \notin missed
    BY <1>1, <1>8
  <2>2. CASE n <= L
    <3>1. n \in 1 .. L /\ queue'[n] = queue[n] /\ n - 1 \in 0 .. L
      BY <1>1, <1>2, <2>2 DEF L
    <3>2. Knows(queue', told, s, n - 1) = Knows(queue, told, s, n - 1)
      BY <1>5, <3>1
    <3>3. Fits(queue[n], Knows(queue, told, s, n - 1))
      BY <1>2, <1>3, <2>1, <3>1 DEF Sense
    <3>. QED
      BY <3>1, <3>2, <3>3
  <2>3. CASE n > L
    <3>1. n \in L + 1 .. L + room /\ n - L \in 1 .. Len(events)
          /\ queue'[n] = events[n - L]
      BY <1>2, <1>6, <2>3
    <3>2. ASSUME NEW j \in L + 1 .. n - 1
          PROVE  About(queue'[j]) # s
      <4>1. j \in L + 1 .. L + room /\ j - L \in 1 .. Len(events) /\ j - L # n - L
        BY <1>2, <3>1
      <4>2. queue'[j] = events[j - L]
        BY <1>6, <4>1
      <4>. QED
        BY <2>1, <3>1, <4>1, <4>2
    <3>3. n - 1 \in Nat /\ L <= n - 1 /\ L \in 0 .. L
      BY <1>2, <3>1
    <3>4. Knows(queue', told, s, n - 1) = Knows(queue', told, s, L)
      BY <1>2, <3>2, <3>3, KnowsLonger
    <3>5. Knows(queue', told, s, L) = Reported(s)
      BY <1>4, <1>5, <2>1, <3>3 DEF OrderInv
    <3>. QED
      BY <2>1, <3>1, <3>4, <3>5
  <2>. QED
    BY <1>2, <2>2, <2>3
<1>9. ApplicationCatchesUp'
  BY <1>7 DEF ApplicationCatchesUp
<1>10. EventsMakeSense'
  BY <1>2, <1>8, InOtherWordsNext DEF Sense
<1>11. (behind \subseteq missed)'
  BY <1>1 DEF OrderInv
<1>. QED
  BY <1>9, <1>10, <1>11 DEF OrderInv

(* Put keeps the types.                                                    *)
LEMMA PutType ==
  ASSUME TypeOK, NEW events \in Seq(Event), Put(events)
  PROVE  /\ queue' \in Seq(Event) /\ Len(queue') <= Capacity
         /\ behind' \subseteq Subject /\ missed' \subseteq Subject
<1>1. behind \subseteq Subject /\ missed \subseteq Subject
  BY DEF TypeOK
<1>. QED
  BY <1>1, PutFacts

-----------------------------------------------------------------------------
(* Each action keeps the invariant.                                        *)
LEMMA Initially == Init => IInv
<1> SUFFICES ASSUME Init PROVE IInv
  OBVIOUS
<1>1. TypeOK
  <2>1. packet \in [n : 0 .. 6, kept : BOOLEAN]
    BY DEF Init, None
  <2>2. queue \in Seq(Event) /\ Len(queue) <= Capacity
    BY CapacityAssumption DEF Init
  <2>3. touch \in BOOLEAN
    BY DEF Init
  <2>. QED
    BY <2>1, <2>2, <2>3 DEF Init, TypeOK, Coordinate
<1>2. ApplicationCatchesUp
  <2> SUFFICES ASSUME NEW s \in Subject
               PROVE  Known(s, Len(queue)) = Reported(s)
    BY DEF ApplicationCatchesUp
  <2>1. queue = <<>> /\ told = {} /\ touch = FALSE /\ state = {}
    BY DEF Init
  <2>2. \A k \in 1 .. 0 : About(queue[k]) # s
    OBVIOUS
  <2>3. Knows(queue, told, s, 0) = (s \in told)
    BY <2>2, KnowsNone
  <2>4. Known(s, Len(queue)) = Knows(queue, told, s, 0)
    BY <2>1, InOtherWords
  <2>5. Known(s, Len(queue)) = FALSE
    <3>1. (s \in told) = FALSE
      BY <2>1
    <3>. QED
      BY <2>3, <2>4, <3>1, Zenon
  <2>6. Reported(s) = FALSE
    <3>1. CASE s = Touch
      BY <2>1, <3>1 DEF Reported
    <3>2. CASE s # Touch
      BY <2>1, <3>2 DEF Reported
    <3>. QED
      BY <3>1, <3>2
  <2>. QED
    BY <2>5, <2>6
<1>3. EventsMakeSense
  BY DEF Init, EventsMakeSense
<1>4. behind \subseteq missed
  BY DEF Init
<1>5. ParserInv
  BY DEF Init, ParserInv, None
<1>. QED
  BY <1>1, <1>2, <1>3, <1>4, <1>5 DEF IInv, OrderInv

(* The keys: at most one event for each, in order.                         *)
LEMMA KeyStep ==
  ASSUME IInv, NEW pressed \in SUBSET Key, KeyInterrupt(pressed)
  PROVE  IInv'
<1> DEFINE S == Changed(pressed)
           event(k) ==
             Button(IF k \in pressed THEN "BUTTON_DOWN" ELSE "BUTTON_UP", k)
<1>1. PICK changed \in InOrder(S) : Put([n \in DOMAIN changed |-> event(changed[n])])
  BY DEF KeyInterrupt
<1> DEFINE events == [n \in DOMAIN changed |-> event(changed[n])]
<1>2. PICK m \in Nat : changed \in [1 .. m -> S]
  BY <1>1, KeysAssumption DEF InOrder, BoundedSeq, SeqOf
<1>3. /\ \A k \in S : \E n \in 1 .. m : changed[n] = k
      /\ \A i, j \in 1 .. m : i < j => changed[i] < changed[j]
  BY <1>1, <1>2 DEF InOrder, Range
<1>4. /\ S = {k \in Key : (k \in pressed) # (k \in state)}
      /\ S \subseteq Key /\ Key \subseteq Nat /\ Key \subseteq Subject
  BY KeysAssumption, SubjectFacts DEF Changed, Key
<1> HIDE DEF S
<1>5. \A n \in 1 .. m : changed[n] \in S
  BY <1>2
<1>6. \A k \in Key : /\ event(k) \in Event /\ About(event(k)) = k
                     /\ k \in pressed => event(k).type = "BUTTON_DOWN"
                     /\ k \notin pressed => event(k).type = "BUTTON_UP"
  BY DEF Event, ButtonEvent, Button, About
<1> HIDE DEF event
<1>7. events \in Seq(Event) /\ Len(events) = m
      /\ \A n \in 1 .. m : events[n] = event(changed[n])
                           /\ About(events[n]) = changed[n]
  <2>1. events \in [1 .. m -> Event] /\ \A n \in 1 .. m : events[n] = event(changed[n])
    BY <1>2, <1>4, <1>5, <1>6
  <2>2. \A n \in 1 .. m : About(events[n]) = changed[n]
    BY <1>4, <1>5, <1>6, <2>1
  <2>. QED
    BY <1>2, <2>1, <2>2
<1> HIDE DEF events
<1>8. Put(events) /\ told' = told /\ state' = pressed
      /\ UNCHANGED panelVars
  BY <1>1 DEF KeyInterrupt, events
<1>9. \A k \in Key : Reported(k) = (k \in state) /\ Reported(k)' = (k \in pressed)
  BY <1>8, SubjectFacts DEF Reported
<1>10. ASSUME NEW n \in 1 .. m
       PROVE  /\ Fits(events[n], Reported(About(events[n])))
              /\ Reported(About(events[n]))' = Down(events[n])
  <2> DEFINE k == changed[n]
  <2>1. k \in Key /\ (k \in pressed) # (k \in state) /\ events[n] = event(k)
        /\ About(events[n]) = k
    BY <1>4, <1>5, <1>7
  <2>2. Reported(About(events[n])) = (k \in state)
        /\ Reported(About(events[n]))' = (k \in pressed)
    BY <1>9, <2>1
  <2>3. CASE k \in pressed
    <3>1. events[n].type = "BUTTON_DOWN" /\ k \notin state
      BY <1>6, <2>1, <2>3
    <3>. QED
      BY <2>2, <2>3, <3>1 DEF Fits, Down
  <2>4. CASE k \notin pressed
    <3>1. events[n].type = "BUTTON_UP" /\ k \in state
      BY <1>6, <2>1, <2>4
    <3>2. Reported(About(events[n])) = TRUE /\ Reported(About(events[n]))' = FALSE
      <4>1. (k \in state) = TRUE /\ (k \in pressed) = FALSE
        BY <2>4, <3>1
      <4>. QED
        BY <2>2, <4>1, Zenon
    <3>3. Fits(events[n], Reported(About(events[n])))
      BY <3>1, <3>2 DEF Fits
    <3>4. Down(events[n]) = FALSE
      BY <3>1 DEF Down
    <3>. QED
      BY <3>2, <3>3, <3>4
  <2>. QED
    BY <2>3, <2>4
<1>11. ASSUME NEW i \in 1 .. m, NEW j \in 1 .. m,
              About(events[i]) = About(events[j])
       PROVE  i = j
  <2>1. changed[i] = changed[j] /\ changed[i] \in Nat
    BY <1>4, <1>5, <1>7, <1>11
  <2>. QED
    BY <1>3, <2>1
<1>12. ASSUME NEW s \in Subject, \A n \in 1 .. m : About(events[n]) # s
       PROVE  Reported(s)' = Reported(s)
  <2>1. s \notin S
    BY <1>3, <1>7, <1>12
  <2>2. CASE s = Touch
    BY <1>8, <2>2 DEF Reported, panelVars
  <2>3. CASE s # Touch
    <3>1. s \in Key /\ (s \in pressed) = (s \in state)
      BY <1>4, <2>1, <2>3 DEF Subject
    <3>. QED
      BY <1>9, <3>1
  <2>. QED
    BY <2>2, <2>3
<1>13. OrderInv'
  BY <1>7, <1>8, <1>10, <1>11, <1>12, PutStep DEF IInv
<1>14. TypeOK'
  BY <1>7, <1>8, PutType DEF IInv, TypeOK, panelVars
<1>15. ParserInv'
  BY <1>8 DEF IInv, ParserInv, panelVars
<1>. QED
  BY <1>13, <1>14, <1>15 DEF IInv

(* The power key, of which no state is kept.                               *)
LEMMA PowerStep ==
  ASSUME IInv, PowerInterrupt
  PROVE  IInv'
<1> DEFINE events == <<Button("BUTTON_DOWN", Power), Button("BUTTON_UP", Power)>>
<1>1. /\ Button("BUTTON_DOWN", Power) \in Event
      /\ Button("BUTTON_UP", Power) \in Event
      /\ About(Button("BUTTON_DOWN", Power)) = Power
      /\ About(Button("BUTTON_UP", Power)) = Power
  BY DEF Event, ButtonEvent, Button, About
<1>2. events \in Seq(Event) /\ Len(events) = 2
      /\ \A k \in 1 .. 2 : About(events[k]) = Power
  <2>1. \A k \in 1 .. 2 : events[k] = events[1] \/ events[k] = events[2]
    OBVIOUS
  <2>. QED
    BY <1>1
<1>3. Put(events) /\ told' = told /\ state' = state /\ UNCHANGED panelVars
  BY DEF PowerInterrupt
<1> HIDE DEF events
<1>4. \A k \in 1 .. 2 : About(events[k]) \notin Subject
  BY <1>2, SubjectFacts
<1>5. \A s : Reported(s)' = Reported(s)
  BY <1>3 DEF Reported, panelVars
<1>6. OrderInv'
  BY <1>2, <1>3, <1>4, <1>5, PutStep DEF IInv
<1>7. TypeOK'
  BY <1>2, <1>3, PutType DEF IInv, TypeOK, panelVars
<1>8. ParserInv'
  BY <1>3 DEF IInv, ParserInv, panelVars
<1>. QED
  BY <1>6, <1>7, <1>8 DEF IInv

(* Where no event is put or taken and no state changes, nothing does.      *)
LEMMA StillStep ==
  ASSUME OrderInv, UNCHANGED <<queue, state, touch, told, behind, missed>>
  PROVE  OrderInv'
<1>2. \A s : Reported(s)' = Reported(s)
  BY DEF Reported
<1>3. ApplicationCatchesUp'
  <2> SUFFICES ASSUME NEW s \in Subject, s \notin behind'
               PROVE  Known(s, Len(queue))' = Reported(s)'
    BY DEF ApplicationCatchesUp
  <2>1. Known(s, Len(queue))' = Known(s, Len(queue))
    BY DEF Known
  <2>2. Known(s, Len(queue)) = Reported(s)
    BY DEF OrderInv, ApplicationCatchesUp
  <2>. QED
    BY <1>2, <2>1, <2>2
<1>4. EventsMakeSense'
  BY InOtherWords, InOtherWordsNext DEF OrderInv
<1>. QED
  BY <1>3, <1>4 DEF OrderInv

(* One event of the panel, which fits the panel's flag.                    *)
LEMMA TouchStep ==
  ASSUME TypeOK, OrderInv, NEW type \in {"TOUCH_DOWN", "TOUCH_MOTION", "TOUCH_UP"},
         Put(<<Touched(type)>>), told' = told, state' = state,
         type = "TOUCH_DOWN" => ~touch, type = "TOUCH_MOTION" => touch,
         touch' = (type # "TOUCH_UP")
  PROVE  OrderInv'
<1> DEFINE events == <<Touched(type)>>
<1>1. /\ Touched(type) \in Event /\ About(Touched(type)) = Touch
      /\ Down(Touched(type)) = (type # "TOUCH_UP")
      /\ Touched(type).type = type
  <2>1. Touched(type) = [type |-> type]
    BY DEF Touched
  <2>2. Touched(type) \in Event
    BY <2>1 DEF Event, TouchEvent
  <2>3. Touched(type).type = type
    BY <2>1
  <2>4. About(Touched(type)) = Touch
    BY <2>3 DEF About
  <2>5. Down(Touched(type)) = (type # "TOUCH_UP")
    BY <2>3 DEF Down
  <2>. QED
    BY <2>2, <2>3, <2>4, <2>5
<1>2. events \in Seq(Event) /\ Len(events) = 1
      /\ \A k \in 1 .. 1 : events[k] = Touched(type)
  BY <1>1
<1> HIDE DEF events
<1>3. Reported(Touch) = touch /\ Reported(Touch)' = touch'
  BY DEF Reported
<1>4. Fits(Touched(type), Reported(Touch))
  BY <1>1, <1>3 DEF Fits
<1>5. Reported(Touch)' = Down(Touched(type))
  BY <1>1, <1>3, Zenon
<1>6. \A k \in 1 .. Len(events) :
        /\ About(events[k]) = Touch
        /\ Fits(events[k], Reported(About(events[k])))
        /\ Reported(About(events[k]))' = Down(events[k])
  BY <1>1, <1>2, <1>4, <1>5
<1>7. \A s \in Subject :
        (\A k \in 1 .. Len(events) : About(events[k]) # s)
        => Reported(s)' = Reported(s)
  BY <1>1, <1>2 DEF Reported
<1>8. \A j, k \in 1 .. Len(events) : j = k
  BY <1>2
<1>9. Put(events)
  BY DEF events
<1>. QED
  BY <1>2, <1>6, <1>7, <1>8, <1>9, PutStep

(* A packet with one more byte is a packet.                                *)
LEMMA PacketType ==
  ASSUME NEW a \in 0 .. 6, NEW kept \in BOOLEAN, NEW byte
  PROVE  [n |-> a, kept |-> kept \/ byte = "ff"] \in [n : 0 .. 6, kept : BOOLEAN]
OBVIOUS

(* A byte of the panel moves parser and packet together.                   *)
LEMMA ParserStep ==
  ASSUME TypeOK, ParserInv, NEW byte \in Byte, CTP_interrupt(byte)
  PROVE  /\ ParserInv'
         /\ touch_state' \in {"WAITING", "X_HIGH", "X_LOW", "Y_HIGH", "Y_LOW", "TOUCH"}
         /\ x' \in Coordinate /\ y' \in Coordinate
         /\ packet' \in [n : 0 .. 6, kept : BOOLEAN]
<1> USE DEF TypeOK, Coordinate
<1>1. packet' = Counted(byte) /\ packet.n \in 0 .. 6 /\ packet.kept \in BOOLEAN
  BY DEF CTP_interrupt
<1>2. CASE byte = "aa"
  <2>1. StartsPacket
    BY <1>2 DEF CTP_interrupt
  <2>2. packet' = [n |-> 0, kept |-> FALSE]
    BY <1>1, <1>2 DEF Counted
  <2>3. packet' \in [n : 0 .. 6, kept : BOOLEAN]
    BY <2>2
  <2>. QED
    BY <2>1, <2>2, <2>3 DEF StartsPacket, ParserInv
<1>3. CASE byte = "bad"
  <2>1. Resets /\ packet' = [n |-> 6, kept |-> FALSE]
    BY <1>1, <1>3 DEF CTP_interrupt, Counted, None
  <2>. QED
    BY <2>1 DEF Resets, ParserInv
<1>4. CASE byte \notin {"aa", "bad"} /\ packet.n >= 5
  <2>1. touch_state = "WAITING"
    BY <1>1, <1>4 DEF ParserInv
  <2>2. packet' = [n |-> 6, kept |-> FALSE]
    BY <1>1, <1>4 DEF Counted, None
  <2>3. UNCHANGED <<touch_state, x, y>>
    BY <1>4, <2>1 DEF CTP_interrupt
  <2>. QED
    BY <2>1, <2>2, <2>3 DEF ParserInv
<1>5. CASE byte \notin {"aa", "bad"} /\ packet.n = 4
  <2>1. touch_state = "TOUCH"
    BY <1>1, <1>5 DEF ParserInv
  <2>2. TouchByte(byte)
    BY <1>5, <2>1 DEF CTP_interrupt
  <2>3. packet' \in {[n |-> 6, kept |-> FALSE], [n |-> 5, kept |-> packet.kept \/ byte = "ff"]}
    BY <1>1, <1>5 DEF Counted, None
  <2>4. /\ [n |-> 5, kept |-> packet.kept \/ byte = "ff"]
             \in [n : 0 .. 6, kept : BOOLEAN]
        /\ [n |-> 6, kept |-> FALSE] \in [n : 0 .. 6, kept : BOOLEAN]
    BY <1>1, PacketType
  <2>5. packet'.n \in {5, 6} /\ packet' \in [n : 0 .. 6, kept : BOOLEAN]
    <3>1. packet'.n \in {5, 6}
      BY <2>3
    <3>2. packet' \in [n : 0 .. 6, kept : BOOLEAN]
      BY <2>3, <2>4, Zenon
    <3>. QED
      BY <3>1, <3>2
  <2>. QED
    BY <2>2, <2>5 DEF TouchByte, ParserInv
<1>6. CASE byte \notin {"aa", "bad"} /\ packet.n < 4
  <2>1. touch_state \in {"X_HIGH", "X_LOW", "Y_HIGH", "Y_LOW"}
    BY <1>1, <1>6 DEF ParserInv
  <2>2. CoordinateByte(byte)
    BY <1>6, <2>1 DEF CTP_interrupt
  <2>3. packet' = [n |-> packet.n + 1, kept |-> packet.kept \/ byte = "ff"]
    BY <1>1, <1>6 DEF Counted
  <2>4. packet' \in [n : 0 .. 6, kept : BOOLEAN]
    BY <1>1, <1>6, <2>3, PacketType
  <2>5. packet'.n = packet.n + 1
        /\ (~packet'.kept => ~packet.kept /\ byte # "ff")
    BY <2>3
  <2>6. x' \in Coordinate /\ y' \in Coordinate
    BY <2>1, <2>2 DEF CoordinateByte, SetHigh, SetLow
  <2>7. CASE packet.n = 0
    BY <2>2, <2>4, <2>5, <2>6, <2>7 DEF ParserInv, CoordinateByte, SetHigh, After
  <2>8. CASE packet.n = 1
    BY <2>2, <2>4, <2>5, <2>6, <2>8 DEF ParserInv, CoordinateByte, SetLow, After
  <2>9. CASE packet.n = 2
    BY <2>2, <2>4, <2>5, <2>6, <2>9 DEF ParserInv, CoordinateByte, SetHigh, After
  <2>10. CASE packet.n = 3
    BY <2>2, <2>4, <2>5, <2>6, <2>10 DEF ParserInv, CoordinateByte, SetLow, After
  <2>. QED
    BY <1>1, <1>6, <2>7, <2>8, <2>9, <2>10
<1>. QED
  BY <1>1, <1>2, <1>3, <1>4, <1>5, <1>6

(* A byte puts an event of the panel, or none.                             *)
LEMMA ByteStep ==
  ASSUME IInv, NEW byte \in Byte, CTP_interrupt(byte)
  PROVE  IInv'
<1>1. TypeOK /\ OrderInv /\ told' = told /\ state' = state
  BY DEF IInv, CTP_interrupt
<1>2. ParserInv'
  BY ParserStep DEF IInv
<1>3. CASE touch_state = "TOUCH" /\ byte \in {"00", "01"}
  <2>1. TouchByte(byte)
    BY <1>3 DEF CTP_interrupt
  <2>2. PICK type \in {"TOUCH_DOWN", "TOUCH_MOTION", "TOUCH_UP"} :
          /\ Put(<<Touched(type)>>)
          /\ type = "TOUCH_DOWN" => ~touch
          /\ type = "TOUCH_MOTION" => touch
          /\ touch' = (type # "TOUCH_UP")
    <3>1. CASE byte = "00"
      <4>1. touch' = FALSE /\ Put(<<Touched("TOUCH_UP")>>)
        BY <2>1, <3>1 DEF TouchByte
      <4>. QED
        BY <4>1
    <3>2. CASE byte = "01" /\ touch
      <4>1. touch' = TRUE /\ Put(<<Touched("TOUCH_MOTION")>>)
        BY <2>1, <3>2 DEF TouchByte
      <4>. QED
        BY <3>2, <4>1
    <3>3. CASE byte = "01" /\ ~touch
      <4>1. touch' = TRUE /\ Put(<<Touched("TOUCH_DOWN")>>)
        BY <2>1, <3>3 DEF TouchByte
      <4>. QED
        BY <3>3, <4>1
    <3>. QED
      BY <1>3, <3>1, <3>2, <3>3
  <2>3. OrderInv'
    BY <1>1, <2>2, TouchStep
  <2>4. Touched(type) \in Event
    BY DEF Touched, Event, TouchEvent
  <2>5. <<Touched(type)>> \in Seq(Event)
    BY <2>4
  <2>6. touch' \in BOOLEAN
    BY <2>2
  <2>7. TypeOK'
    BY <1>1, <2>2, <2>5, <2>6, PutType, ParserStep DEF IInv, TypeOK
  <2>. QED
    BY <1>2, <2>3, <2>7 DEF IInv
<1>4. CASE ~(touch_state = "TOUCH" /\ byte \in {"00", "01"})
  <2>1. UNCHANGED <<queue, state, touch, told, behind, missed>>
    BY <1>1, <1>4 DEF CTP_interrupt, StartsPacket, Resets, TouchByte, CoordinateByte, Byte
  <2>2. OrderInv'
    BY <1>1, <2>1, StillStep
  <2>3. TypeOK'
    BY <1>1, <2>1, ParserStep DEF IInv, TypeOK
  <2>. QED
    BY <1>2, <2>2, <2>3 DEF IInv
<1>. QED
  BY <1>3, <1>4

(* Taking the oldest event moves what it tells from the queue to the       *)
(* application.                                                            *)
LEMMA GetStep ==
  ASSUME IInv, Event_get
  PROVE  IInv'
<1> DEFINE e == queue[1]
           L == Len(queue)
<1>1. /\ queue \in Seq(Event) /\ L \in Nat /\ L <= Capacity
      /\ OrderInv /\ told \subseteq Subject
  BY DEF IInv, TypeOK
<1>2. L > 0 /\ queue' = Tail(queue) /\ Head(queue) = e
      /\ told' = (IF Down(e) THEN told \cup ({About(e)} \cap Subject)
                             ELSE told \ {About(e)})
      /\ UNCHANGED <<state, panelVars, behind, missed>>
  BY <1>1 DEF Event_get
<1>3. /\ queue' \in Seq(Event) /\ Len(queue') = L - 1
      /\ \A k \in 1 .. L - 1 : queue'[k] = queue[k + 1]
  BY <1>1, <1>2
<1> HIDE DEF e, L
<1>4. \A s \in Subject :
        (s \in told') = (IF About(e) = s THEN Down(e) ELSE s \in told)
  <2> SUFFICES ASSUME NEW s \in Subject
               PROVE  (s \in told') = (IF About(e) = s THEN Down(e) ELSE s \in told)
    OBVIOUS
  <2>1. CASE Down(e)
    BY <1>2, <2>1 DEF Down
  <2>2. CASE ~Down(e)
    BY <1>2, <2>2 DEF Down
  <2>. QED
    BY <2>1, <2>2
<1>5. ASSUME NEW s \in Subject, NEW n \in 0 .. L - 1
      PROVE  Knows(queue', told', s, n) = Knows(queue, told, s, n + 1)
  <2>1. n \in Nat /\ \A k \in 1 .. n : queue'[k] = queue[k + 1]
    BY <1>1, <1>3 DEF L
  <2>2. (s \in told') = (IF About(queue[1]) = s THEN Down(queue[1]) ELSE s \in told)
    BY <1>4 DEF e
  <2>. QED
    BY <2>1, <2>2, KnowsTaken
<1>6. \A s : Reported(s)' = Reported(s)
  BY <1>2 DEF Reported, panelVars
<1>7. ASSUME NEW s \in Subject, s \notin behind'
      PROVE  Known(s, Len(queue))' = Reported(s)'
  <2>1. Known(s, Len(queue))' = Knows(queue', told', s, Len(queue'))
    BY DEF Known, Knows
  <2>2. L - 1 \in 0 .. L - 1 /\ (L - 1) + 1 = L
    BY <1>1, <1>2 DEF L
  <2>3. Knows(queue', told', s, L - 1) = Knows(queue, told, s, L)
    BY <1>5, <2>2
  <2>4. Knows(queue, told, s, L) = Reported(s)
    BY <1>1, <1>2, <1>7, InOtherWords DEF OrderInv, ApplicationCatchesUp, L
  <2>. QED
    BY <1>3, <1>6, <2>1, <2>3, <2>4
<1>8. ASSUME NEW n \in 1 .. L - 1, About(queue'[n]) \in Subject \ missed'
      PROVE  Fits(queue'[n], Knows(queue', told', About(queue'[n]), n - 1))
  <2>1. queue'[n] = queue[n + 1] /\ n + 1 \in 1 .. L /\ (n + 1) - 1 = n
        /\ n - 1 \in 0 .. L - 1 /\ (n - 1) + 1 = n
    BY <1>1, <1>3 DEF L
  <2>2. Knows(queue', told', About(queue'[n]), n - 1)
        = Knows(queue, told, About(queue'[n]), n)
    BY <1>5, <1>8, <2>1
  <2>3. DOMAIN queue = 1 .. L /\ Sense(queue, told, missed)
    BY <1>1, InOtherWords DEF OrderInv, L
  <2>4. Fits(queue[n + 1], Knows(queue, told, About(queue[n + 1]), n))
    BY <1>2, <1>8, <2>1, <2>3 DEF Sense
  <2>. QED
    BY <2>1, <2>2, <2>4
<1>9. DOMAIN queue' = 1 .. L - 1
  BY <1>3
<1>10. ApplicationCatchesUp'
  BY <1>7 DEF ApplicationCatchesUp
<1>11. EventsMakeSense'
  BY <1>8, <1>9, InOtherWordsNext DEF Sense
<1>12. OrderInv'
  BY <1>1, <1>2, <1>10, <1>11 DEF OrderInv
<1>13. told' \subseteq Subject
  BY <1>1, <1>2
<1>14. Len(queue') <= Capacity
  BY <1>1, <1>3, CapacityAssumption DEF L
<1>15. TypeOK'
  BY <1>2, <1>3, <1>13, <1>14 DEF IInv, TypeOK, panelVars
<1>16. ParserInv'
  BY <1>2 DEF IInv, ParserInv, panelVars
<1>. QED
  BY <1>12, <1>15, <1>16 DEF IInv

(* What is thrown away is no longer known.                                 *)
LEMMA FlushStep ==
  ASSUME IInv, Event_flush
  PROVE  IInv'
<1> DEFINE L == Len(queue)
<1>1. queue \in Seq(Event) /\ L \in Nat /\ OrderInv
      /\ behind \subseteq Subject /\ missed \subseteq Subject
  BY DEF IInv, TypeOK
<1>2. /\ queue' = <<>> /\ behind' = behind \cup Subjects(queue)
      /\ missed' = missed \cup Subjects(queue)
      /\ UNCHANGED <<state, panelVars, told>>
  BY DEF Event_flush
<1>3. Subjects(queue) \subseteq Subject
  BY DEF Subjects
<1>4. ASSUME NEW s \in Subject, s \notin behind'
      PROVE  Known(s, Len(queue))' = Reported(s)'
  <2>1. \A k \in 1 .. L : About(queue[k]) # s
    BY <1>1, <1>2, <1>4 DEF Subjects
  <2>2. Knows(queue, told, s, L) = (s \in told)
    BY <1>1, <2>1, KnowsNone
  <2>3. Knows(queue, told, s, L) = Reported(s)
    BY <1>1, <1>2, <1>4, InOtherWords DEF OrderInv, ApplicationCatchesUp
  <2>4. Known(s, Len(queue))' = Knows(queue', told', s, 0)
    BY <1>2 DEF Known, Knows
  <2>5. Knows(queue', told', s, 0) = (s \in told')
    BY KnowsNone
  <2>6. told' = told /\ Reported(s)' = Reported(s)
    BY <1>2 DEF Reported, panelVars
  <2>. QED
    BY <2>2, <2>3, <2>4, <2>5, <2>6
<1>5. ApplicationCatchesUp'
  BY <1>4 DEF ApplicationCatchesUp
<1>6. EventsMakeSense'
  BY <1>2, InOtherWordsNext DEF Sense
<1>7. OrderInv'
  BY <1>1, <1>2, <1>5, <1>6 DEF OrderInv
<1>8. queue' \in Seq(Event) /\ Len(queue') <= Capacity
  BY <1>2, CapacityAssumption
<1>9. TypeOK'
  BY <1>1, <1>2, <1>3, <1>8 DEF IInv, TypeOK, panelVars
<1>10. ParserInv'
  BY <1>2 DEF IInv, ParserInv, panelVars
<1>. QED
  BY <1>7, <1>9, <1>10 DEF IInv

-----------------------------------------------------------------------------
(* The invariant from which the rest follows.                              *)
THEOREM Inductive == Spec => []IInv
<1>1. Init => IInv
  BY Initially
<1>2. ASSUME IInv, UNCHANGED vars
      PROVE  IInv'
  <2>1. OrderInv'
    BY <1>2, StillStep DEF IInv, vars, panelVars
  <2>2. TypeOK'
    BY <1>2 DEF IInv, TypeOK, vars, panelVars
  <2>3. ParserInv'
    BY <1>2 DEF IInv, ParserInv, vars, panelVars
  <2>. QED
    BY <2>1, <2>2, <2>3 DEF IInv
<1>3. IInv /\ [Next]_vars => IInv'
  BY <1>2, KeyStep, PowerStep, ByteStep, GetStep, FlushStep DEF Next
<1>. QED
  BY <1>1, <1>3, PTL DEF Spec

(* Every variable has its type, and the queue never holds more than it     *)
(* can, in every state that can be reached.                                *)
THEOREM TypeCorrect == Spec => []TypeOK
<1>1. IInv => TypeOK
  BY DEF IInv
<1>. QED
  BY <1>1, Inductive, PTL

(* An application that takes all that waits knows what the drivers know of *)
(* each key and of the panel, unless the latest event about it was dropped *)
(* (button.c 101-102, CTP.c 143-149).                                      *)
THEOREM ApplicationAlwaysCatchesUp == Spec => []ApplicationCatchesUp
<1>1. IInv => ApplicationCatchesUp
  BY DEF IInv, OrderInv
<1>. QED
  BY <1>1, Inductive, PTL

(* The events about a key or the panel make sense in their order as long   *)
(* as none was dropped (button.c 94-104, CTP.c 142-149).                   *)
THEOREM EventsAlwaysMakeSense == Spec => []EventsMakeSense
<1>1. IInv => EventsMakeSense
  BY DEF IInv, OrderInv
<1>. QED
  BY <1>1, Inductive, PTL

(* A step that puts an event of the panel takes the byte that ends a       *)
(* packet, and every such byte puts one if there is room.                  *)
LEMMA TouchPutByte ==
  ASSUME IInv, [Next]_vars
  PROVE  TouchPut <=> packet.n = 4 /\ packet'.n = 5 /\ Len(queue) < Capacity
<1>1. queue \in Seq(Event) /\ Len(queue) \in Nat /\ packet.n \in 0 .. 6
      /\ Len(queue) <= Capacity
  BY DEF IInv, TypeOK
<1>2. CASE packet' = packet /\ ~TouchPut
  BY <1>2
<1>3. ASSUME NEW events \in Seq(Event), Put(events),
             \A k \in 1 .. Len(events) : About(events[k]) # Touch
      PROVE  ~TouchPut
  <2> SUFFICES ASSUME Len(queue') > Len(queue)
               PROVE  About(Last(queue')) # Touch
    BY DEF TouchPut
  <2>1. PICK room \in 0 .. Len(events) :
          /\ Len(queue') = Len(queue) + room
          /\ \A k \in 1 .. room : queue'[Len(queue) + k] = events[k]
    BY <1>3, PutFacts DEF IInv
  <2>2. room \in 1 .. room /\ room \in 1 .. Len(events)
    BY <1>1, <2>1
  <2>3. queue'[Len(queue')] = events[room]
    BY <2>1, <2>2
  <2>. QED
    BY <1>3, <2>2, <2>3 DEF Last
<1>4. ASSUME NEW pressed \in SUBSET Key, KeyInterrupt(pressed)
      PROVE  packet' = packet /\ ~TouchPut
  <2> DEFINE S == Changed(pressed)
             event(k) ==
               Button(IF k \in pressed THEN "BUTTON_DOWN" ELSE "BUTTON_UP", k)
  <2>1. PICK changed \in InOrder(S) : Put([n \in DOMAIN changed |-> event(changed[n])])
    BY <1>4 DEF KeyInterrupt
  <2> DEFINE events == [n \in DOMAIN changed |-> event(changed[n])]
  <2>2. PICK m \in Nat : changed \in [1 .. m -> S]
    BY <2>1, KeysAssumption DEF InOrder, BoundedSeq, SeqOf
  <2>3. S \subseteq Key
    BY DEF Changed
  <2> HIDE DEF S
  <2>4. \A k \in Key : event(k) \in Event /\ About(event(k)) = k
    BY DEF Event, ButtonEvent, Button, About
  <2> HIDE DEF event
  <2>5. events \in Seq(Event) /\ Len(events) = m
        /\ \A n \in 1 .. m : About(events[n]) \in Key
    <3>1. events \in [1 .. m -> Event] /\ \A n \in 1 .. m : About(events[n]) \in Key
      BY <2>2, <2>3, <2>4
    <3>. QED
      BY <2>2, <3>1
  <2>6. Put(events)
    BY <2>1
  <2> HIDE DEF events
  <2>7. packet' = packet
    BY <1>4 DEF KeyInterrupt, panelVars
  <2>. QED
    BY <1>3, <2>5, <2>6, <2>7, SubjectFacts
<1>5. CASE PowerInterrupt
  <2> DEFINE events == <<Button("BUTTON_DOWN", Power), Button("BUTTON_UP", Power)>>
  <2>1. /\ Button("BUTTON_DOWN", Power) \in Event
        /\ Button("BUTTON_UP", Power) \in Event
        /\ About(Button("BUTTON_DOWN", Power)) = Power
        /\ About(Button("BUTTON_UP", Power)) = Power
    BY DEF Event, ButtonEvent, Button, About
  <2>2. events \in Seq(Event) /\ Len(events) = 2
        /\ \A k \in 1 .. 2 : About(events[k]) = Power
    <3>1. \A k \in 1 .. 2 : events[k] = events[1] \/ events[k] = events[2]
      OBVIOUS
    <3>. QED
      BY <2>1
  <2>3. Put(events) /\ packet' = packet
    BY <1>5 DEF PowerInterrupt, panelVars
  <2> HIDE DEF events
  <2>. QED
    BY <1>2, <1>3, <2>2, <2>3, SubjectFacts
<1>6. ASSUME NEW byte \in Byte, CTP_interrupt(byte)
      PROVE  TouchPut <=> packet.n = 4 /\ packet'.n = 5 /\ Len(queue) < Capacity
  <2>1. (packet.n = 4) <=> (touch_state = "TOUCH")
    BY <1>1 DEF IInv, ParserInv
  <2>2. packet' = Counted(byte)
    BY <1>6 DEF CTP_interrupt
  <2>3. CASE touch_state = "TOUCH" /\ byte \in {"00", "01"}
    <3>1. packet.n = 4 /\ packet'.n = 5
      BY <2>1, <2>2, <2>3 DEF Counted
    <3>2. TouchByte(byte)
      BY <1>6, <2>3 DEF CTP_interrupt
    <3>3. PICK type \in {"TOUCH_DOWN", "TOUCH_MOTION", "TOUCH_UP"} :
            Put(<<Touched(type)>>)
      BY <2>3, <3>2 DEF TouchByte
    <3> DEFINE events == <<Touched(type)>>
    <3>4. Touched(type) \in Event /\ About(Touched(type)) = Touch
      BY DEF Touched, Event, TouchEvent, About
    <3>5. events \in Seq(Event) /\ Len(events) = 1 /\ events[1] = Touched(type)
      BY <3>4
    <3>6. Put(events)
      BY <3>3
    <3> HIDE DEF events
    <3>7. PICK room \in 0 .. 1 :
            /\ Len(queue) + room <= Capacity
            /\ room < 1 => Len(queue) + room = Capacity
            /\ Len(queue') = Len(queue) + room
            /\ \A k \in 1 .. room : queue'[Len(queue) + k] = events[k]
      BY <3>5, <3>6, PutFacts DEF IInv
    <3>8. CASE room = 0
      BY <1>1, <3>7, <3>8 DEF TouchPut
    <3>9. CASE room = 1
      <4>1. Len(queue') = Len(queue) + 1 /\ queue'[Len(queue) + 1] = events[1]
            /\ Len(queue) < Capacity
        BY <1>1, <3>7, <3>9, CapacityAssumption
      <4>2. About(Last(queue')) = Touch
        BY <3>4, <3>5, <4>1 DEF Last
      <4>. QED
        BY <1>1, <3>1, <4>1, <4>2 DEF TouchPut
    <3>. QED
      BY <3>7, <3>8, <3>9
  <2>4. CASE ~(touch_state = "TOUCH" /\ byte \in {"00", "01"})
    <3>1. queue' = queue
      BY <1>6, <2>4 DEF CTP_interrupt, StartsPacket, Resets, TouchByte, CoordinateByte, Byte
    <3>2. ~TouchPut
      BY <1>1, <3>1 DEF TouchPut
    <3>3. ~(packet.n = 4 /\ packet'.n = 5)
      BY <2>1, <2>2, <2>4 DEF Counted, None
    <3>. QED
      BY <3>2, <3>3
  <2>. QED
    BY <2>3, <2>4
<1>7. CASE Event_get
  <2>1. Len(queue') < Len(queue) + 1 /\ packet' = packet
    BY <1>1, <1>7 DEF Event_get, panelVars
  <2>. QED
    BY <1>1, <1>2, <1>7, <2>1 DEF TouchPut, Event_get
<1>8. CASE Event_flush
  <2>1. queue' = <<>> /\ packet' = packet
    BY <1>8 DEF Event_flush, panelVars
  <2>. QED
    BY <1>1, <1>2, <2>1 DEF TouchPut
<1>9. CASE UNCHANGED vars
  <2>1. queue' = queue /\ packet' = packet
    BY <1>9 DEF vars, panelVars
  <2>. QED
    BY <1>1, <1>2, <2>1 DEF TouchPut
<1>. QED
  BY <1>2, <1>4, <1>5, <1>6, <1>7, <1>8, <1>9 DEF Next

(* The panel's events come from whole packets and every whole packet is    *)
(* reported if there is room, whatever was lost or garbled before (CTP.c   *)
(* 101-157).                                                               *)
THEOREM WholePacketsAlwaysReported == Spec => WholePacketsReported
<1>1. ASSUME IInv, [Next]_vars
      PROVE  LET whole == packet.n = 4 /\ packet'.n = 5
             IN  TouchPut <=> whole /\ Len(queue) < Capacity
  BY <1>1, TouchPutByte
<1>. QED
  BY <1>1, Inductive, PTL DEF Spec, WholePacketsReported

(* A touch is reported with both coordinates of one packet, unless the     *)
(* panel left a part out (CTP.c 112-134, 140-141).                         *)
THEOREM TouchedAlwaysWhereReported == Spec => TouchedWhereReported
<1>1. ASSUME IInv, [Next]_vars
      PROVE  TouchPut /\ ~packet.kept => x = "new" /\ y = "new"
  BY <1>1, TouchPutByte DEF IInv, ParserInv
<1>. QED
  BY <1>1, Inductive, PTL DEF Spec, TouchedWhereReported
=============================================================================
