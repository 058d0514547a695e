---------------------------- MODULE HistoryProofs ----------------------------
(***************************************************************************)
(* The reader's history for any articles, any positions and lists of any   *)
(* length.                                                                 *)
(***************************************************************************)
EXTENDS History, SequenceTheorems, WellFoundedInduction, TLAPS

(* A set of numbers that is not empty has a least element.                 *)
LEMMA MinOf ==
  ASSUME NEW S \in SUBSET Nat, S # {}
  PROVE  Min(S) \in S /\ \A z \in S : Min(S) <= z
<1>1. PICK m \in S : \A z \in S : ~(z < m)
  <2>1. PICK m \in S : \A z \in S : ~(<<z, m>> \in OpToRel(<, Nat))
    BY NatLessThanWellFounded, WFMin, Zenon
  <2>2. \A z \in S : z < m => <<z, m>> \in OpToRel(<, Nat)
    BY <2>1 DEF OpToRel
  <2>. QED
    BY <2>1, <2>2
<1>2. m \in S /\ \A z \in S : m <= z
  BY <1>1
<1>. QED
  BY <1>2, Zenon DEF Min

(* An element put in front of a sequence.                                  *)
LEMMA InFront ==
  ASSUME NEW S, NEW e \in S, NEW r \in Seq(S)
  PROVE  /\ <<e>> \o r \in Seq(S) /\ Len(<<e>> \o r) = Len(r) + 1
         /\ (<<e>> \o r)[1] = e
         /\ \A k \in 2 .. Len(r) + 1 : (<<e>> \o r)[k] = r[k - 1]
<1>1. <<e>> \in Seq(S) /\ Len(<<e>>) = 1 /\ <<e>>[1] = e /\ Len(r) \in Nat
  OBVIOUS
<1>2. /\ <<e>> \o r \in Seq(S) /\ Len(<<e>> \o r) = 1 + Len(r)
      /\ \A i \in 1 .. 1 + Len(r) :
           (<<e>> \o r)[i] = IF i <= 1 THEN <<e>>[i] ELSE r[i - 1]
  BY <1>1, ConcatProperties
<1>. QED
  BY <1>1, <1>2

(* A sequence without its element i.                                       *)
LEMMA Without ==
  ASSUME NEW S, NEW l \in Seq(S), NEW i \in 1 .. Len(l)
  PROVE  /\ RemoveAt(l, i) \in Seq(S) /\ Len(RemoveAt(l, i)) = Len(l) - 1
         /\ \A k \in 1 .. Len(l) - 1 :
              RemoveAt(l, i)[k] = IF k < i THEN l[k] ELSE l[k + 1]
<1> DEFINE before == SubSeq(l, 1, i - 1)
           after  == SubSeq(l, i + 1, Len(l))
<1>1. Len(l) \in Nat /\ \A k \in 1 .. Len(l) : l[k] \in S
  OBVIOUS
<1>2. /\ before \in Seq(S) /\ Len(before) = i - 1
      /\ \A k \in 1 .. i - 1 : before[k] = l[k]
  BY <1>1, SubSeqProperties
<1>3. /\ after \in Seq(S) /\ Len(after) = Len(l) - i
      /\ \A k \in 1 .. Len(l) - i : after[k] = l[i + k]
  BY <1>1, SubSeqProperties
<1>4. RemoveAt(l, i) = before \o after
  BY DEF RemoveAt
<1> HIDE DEF before, after
<1>5. /\ before \o after \in Seq(S)
      /\ Len(before \o after) = Len(l) - 1
      /\ \A k \in 1 .. Len(l) - 1 : (before \o after)[k] =
           IF k <= i - 1 THEN before[k] ELSE after[k - (i - 1)]
  <2>1. /\ before \o after \in Seq(S)
        /\ Len(before \o after) = Len(before) + Len(after)
        /\ \A k \in 1 .. Len(before) + Len(after) : (before \o after)[k] =
             IF k <= Len(before) THEN before[k] ELSE after[k - Len(before)]
    BY <1>2, <1>3, ConcatProperties
  <2>2. Len(before) + Len(after) = Len(l) - 1
    BY <1>1, <1>2, <1>3
  <2>. QED
    BY <1>2, <2>1, <2>2
<1>6. ASSUME NEW k \in 1 .. Len(l) - 1
      PROVE  RemoveAt(l, i)[k] = IF k < i THEN l[k] ELSE l[k + 1]
  <2>1. CASE k < i
    BY <1>1, <1>2, <1>4, <1>5, <2>1
  <2>2. CASE ~(k < i)
    <3>1. k - (i - 1) \in 1 .. Len(l) - i /\ i + (k - (i - 1)) = k + 1
          /\ ~(k <= i - 1)
      BY <1>1, <2>2
    <3>. QED
      BY <1>3, <1>4, <1>5, <2>2, <3>1
  <2>. QED
    BY <2>1, <2>2
<1>. QED
  BY <1>1, <1>4, <1>5, <1>6

(* The first m elements of a sequence.                                     *)
LEMMA FirstOf ==
  ASSUME NEW S, NEW l \in Seq(S), NEW m \in 0 .. Len(l)
  PROVE  /\ SubSeq(l, 1, m) \in Seq(S) /\ Len(SubSeq(l, 1, m)) = m
         /\ \A k \in 1 .. m : SubSeq(l, 1, m)[k] = l[k]
BY SubSeqProperties
-----------------------------------------------------------------------------
(* NoDuplicates of any list.                                               *)
Distinct(l) == \A i, j \in DOMAIN l : l[i].idx = l[j].idx => i = j

(* An article is in the list.                                              *)
Listed(l, a) == \E i \in DOMAIN l : l[i].idx = a

(* The positions of the list are those at which its articles were left.    *)
Positions(l, m) ==
  /\ \A i \in DOMAIN l : m[l[i].idx] = l[i].y
  /\ \A a \in Article : ~Listed(l, a) => m[a] = 0

(* What the list holds, and what was saved of it: no article twice and     *)
(* every one where it was left.                                            *)
ListInv ==
  /\ left \in [Article -> Position]
  /\ exact => Distinct(history_list) /\ Distinct(file)
              /\ Positions(history_list, left)

(* Only an article's screen shows one, and it is the lists' latest.        *)
ShownInv ==
  /\ display_mode # "ARTICLE" => shown = NoArticle
  /\ LogsTheShown

(* The application sleeps only on a list that it believes saved.           *)
SavedInv ==
  /\ asleep => history_changed = "NONE" /\ ~writing
  /\ NothingUnsaved

(* An article chosen from the list is on its way to where it is due: not   *)
(* shown yet, or requested there, or there.                                *)
DueInv ==
  due # NoPosition =>
    /\ shown # NoArticle
    /\ ~display_first_page =>
         /\ shown_y = 0
         /\ due = IF Reopens(shown, init_y) THEN init_y ELSE 0
         /\ request # NoPosition => request = 0 /\ due = 0
    /\ display_first_page =>
         due = IF request = NoPosition THEN shown_y ELSE request

IInv == TypeOK /\ ListInv /\ ShownInv /\ SavedInv /\ DueInv

(* An entry of one article in front of some entries, in their order, of    *)
(* others makes a list without duplicates.                                 *)
LEMMA DistinctInFront ==
  ASSUME NEW l \in Seq(Entry), NEW r \in Seq(Entry), NEW e \in Entry,
         NEW g \in [1 .. Len(r) -> 1 .. Len(l)],
         Distinct(l), \A j, k \in 1 .. Len(r) : g[j] = g[k] => j = k,
         \A k \in 1 .. Len(r) : r[k] = l[g[k]] /\ r[k].idx # e.idx
  PROVE  Distinct(<<e>> \o r)
<1> DEFINE n == <<e>> \o r
<1>1. /\ n \in Seq(Entry) /\ Len(n) = Len(r) + 1 /\ n[1] = e
      /\ \A k \in 2 .. Len(r) + 1 : n[k] = r[k - 1]
  BY InFront
<1> HIDE DEF n
<1>2. Len(r) \in Nat /\ DOMAIN n = 1 .. Len(r) + 1 /\ DOMAIN l = 1 .. Len(l)
  BY <1>1
<1>3. ASSUME NEW i \in 2 .. Len(r) + 1
      PROVE  i - 1 \in 1 .. Len(r) /\ n[i] = l[g[i - 1]] /\ n[i].idx # e.idx
             /\ g[i - 1] \in DOMAIN l
  <2>1. i - 1 \in 1 .. Len(r)
    BY <1>2
  <2>2. n[i] = r[i - 1] /\ g[i - 1] \in DOMAIN l
    BY <1>1, <1>2, <2>1
  <2>3. r[i - 1] = l[g[i - 1]] /\ r[i - 1].idx # e.idx
    BY <2>1
  <2>. QED
    BY <2>1, <2>2, <2>3
<1>4. ASSUME NEW i \in DOMAIN n, NEW j \in DOMAIN n, n[i].idx = n[j].idx
      PROVE  i = j
  <2>1. CASE i = 1 /\ j = 1
    BY <2>1
  <2>2. CASE i # 1 /\ j # 1
    <3>1. i \in 2 .. Len(r) + 1 /\ j \in 2 .. Len(r) + 1
      BY <1>2, <2>2
    <3>2. g[i - 1] = g[j - 1]
      BY <1>3, <1>4, <3>1 DEF Distinct
    <3>3. i - 1 = j - 1
      BY <1>3, <3>1, <3>2
    <3>. QED
      BY <3>1, <3>3
  <2>3. CASE i = 1 /\ j # 1
    BY <1>1, <1>2, <1>3, <1>4, <2>3
  <2>4. CASE i # 1 /\ j = 1
    BY <1>1, <1>2, <1>3, <1>4, <2>4
  <2>. QED
    BY <2>1, <2>2, <2>3, <2>4
<1>. QED
  BY <1>4 DEF Distinct, n

(* history_add forgets where b was left when it puts a into the list n.    *)
Forgotten(n, a, keep, b) ==
  (b = a /\ ~keep) \/ \A z \in Range(n) : z.idx # b

(* Positions m of the list l become M when e is put in front of the        *)
(* entries r that stay.                                                    *)
Continues(l, m, e, keep, r, M) ==
  /\ Positions(l, m)
  /\ \A k \in 1 .. Len(r) :
       r[k].idx # e.idx /\ \E j \in 1 .. Len(l) : r[k] = l[j]
  /\ e.y = IF keep THEN m[e.idx] ELSE 0
  /\ \A b \in Article :
       M[b] = IF Forgotten(<<e>> \o r, e.idx, keep, b) THEN 0 ELSE m[b]

(* They are right again: the new entry's is where its article was left,    *)
(* and what fell off the list is forgotten.                                *)
LEMMA PositionsInFront ==
  ASSUME NEW l \in Seq(Entry), NEW r \in Seq(Entry), NEW e \in Entry,
         NEW m, NEW keep, NEW M, Continues(l, m, e, keep, r, M)
  PROVE  Positions(<<e>> \o r, M)
<1> DEFINE n == <<e>> \o r
<1>1. /\ n \in Seq(Entry) /\ Len(n) = Len(r) + 1 /\ n[1] = e
      /\ \A k \in 2 .. Len(r) + 1 : n[k] = r[k - 1]
  BY InFront
<1>2. \A b \in Article :
        M[b] = IF (b = e.idx /\ ~keep) \/ \A z \in Range(n) : z.idx # b
               THEN 0 ELSE m[b]
  BY DEF Continues, Forgotten
<1> HIDE DEF n
<1>3. Len(r) \in Nat /\ DOMAIN n = 1 .. Len(r) + 1 /\ DOMAIN l = 1 .. Len(l)
      /\ e.idx \in Article /\ \A i \in DOMAIN n : n[i].idx \in Article
  <2>1. Len(r) \in Nat /\ DOMAIN n = 1 .. Len(r) + 1 /\ DOMAIN l = 1 .. Len(l)
    BY <1>1
  <2>2. e.idx \in Article
    BY DEF Entry
  <2>3. ASSUME NEW i \in DOMAIN n
        PROVE  n[i].idx \in Article
    <3>1. n[i] \in Entry
      BY <1>1, <2>1
    <3>. QED
      BY <3>1 DEF Entry
  <2>. QED
    BY <2>1, <2>2, <2>3
<1>4. ASSUME NEW i \in DOMAIN n
      PROVE  n[i] \in Range(n)
  BY DEF Range
<1>5. M[e.idx] = e.y
  <2>1. 1 \in DOMAIN n
    BY <1>3
  <2>2. e \in Range(n)
    BY <1>1, <1>4, <2>1
  <2>. QED
    BY <1>2, <1>3, <2>2 DEF Continues
<1>6. ASSUME NEW i \in 2 .. Len(r) + 1
      PROVE  M[n[i].idx] = n[i].y
  <2>1. i - 1 \in 1 .. Len(r) /\ i \in DOMAIN n
    BY <1>3
  <2>2. n[i].idx # e.idx /\ \E j \in DOMAIN l : n[i] = l[j]
    <3>1. n[i] = r[i - 1]
      BY <1>1
    <3>. QED
      BY <1>3, <2>1, <3>1 DEF Continues
  <2>3. n[i] \in Range(n) /\ n[i].idx \in Article
    BY <1>3, <1>4, <2>1
  <2>4. M[n[i].idx] = m[n[i].idx]
    BY <1>2, <2>2, <2>3
  <2>. QED
    BY <2>2, <2>4 DEF Continues, Positions
<1>7. ASSUME NEW b \in Article, ~Listed(n, b)
      PROVE  M[b] = 0
  <2>1. \A z \in Range(n) : z.idx # b
    BY <1>7 DEF Listed, Range
  <2>. QED
    BY <1>2, <2>1
<1>8. \A i \in DOMAIN n : M[n[i].idx] = n[i].y
  <2> SUFFICES ASSUME NEW i \in DOMAIN n PROVE M[n[i].idx] = n[i].y
    OBVIOUS
  <2>1. i = 1 \/ i \in 2 .. Len(r) + 1
    BY <1>3
  <2>. QED
    BY <1>1, <1>5, <1>6, <2>1
<1>9. Positions(n, M)
  BY <1>7, <1>8 DEF Positions
<1>. QED
  BY <1>9 DEF n

(* The viewing list ends with the article added, and keeps its bound.      *)
LEMMA PushedFacts ==
  ASSUME NEW viewing \in Seq(Entry), Len(viewing) <= MaxViewing, NEW a \in Article
  PROVE  /\ Pushed(viewing, a) \in Seq(Entry) /\ Len(Pushed(viewing, a)) <= MaxViewing
         /\ Pushed(viewing, a) # <<>> /\ Last(Pushed(viewing, a)).idx = a
<1>1. Len(viewing) \in Nat /\ At(a, 0) \in Entry /\ At(a, 0).idx = a
  BY PositionAssumption DEF At, Entry
<1>2. CASE ~Pushes(viewing, a)
  BY <1>2 DEF Pushed, Pushes
<1>3. CASE Pushes(viewing, a)
  <2> DEFINE v == IF Len(viewing) >= MaxViewing THEN Tail(viewing) ELSE viewing
  <2>1. v \in Seq(Entry) /\ Len(v) < MaxViewing
    <3>1. CASE Len(viewing) >= MaxViewing
      <4>1. viewing # <<>> /\ Len(viewing) = MaxViewing
        BY <1>1, <3>1, SizeAssumption
      <4>2. Tail(viewing) \in Seq(Entry) /\ Len(Tail(viewing)) = Len(viewing) - 1
        BY <4>1
      <4>. QED
        BY <3>1, <4>1, <4>2, SizeAssumption
    <3>2. CASE ~(Len(viewing) >= MaxViewing)
      BY <1>1, <3>2, SizeAssumption
    <3>. QED
      BY <3>1, <3>2
  <2>2. Pushed(viewing, a) = Append(v, At(a, 0))
    BY <1>3 DEF Pushed
  <2> HIDE DEF v
  <2>3. /\ Append(v, At(a, 0)) \in Seq(Entry)
        /\ Len(Append(v, At(a, 0))) = Len(v) + 1
        /\ Append(v, At(a, 0))[Len(v) + 1] = At(a, 0)
        /\ Len(v) \in Nat
    BY <1>1, <2>1, AppendProperties
  <2>. QED
    BY <1>1, <2>1, <2>2, <2>3, SizeAssumption DEF Last
<1>. QED
  BY <1>2, <1>3

(* history_add puts the article first, in both lists, and keeps them in    *)
(* order as long as its search missed no entry.                            *)
LEMMA AddStep ==
  ASSUME TypeOK, ListInv,
         NEW viewing \in Seq(Entry), Len(viewing) <= MaxViewing,
         NEW a \in Article, NEW keep \in BOOLEAN, history_add(viewing, a, keep)
  PROVE  /\ history_list' \in Seq(Entry) /\ Len(history_list') <= MaxHistory
         /\ history_list' # <<>> /\ history_list'[1].idx = a
         /\ viewing_list' \in Seq(Entry) /\ Len(viewing_list') <= MaxViewing
         /\ viewing_list' # <<>> /\ Last(viewing_list').idx = a
         /\ left' \in [Article -> Position]
         /\ exact' => exact /\ Distinct(history_list')
                      /\ Positions(history_list', left')
<1> DEFINE l == history_list
           F == Found(viewing, a)
           new == history_list'
<1>1. /\ l \in Seq(Entry) /\ Len(l) \in Nat /\ Len(l) <= MaxHistory
      /\ \A i \in 1 .. Len(l) : l[i] \in Entry
      /\ DOMAIN l = 1 .. Len(l)
  BY DEF TypeOK
<1>2. FirstSearched(viewing, a) \in Nat \ {0}
  BY SizeAssumption DEF FirstSearched
<1>3. F \subseteq 1 .. Len(l) /\ F \subseteq Nat /\ \A i \in F : l[i].idx = a
  BY <1>1, <1>2 DEF Found
<1>4. ASSUME exact'
      PROVE  /\ exact /\ Distinct(l) /\ Positions(l, left)
             /\ \A i \in 1 .. Len(l) : l[i].idx = a => i \in F
  <2>1. exact /\ ~Missed(viewing, a)
    BY <1>4 DEF history_add
  <2>2. \A i \in 1 .. Len(l) : l[i].idx = a => i \in F
    BY <1>1, <1>2, <2>1 DEF Missed, Found
  <2>. QED
    BY <2>1, <2>2 DEF ListInv
<1>5. \E e \in Entry, r \in Seq(Entry) :
        \E g \in [1 .. Len(r) -> 1 .. Len(l)] :
          /\ new = <<e>> \o r /\ e.idx = a /\ Len(r) < MaxHistory
          /\ \A k \in 1 .. Len(r) : r[k] = l[g[k]]
          /\ \A j, k \in 1 .. Len(r) : g[j] = g[k] => j = k
          /\ exact' => /\ \A k \in 1 .. Len(r) : r[k].idx # a
                       /\ e.y = IF keep THEN left[a] ELSE 0
  <2>1. CASE F # {}
    <3> DEFINE f == Min(F)
               e == At(a, IF keep THEN l[f].y ELSE 0)
               r == RemoveAt(l, f)
               g == [k \in 1 .. Len(r) |-> IF k < f THEN k ELSE k + 1]
    <3>1. f \in F
      BY <1>3, <2>1, MinOf
    <3>2. new = <<e>> \o r
      BY <2>1 DEF history_add, Added
    <3> HIDE DEF f, F
    <3>3. f \in 1 .. Len(l) /\ l[f].idx = a /\ l[f] \in Entry
      BY <1>1, <1>3, <3>1
    <3>4. e \in Entry /\ e.idx = a /\ e.y = IF keep THEN l[f].y ELSE 0
      BY <3>3, PositionAssumption DEF At, Entry
    <3>5. /\ r \in Seq(Entry) /\ Len(r) = Len(l) - 1
          /\ \A k \in 1 .. Len(l) - 1 : r[k] = IF k < f THEN l[k] ELSE l[k + 1]
      BY <1>1, <3>3, Without
    <3> HIDE DEF e, r
    <3>6. g \in [1 .. Len(r) -> 1 .. Len(l)]
      BY <1>1, <3>3, <3>5
    <3>7. \A k \in 1 .. Len(r) : g[k] = (IF k < f THEN k ELSE k + 1)
      OBVIOUS
    <3> HIDE DEF g
    <3>8. \A k \in 1 .. Len(r) : r[k] = l[g[k]] /\ g[k] # f
      BY <1>1, <3>3, <3>5, <3>7
    <3>9. \A j, k \in 1 .. Len(r) : g[j] = g[k] => j = k
      BY <1>1, <3>3, <3>5, <3>7
    <3>10. ASSUME exact'
           PROVE  /\ \A k \in 1 .. Len(r) : r[k].idx # a
                  /\ e.y = IF keep THEN left[a] ELSE 0
      <4>1. Distinct(l) /\ Positions(l, left)
        BY <1>4, <3>10
      <4>2. ASSUME NEW k \in 1 .. Len(r)
            PROVE  r[k].idx # a
        <5>1. g[k] \in 1 .. Len(l) /\ g[k] # f /\ r[k] = l[g[k]]
          BY <3>6, <3>8
        <5>2. l[g[k]].idx # l[f].idx
          BY <1>1, <3>3, <4>1, <5>1 DEF Distinct
        <5>. QED
          BY <3>3, <5>1, <5>2
      <4>3. left[a] = l[f].y
        BY <1>1, <3>3, <4>1 DEF Positions
      <4>. QED
        BY <3>4, <4>2, <4>3
    <3>11. Len(r) < MaxHistory
      BY <1>1, <3>5, SizeAssumption
    <3> e \in Entry /\ r \in Seq(Entry) /\ g \in [1 .. Len(r) -> 1 .. Len(l)]
      BY <3>4, <3>5, <3>6
    <3> WITNESS e \in Entry, r \in Seq(Entry)
    <3> WITNESS g \in [1 .. Len(r) -> 1 .. Len(l)]
    <3>. QED
      BY <3>2, <3>4, <3>8, <3>9, <3>10, <3>11
  <2>2. CASE F = {}
    <3> DEFINE e == At(a, 0)
               n == IF Len(l) >= MaxHistory THEN MaxHistory - 1 ELSE Len(l)
               r == SubSeq(l, 1, n)
               g == [k \in 1 .. Len(r) |-> k]
    <3>1. new = <<e>> \o r
      BY <2>2 DEF history_add, Added
    <3>2. n \in 0 .. Len(l) /\ n < MaxHistory
      BY <1>1, SizeAssumption
    <3> HIDE DEF n
    <3>3. r \in Seq(Entry) /\ Len(r) = n /\ \A k \in 1 .. n : r[k] = l[k]
      BY <1>1, <3>2, FirstOf
    <3>4. e \in Entry /\ e.idx = a /\ e.y = 0
      BY PositionAssumption DEF At, Entry
    <3> HIDE DEF e, r
    <3>5. g \in [1 .. Len(r) -> 1 .. Len(l)] /\ \A k \in 1 .. Len(r) : g[k] = k
      BY <1>1, <3>2, <3>3
    <3> HIDE DEF g
    <3>6. ASSUME exact'
          PROVE  /\ \A k \in 1 .. Len(r) : r[k].idx # a
                 /\ e.y = IF keep THEN left[a] ELSE 0
      <4>1. Positions(l, left) /\ \A i \in 1 .. Len(l) : l[i].idx # a
        BY <1>4, <2>2, <3>6
      <4>2. left[a] = 0
        BY <1>1, <4>1 DEF Positions, Listed
      <4>3. \A k \in 1 .. Len(r) : r[k].idx # a
        BY <1>1, <3>2, <3>3, <4>1
      <4>. QED
        BY <3>4, <4>2, <4>3
    <3>7. Len(r) < MaxHistory /\ \A k \in 1 .. Len(r) : r[k] = l[g[k]]
      BY <1>1, <3>2, <3>3, <3>5
    <3>8. \A j, k \in 1 .. Len(r) : g[j] = g[k] => j = k
      BY <3>5
    <3> e \in Entry /\ r \in Seq(Entry) /\ g \in [1 .. Len(r) -> 1 .. Len(l)]
      BY <3>3, <3>4, <3>5
    <3> WITNESS e \in Entry, r \in Seq(Entry)
    <3> WITNESS g \in [1 .. Len(r) -> 1 .. Len(l)]
    <3>. QED
      BY <3>1, <3>4, <3>6, <3>7, <3>8
  <2>. QED
    BY <2>1, <2>2
<1>6. PICK e \in Entry, r \in Seq(Entry) :
        \E g \in [1 .. Len(r) -> 1 .. Len(l)] :
          /\ new = <<e>> \o r /\ e.idx = a /\ Len(r) < MaxHistory
          /\ \A k \in 1 .. Len(r) : r[k] = l[g[k]]
          /\ \A j, k \in 1 .. Len(r) : g[j] = g[k] => j = k
          /\ exact' => /\ \A k \in 1 .. Len(r) : r[k].idx # a
                       /\ e.y = IF keep THEN left[a] ELSE 0
  BY <1>5
<1>7. PICK g \in [1 .. Len(r) -> 1 .. Len(l)] :
          /\ new = <<e>> \o r /\ e.idx = a /\ Len(r) < MaxHistory
          /\ \A k \in 1 .. Len(r) : r[k] = l[g[k]]
          /\ \A j, k \in 1 .. Len(r) : g[j] = g[k] => j = k
          /\ exact' => /\ \A k \in 1 .. Len(r) : r[k].idx # a
                       /\ e.y = IF keep THEN left[a] ELSE 0
  BY <1>6
<1>8. /\ new \in Seq(Entry) /\ Len(new) = Len(r) + 1 /\ new[1] = e /\ Len(r) \in Nat
  BY <1>7, InFront
<1>9. new # <<>> /\ Len(new) <= MaxHistory /\ new[1].idx = a
  BY <1>7, <1>8, SizeAssumption
<1>10. /\ viewing_list' \in Seq(Entry) /\ Len(viewing_list') <= MaxViewing
       /\ viewing_list' # <<>> /\ Last(viewing_list').idx = a
  BY PushedFacts DEF history_add
<1>11. ASSUME exact'
       PROVE  /\ exact /\ Distinct(new)
              /\ left' \in [Article -> Position] /\ Positions(new, left')
  <2>1. Distinct(l) /\ Positions(l, left) /\ exact
    BY <1>4, <1>11
  <2>2. \A k \in 1 .. Len(r) : r[k] = l[g[k]] /\ r[k].idx # e.idx
    BY <1>7, <1>11
  <2>3. Distinct(new)
    BY <1>1, <1>7, <2>1, <2>2, DistinctInFront
  <2>4. left' = [b \in Article |->
                   IF \/ b = e.idx /\ ~keep
                      \/ \A z \in Range(<<e>> \o r) : z.idx # b
                   THEN 0 ELSE left[b]]
    BY <1>7, <1>11 DEF history_add
  <2>5. e.y = (IF keep THEN left[e.idx] ELSE 0) /\ left \in [Article -> Position]
    BY <1>7, <1>11 DEF ListInv
  <2>6. left' \in [Article -> Position]
    BY <2>4, <2>5, PositionAssumption
  <2>7. \A b \in Article :
          left'[b] = IF Forgotten(<<e>> \o r, e.idx, keep, b) THEN 0 ELSE left[b]
    BY <2>4 DEF Forgotten
  <2>8. Positions(<<e>> \o r, left')
    <3>1. \A k \in 1 .. Len(r) :
            r[k].idx # e.idx /\ \E j \in 1 .. Len(l) : r[k] = l[j]
      BY <2>2
    <3>2. Continues(l, left, e, keep, r, left')
      BY <2>1, <2>5, <2>7, <3>1 DEF Continues
    <3>. QED
      BY <1>1, <3>2, PositionsInFront
  <2>. QED
    BY <1>7, <2>1, <2>3, <2>6, <2>8
<1>12. ASSUME ~exact'
       PROVE  left' \in [Article -> Position]
  BY <1>12, PositionAssumption DEF history_add, AllAtTop
<1>. QED
  BY <1>8, <1>9, <1>10, <1>11, <1>12
-----------------------------------------------------------------------------
(* The first entry of an article, if there is one.                         *)
LEMMA Selected ==
  ASSUME NEW l \in Seq(Entry), NEW a
  PROVE  LET f == SelectInSeq(l, LAMBDA e : e.idx = a)
         IN  IF Listed(l, a) THEN f \in DOMAIN l /\ l[f].idx = a ELSE f = 0
<1> DEFINE I == {i \in 1 .. Len(l) : l[i].idx = a}
           f == SelectInSeq(l, LAMBDA e : e.idx = a)
<1>1. f = IF I # {} THEN Min(I) ELSE 0
  BY Zenon DEF SelectInSeq
<1>2. DOMAIN l = 1 .. Len(l) /\ I \subseteq Nat
  OBVIOUS
<1> HIDE DEF f
<1>3. CASE Listed(l, a)
  <2>1. I # {}
    BY <1>2, <1>3 DEF Listed
  <2>2. Min(I) \in I
    BY <1>2, <2>1, MinOf
  <2>3. f \in DOMAIN l /\ l[f].idx = a
    BY <1>1, <1>2, <2>1, <2>2
  <2>. QED
    BY <1>3, <2>3 DEF f
<1>4. CASE ~Listed(l, a)
  <2>1. I = {}
    BY <1>2, <1>4 DEF Listed
  <2>. QED
    BY <1>1, <1>4, <2>1 DEF f
<1>. QED
  BY <1>3, <1>4

(* Moving an entry changes nothing but its position.                       *)
LEMMA MovedFacts ==
  ASSUME NEW l \in Seq(Entry), NEW i, NEW y \in Position
  PROVE  /\ Moved(l, i, y) \in Seq(Entry) /\ Len(Moved(l, i, y)) = Len(l)
         /\ DOMAIN Moved(l, i, y) = DOMAIN l
         /\ \A k \in DOMAIN l :
              /\ Moved(l, i, y)[k].idx = l[k].idx
              /\ Moved(l, i, y)[k].y = IF k = i THEN y ELSE l[k].y
<1>1. CASE i \notin DOMAIN l
  BY <1>1 DEF Moved
<1>2. CASE i \in DOMAIN l
  <2>1. Moved(l, i, y) = [l EXCEPT ![i].y = y]
    BY <1>2 DEF Moved
  <2>2. \A k \in DOMAIN l : l[k] \in Entry
    OBVIOUS
  <2>3. \A k \in DOMAIN l :
          Moved(l, i, y)[k] = IF k = i THEN [l[i] EXCEPT !.y = y] ELSE l[k]
    BY <1>2, <2>1
  <2>4. [l[i] EXCEPT !.y = y] \in Entry
    BY <1>2, <2>2 DEF Entry
  <2>5. /\ [l[i] EXCEPT !.y = y].idx = l[i].idx
        /\ [l[i] EXCEPT !.y = y].y = y
    BY <1>2, <2>2 DEF Entry
  <2>6. DOMAIN Moved(l, i, y) = DOMAIN l /\ DOMAIN l = 1 .. Len(l) /\ Len(l) \in Nat
    BY <2>1
  <2>7. \A k \in 1 .. Len(l) : Moved(l, i, y)[k] \in Entry
    BY <2>2, <2>3, <2>4, <2>6
  <2>8. Moved(l, i, y) \in [1 .. Len(l) -> Entry]
    BY <2>1, <2>6, <2>7
  <2>9. Moved(l, i, y) \in Seq(Entry) /\ Len(Moved(l, i, y)) = Len(l)
    BY <2>6, <2>8
  <2>. QED
    BY <2>3, <2>5, <2>6, <2>9
<1>. QED
  BY <1>1, <1>2

(* The reader's steps leave the file and the disk alone and make the list  *)
(* one that is to be saved, if they change it.                             *)
LEMMA ActsStep ==
  ASSUME SavedInv, Acts, history_list' = history_list \/ history_changed' # "NONE",
         history_changed' # "NONE" \/ history_changed' = history_changed
  PROVE  SavedInv'
BY DEF SavedInv, NothingUnsaved, Acts, disk

(* An article found is opened at its top, one of the history screen where  *)
(* the list says.                                                          *)
Aimed(a, keep, y) ==
  /\ ~keep => y = 0
  /\ keep /\ display_mode = "HISTORY" =>
       /\ request = NoPosition
       /\ \E i \in DOMAIN history_list :
            history_list[i].idx = a /\ history_list[i].y = y

(* What is opened from the history screen is aimed at where it was last    *)
(* logged.                                                                 *)
LEMMA AimedAtLast ==
  ASSUME IInv, NEW viewing \in Seq(Entry), Len(viewing) <= MaxViewing,
         NEW a \in Article, NEW keep \in BOOLEAN, NEW y, Aimed(a, keep, y),
         history_add(viewing, a, keep), display_mode = "HISTORY", exact'
  PROVE  left'[a] = y
<1>1. /\ history_list' \in Seq(Entry) /\ history_list' # <<>>
      /\ history_list'[1].idx = a /\ exact
  BY AddStep DEF IInv
<1>2. Listed(history_list', a)
  BY <1>1 DEF Listed
<1>3. left'[a] = IF ~keep THEN 0 ELSE left[a]
  <2>1. left'[a] = IF \/ a = a /\ ~keep
                      \/ \A e \in Range(history_list') : e.idx # a
                   THEN 0 ELSE left[a]
    BY DEF history_add
  <2>2. ~(\A e \in Range(history_list') : e.idx # a)
    BY <1>2 DEF Listed, Range
  <2>. QED
    BY <2>1, <2>2
<1>4. CASE keep
  <2>1. PICK i \in DOMAIN history_list :
          history_list[i].idx = a /\ history_list[i].y = y
    BY <1>4 DEF Aimed
  <2>2. left[a] = y
    BY <1>1, <2>1 DEF IInv, ListInv, Positions
  <2>. QED
    BY <1>3, <1>4, <2>2
<1>5. CASE ~keep
  BY <1>3, <1>5 DEF Aimed
<1>. QED
  BY <1>4, <1>5

(* An article is opened, or fails to load.                                 *)
LEMMA OpenStep ==
  ASSUME IInv, NEW viewing \in Seq(Entry), Len(viewing) <= MaxViewing,
         NEW a \in Article, NEW keep \in BOOLEAN, NEW raw, NEW y \in Position,
         Aimed(a, keep, y), Open(viewing, a, keep, raw, y)
  PROVE  IInv'
<1>1. /\ Acts /\ display_mode' = "ARTICLE" /\ shown_y' = 0 /\ 0 \in Position
      /\ request' = IF request = NoPosition THEN NoPosition ELSE 0
      /\ UNCHANGED <<file, writing, broken>>
  BY PositionAssumption DEF Open, Acts, disk
<1>2. request' \in Position \cup {NoPosition}
  BY <1>1
<1>3. CASE /\ shown' = a /\ history_add(viewing, a, keep)
           /\ init_y' = y /\ display_first_page' = FALSE /\ rendering' = TRUE
           /\ due' = IF display_mode # "HISTORY" \/ ~exact' THEN NoPosition
                     ELSE IF Reopens(a, left'[a]) THEN left'[a] ELSE 0
  <2>1. /\ history_list' \in Seq(Entry) /\ Len(history_list') <= MaxHistory
        /\ history_list' # <<>> /\ history_list'[1].idx = a
        /\ viewing_list' \in Seq(Entry) /\ Len(viewing_list') <= MaxViewing
        /\ viewing_list' # <<>> /\ Last(viewing_list').idx = a
        /\ left' \in [Article -> Position]
        /\ exact' => exact /\ Distinct(history_list')
                     /\ Positions(history_list', left')
    BY <1>3, AddStep DEF IInv
  <2>2. history_changed' = "NORMAL"
    BY <1>3 DEF history_add
  <2>3. due' \in Position \cup {NoPosition}
    BY <1>1, <1>3, <2>1
  <2>4. TypeOK'
    BY <1>1, <1>2, <1>3, <2>1, <2>2, <2>3 DEF IInv, TypeOK
  <2>5. ListInv'
    BY <1>1, <2>1 DEF IInv, ListInv
  <2>6. ShownInv'
    BY <1>1, <1>3, <2>1 DEF ShownInv, LogsTheShown
  <2>7. SavedInv'
    BY <1>1, <2>2, ActsStep DEF IInv
  <2>8. DueInv'
    <3>1. SUFFICES ASSUME due' # NoPosition
                   PROVE  /\ due' = IF Reopens(a, y) THEN y ELSE 0
                          /\ request' # NoPosition => request' = 0 /\ due' = 0
      BY <1>1, <1>3, ArticleAssumption DEF DueInv, Reopens
    <3>2. display_mode = "HISTORY" /\ exact'
      BY <1>3, <3>1
    <3>3. left'[a] = y
      BY <1>3, <3>2, AimedAtLast
    <3>4. due' = IF Reopens(a, y) THEN y ELSE 0
      BY <1>3, <3>2, <3>3
    <3>5. ASSUME request' # NoPosition
          PROVE  request' = 0 /\ due' = 0
      <4>1. request # NoPosition /\ request' = 0
        BY <1>1, <3>5
      <4>2. y = 0
        BY <3>2, <4>1 DEF Aimed
      <4>. QED
        BY <3>4, <4>1, <4>2
    <3>. QED
      BY <3>4, <3>5
  <2>. QED
    BY <2>4, <2>5, <2>6, <2>7, <2>8 DEF IInv
<1>4. CASE /\ shown' = NoArticle /\ viewing_list' = viewing
           /\ init_y' = 0 /\ display_first_page' = TRUE /\ rendering' = FALSE
           /\ due' = NoPosition
           /\ UNCHANGED <<history_list, history_changed, ghosts>>
  <2>1. TypeOK'
    BY <1>1, <1>2, <1>4 DEF IInv, TypeOK
  <2>2. ListInv'
    BY <1>1, <1>4 DEF IInv, ListInv, ghosts
  <2>3. ShownInv' /\ DueInv'
    BY <1>1, <1>4 DEF ShownInv, LogsTheShown, DueInv
  <2>4. SavedInv'
    BY <1>1, <1>4, ActsStep DEF IInv
  <2>. QED
    BY <2>1, <2>2, <2>3, <2>4 DEF IInv
<1>. QED
  BY <1>3, <1>4 DEF Open

(* What a step that opens an article gives Open.                           *)
LEMMA Opens ==
  ASSUME IInv, OpenFound \/ OpenFromHistory \/ Previous
  PROVE  \E viewing \in Seq(Entry), a \in Article, keep, raw \in BOOLEAN, y \in Position :
           /\ Len(viewing) <= MaxViewing /\ Open(viewing, a, keep, raw, y)
           /\ Aimed(a, keep, y)
<1>1. /\ viewing_list \in Seq(Entry) /\ Len(viewing_list) <= MaxViewing
      /\ history_list \in Seq(Entry) /\ 0 \in Position
  BY PositionAssumption DEF IInv, TypeOK
<1>2. CASE OpenFound
  <2>1. PICK a \in Article, raw \in BOOLEAN : Open(viewing_list, a, FALSE, raw, 0)
    BY <1>2 DEF OpenFound
  <2> DEFINE viewing == viewing_list
             keep == FALSE
             y == 0
  <2> viewing \in Seq(Entry) /\ keep \in BOOLEAN /\ y \in Position
    BY <1>1
  <2> WITNESS viewing \in Seq(Entry), a \in Article, keep \in BOOLEAN,
              raw \in BOOLEAN, y \in Position
  <2>. QED
    BY <1>1, <2>1 DEF Aimed
<1>3. CASE OpenFromHistory
  <2>1. PICK i \in DOMAIN history_list :
          LET a == history_list[i].idx
              f == SelectInSeq(history_list, LAMBDA e : e.idx = a)
          IN  Open(viewing_list, a, TRUE, FALSE, history_list[f].y)
    BY <1>3 DEF OpenFromHistory
  <2> DEFINE a == history_list[i].idx
             f == SelectInSeq(history_list, LAMBDA e : e.idx = a)
             y == history_list[f].y
             viewing == viewing_list
             keep == TRUE
             raw == FALSE
  <2>2. Listed(history_list, a)
    BY DEF Listed
  <2>3. f \in DOMAIN history_list /\ history_list[f].idx = a
    BY <1>1, <2>2, Selected
  <2>4. Open(viewing_list, a, TRUE, FALSE, y) /\ request = NoPosition
    BY <1>3, <2>1 DEF OpenFromHistory, Touchable
  <2> HIDE DEF f
  <2>5. a \in Article /\ y \in Position
    <3>1. history_list[i] \in Entry /\ history_list[f] \in Entry
      BY <1>1, <2>3
    <3>. QED
      BY <3>1 DEF Entry
  <2> HIDE DEF y, a
  <2>6. \E j \in DOMAIN history_list :
          history_list[j].idx = a /\ history_list[j].y = y
    BY <2>3 DEF y
  <2> /\ viewing \in Seq(Entry) /\ a \in Article /\ keep \in BOOLEAN
      /\ raw \in BOOLEAN /\ y \in Position
    BY <1>1, <2>5
  <2> WITNESS viewing \in Seq(Entry), a \in Article, keep \in BOOLEAN,
              raw \in BOOLEAN, y \in Position
  <2>. QED
    BY <1>1, <2>4, <2>6 DEF Aimed
<1>4. CASE Previous
  <2> DEFINE n == Len(viewing_list)
             p == IF n > 1 THEN viewing_list[n - 1] ELSE viewing_list[1]
             viewing == SubSeq(viewing_list, 1, n - 1)
             a == p.idx
             y == p.y
             keep == TRUE
             raw == FALSE
  <2>1. n \in Nat /\ n >= 1 /\ display_mode = "ARTICLE"
    BY <1>1, <1>4 DEF Previous
  <2>2. p \in Entry
    <3>1. CASE n > 1
      <4>1. n - 1 \in 1 .. n /\ p = viewing_list[n - 1]
        BY <2>1, <3>1
      <4>. QED
        BY <1>1, <4>1
    <3>2. CASE ~(n > 1)
      <4>1. 1 \in 1 .. n /\ p = viewing_list[1]
        BY <2>1, <3>2
      <4>. QED
        BY <1>1, <4>1
    <3>. QED
      BY <3>1, <3>2
  <2>3. viewing \in Seq(Entry) /\ Len(viewing) = n - 1
    <3>1. n - 1 \in 0 .. Len(viewing_list)
      BY <2>1
    <3>. QED
      BY <1>1, <3>1, FirstOf
  <2>4. Open(viewing, a, TRUE, FALSE, y)
    BY <1>4 DEF Previous
  <2>5. Len(viewing) <= MaxViewing
    BY <1>1, <2>1, <2>3, SizeAssumption
  <2> HIDE DEF p, viewing, n
  <2>6. a \in Article /\ y \in Position
    BY <2>2 DEF Entry
  <2> HIDE DEF a, y
  <2> /\ viewing \in Seq(Entry) /\ a \in Article /\ keep \in BOOLEAN
      /\ raw \in BOOLEAN /\ y \in Position
    BY <2>3, <2>6
  <2> WITNESS viewing \in Seq(Entry), a \in Article, keep \in BOOLEAN,
              raw \in BOOLEAN, y \in Position
  <2>. QED
    BY <2>1, <2>4, <2>5 DEF Aimed
<1>. QED
  BY <1>2, <1>3, <1>4

(* What TypeOK says of the lists, the screen and the file.                 *)
ListTypes ==
  /\ history_list \in Seq(Entry) /\ Len(history_list) <= MaxHistory
  /\ viewing_list \in Seq(Entry) /\ Len(viewing_list) <= MaxViewing
  /\ history_changed \in {"NONE", "POWER_OFF", "NORMAL"}
  /\ shown \in Article \cup {NoArticle}
  /\ file \in Seq(Entry) /\ Len(file) <= MaxHistory

(* A position is logged for what is on the screen.                         *)
LEMMA LogStep ==
  ASSUME IInv, NEW y \in Position, Acts, history_log_y_pos(y),
         exact' = (exact /\ shown # NoArticle),
         left' = IF exact' THEN [left EXCEPT ![shown] = y] ELSE AllAtTop,
         UNCHANGED <<display_mode, shown>>
  PROVE  ListTypes' /\ ListInv' /\ ShownInv' /\ SavedInv'
<1> DEFINE l == history_list
           v == viewing_list
<1>1. /\ l' = Moved(l, 1, y) /\ v' = Moved(v, Len(v), y)
      /\ history_changed' \in {"NORMAL", "POWER_OFF"}
      /\ UNCHANGED <<display_mode, shown, file, writing, broken>>
  BY DEF history_log_y_pos, Acts, disk
<1>2. l \in Seq(Entry) /\ v \in Seq(Entry) /\ Len(l) \in Nat /\ DOMAIN l = 1 .. Len(l)
      /\ Len(l) <= MaxHistory /\ Len(v) <= MaxViewing
  BY DEF IInv, TypeOK
<1>3. /\ l' \in Seq(Entry) /\ Len(l') = Len(l) /\ DOMAIN l' = DOMAIN l
      /\ \A k \in DOMAIN l : /\ l'[k].idx = l[k].idx
                             /\ l'[k].y = IF k = 1 THEN y ELSE l[k].y
  BY <1>1, <1>2, MovedFacts
<1>4. /\ v' \in Seq(Entry) /\ Len(v') = Len(v)
      /\ \A k \in DOMAIN v : v'[k].idx = v[k].idx
  BY <1>1, <1>2, MovedFacts
<1>5. ListTypes'
  BY <1>1, <1>2, <1>3, <1>4 DEF IInv, TypeOK, ListTypes
<1>6. ASSUME shown # NoArticle
      PROVE  /\ l # <<>> /\ l[1].idx = shown /\ 1 \in DOMAIN l
             /\ v # <<>> /\ Last(v).idx = shown
  BY <1>2, <1>6 DEF IInv, ShownInv, LogsTheShown
<1>7. ShownInv'
  <2>1. ASSUME shown # NoArticle
        PROVE  /\ l' # <<>> /\ l'[1].idx = shown
               /\ v' # <<>> /\ Last(v').idx = shown
    <3>1. /\ Len(v) \in Nat \ {0} /\ Len(v) \in DOMAIN v
          /\ Len(l) \in Nat \ {0} /\ 1 \in DOMAIN l
      BY <1>2, <1>6, <2>1
    <3>2. Len(v') = Len(v) /\ Len(l') = Len(l)
      BY <1>3, <1>4
    <3>3. l' # <<>> /\ v' # <<>>
      BY <1>2, <1>3, <1>4, <3>1, <3>2
    <3>4. Last(v) = v[Len(v)] /\ Last(v') = v'[Len(v)]
      BY <3>2 DEF Last
    <3>. QED
      BY <1>3, <1>4, <1>6, <2>1, <3>1, <3>3, <3>4
  <2>. QED
    BY <1>1, <2>1 DEF IInv, ShownInv, LogsTheShown
<1>8. SavedInv'
  BY <1>1, ActsStep DEF IInv
<1>9. CASE exact'
  <2>1. exact /\ shown # NoArticle /\ left' = [left EXCEPT ![shown] = y]
    BY <1>9
  <2>2. left \in [Article -> Position] /\ Distinct(l) /\ Distinct(file)
        /\ Positions(l, left) /\ shown \in Article
    BY <2>1 DEF IInv, ListInv, TypeOK
  <2>3. l[1].idx = shown /\ 1 \in DOMAIN l
    BY <1>6, <2>1
  <2>4. left' \in [Article -> Position]
        /\ \A b \in Article : left'[b] = IF b = shown THEN y ELSE left[b]
    BY <2>1, <2>2
  <2>5. Distinct(l')
    BY <1>3, <2>2 DEF Distinct
  <2>6. ASSUME NEW i \in DOMAIN l'
        PROVE  left'[l'[i].idx] = l'[i].y
    <3>1. l'[i].idx = l[i].idx /\ i \in DOMAIN l
      BY <1>3
    <3>2. l[i].idx \in Article
      <4>1. l[i] \in Entry
        BY <1>2, <3>1
      <4>. QED
        BY <4>1 DEF Entry
    <3>3. CASE i = 1
      BY <1>3, <2>3, <2>4, <3>1, <3>2, <3>3
    <3>4. CASE i # 1
      <4>1. l[i].idx # shown
        BY <2>2, <2>3, <3>1, <3>4 DEF Distinct
      <4>2. left[l[i].idx] = l[i].y
        BY <2>2, <3>1 DEF Positions
      <4>. QED
        BY <1>3, <2>4, <3>1, <3>2, <3>4, <4>1, <4>2
    <3>. QED
      BY <3>3, <3>4
  <2>7. ASSUME NEW b \in Article, ~Listed(l', b)
        PROVE  left'[b] = 0
    <3>1. ~Listed(l, b)
      BY <1>3, <2>7 DEF Listed
    <3>2. b # shown
      BY <2>3, <3>1 DEF Listed
    <3>. QED
      BY <2>2, <2>4, <3>1, <3>2 DEF Positions
  <2>8. Positions(l', left')
    BY <2>6, <2>7 DEF Positions
  <2>9. ListInv'
    BY <1>1, <2>2, <2>4, <2>5, <2>8 DEF ListInv
  <2>. QED
    BY <1>5, <1>7, <1>8, <2>9
<1>10. CASE ~exact'
  <2>1. left' \in [Article -> Position]
    BY <1>10, PositionAssumption DEF AllAtTop
  <2>2. ListInv'
    BY <1>10, <2>1 DEF ListInv
  <2>. QED
    BY <1>5, <1>7, <1>8, <2>2
<1>. QED
  BY <1>9, <1>10

(* A position is shown and logged, or requested.                           *)
LEMMA DisplayStep ==
  ASSUME IInv, NEW y \in Position, Acts, display_article_with_pcf(y),
         UNCHANGED <<display_mode, shown>>
  PROVE  /\ ListTypes' /\ ListInv' /\ ShownInv' /\ SavedInv'
         /\ request' = request \/ request' = y
<1>1. CASE /\ history_log_y_pos(y) /\ UNCHANGED request
           /\ exact' = (exact /\ shown # NoArticle)
           /\ left' = IF exact' THEN [left EXCEPT ![shown] = y] ELSE AllAtTop
  BY <1>1, LogStep
<1>2. CASE request' = y /\ UNCHANGED <<lists, ghosts>>
  <2>1. /\ UNCHANGED <<history_list, viewing_list, history_changed, left, exact>>
        /\ UNCHANGED <<file, writing, broken>>
    BY <1>2 DEF lists, ghosts, Acts, disk
  <2>2. ListTypes' /\ ListInv'
    BY <2>1 DEF IInv, TypeOK, ListTypes, ListInv
  <2>3. ShownInv'
    BY <2>1 DEF IInv, ShownInv, LogsTheShown
  <2>4. SavedInv'
    BY <2>1, ActsStep DEF IInv
  <2>. QED
    BY <1>2, <2>2, <2>3, <2>4
<1>. QED
  BY <1>1, <1>2 DEF display_article_with_pcf

(* The reader scrolls.                                                     *)
LEMMA ScrollStep ==
  ASSUME IInv, NEW y \in Position, Scroll(y)
  PROVE  IInv'
<1>1. /\ Acts /\ display_article_with_pcf(y) /\ due' = NoPosition
      /\ UNCHANGED <<display_mode, shown, rendering>>
      /\ IF request' = NoPosition
         THEN shown_y' = y /\ display_first_page' = TRUE /\ init_y' = 0
         ELSE UNCHANGED <<shown_y, display_first_page, init_y>>
  BY DEF Scroll, screen
<1>2. /\ ListTypes' /\ ListInv' /\ ShownInv' /\ SavedInv'
      /\ request' = request \/ request' = y
  BY <1>1, DisplayStep
<1>3. TypeOK'
  BY <1>1, <1>2, PositionAssumption DEF IInv, TypeOK, ListTypes
<1>. QED
  BY <1>1, <1>2, <1>3 DEF IInv, DueInv

(* A step that draws leaves everything but the page alone.                 *)
LEMMA DrawStep ==
  ASSUME IInv, Acts, UNCHANGED <<lists, screen, ghosts>>
  PROVE  ListTypes' /\ ListInv' /\ ShownInv' /\ SavedInv'
<1>1. /\ UNCHANGED <<history_list, viewing_list, history_changed, left, exact>>
      /\ UNCHANGED <<file, writing, broken, display_mode, shown>>
  BY DEF lists, screen, ghosts, Acts, disk
<1>2. ListTypes' /\ ListInv'
  BY <1>1 DEF IInv, TypeOK, ListTypes, ListInv
<1>3. ShownInv'
  BY <1>1 DEF IInv, ShownInv, LogsTheShown
<1>4. SavedInv'
  BY <1>1, ActsStep DEF IInv
<1>. QED
  BY <1>2, <1>3, <1>4

(* The first page is drawn, and the article goes to where it is to open.   *)
LEMMA FirstPageStep ==
  ASSUME IInv, ShowFirstPage
  PROVE  IInv'
<1>1. /\ Acts /\ ~display_first_page /\ display_first_page' = TRUE
      /\ init_y' = 0 /\ UNCHANGED <<screen, display_mode, shown, rendering, due>>
      /\ 0 \in Position /\ init_y \in Position /\ NoPosition \notin Position
  BY PositionAssumption DEF ShowFirstPage, screen, NoPosition, IInv, TypeOK
<1>2. CASE Resumes
  <2>1. /\ display_article_with_pcf(init_y) /\ request = NoPosition
        /\ shown_y' = IF request' = NoPosition THEN init_y ELSE 0
        /\ shown # NoArticle /\ Reopens(shown, init_y)
    BY <1>2 DEF ShowFirstPage, Resumes
  <2>2. /\ ListTypes' /\ ListInv' /\ ShownInv' /\ SavedInv'
        /\ request' = NoPosition \/ request' = init_y
    BY <1>1, <2>1, DisplayStep
  <2>3. TypeOK'
    BY <1>1, <2>1, <2>2 DEF IInv, TypeOK, ListTypes
  <2>4. DueInv'
    <3>1. ASSUME due # NoPosition
          PROVE  due = IF request' = NoPosition THEN shown_y' ELSE request'
      <4>1. due = init_y
        BY <1>1, <2>1, <3>1 DEF IInv, DueInv
      <4>. QED
        BY <1>1, <2>1, <2>2, <4>1
    <3>. QED
      BY <1>1, <2>1, <3>1 DEF DueInv
  <2>. QED
    BY <2>2, <2>3, <2>4 DEF IInv
<1>3. CASE ~Resumes
  <2>1. shown_y' = 0 /\ UNCHANGED <<lists, request, ghosts>>
    BY <1>3 DEF ShowFirstPage
  <2>2. ListTypes' /\ ListInv' /\ ShownInv' /\ SavedInv'
    BY <1>1, <2>1, DrawStep
  <2>3. TypeOK'
    BY <1>1, <2>1, <2>2 DEF IInv, TypeOK, ListTypes
  <2>4. DueInv'
    <3>1. ASSUME due # NoPosition
          PROVE  /\ shown # NoArticle /\ due = 0
                 /\ request = NoPosition \/ request = 0
      <4>1. /\ shown # NoArticle
            /\ due = IF Reopens(shown, init_y) THEN init_y ELSE 0
            /\ request # NoPosition => request = 0 /\ due = 0
        BY <1>1, <3>1 DEF IInv, DueInv
      <4>2. CASE request # NoPosition
        BY <4>1, <4>2
      <4>3. CASE request = NoPosition
        BY <1>3, <4>1, <4>3 DEF Resumes
      <4>. QED
        BY <4>1, <4>2, <4>3
    <3>. QED
      BY <1>1, <2>1, <3>1 DEF DueInv
  <2>. QED
    BY <2>2, <2>3, <2>4 DEF IInv
<1>. QED
  BY <1>2, <1>3

(* What was requested is shown.                                            *)
LEMMA RequestedStep ==
  ASSUME IInv, ShowRequested
  PROVE  IInv'
<1>1. /\ Acts /\ request # NoPosition /\ shown_y' = request
      /\ request' = NoPosition
      /\ UNCHANGED <<lists, screen, ghosts>>
      /\ UNCHANGED <<shown, display_first_page, init_y, rendering, due>>
  BY DEF ShowRequested, screen
<1>2. ListTypes' /\ ListInv' /\ ShownInv' /\ SavedInv'
  BY <1>1, DrawStep
<1>3. TypeOK'
  BY <1>1, <1>2 DEF IInv, TypeOK, ListTypes
<1>4. DueInv'
  BY <1>1 DEF IInv, TypeOK, DueInv
<1>. QED
  BY <1>2, <1>3, <1>4 DEF IInv

(* All is drawn.                                                           *)
LEMMA EndRenderStep ==
  ASSUME IInv, EndRender
  PROVE  IInv'
<1>1. /\ Acts /\ (display_first_page \/ ~Resumes)
      /\ shown_y' = IF request = NoPosition THEN shown_y ELSE request
      /\ request' = NoPosition /\ display_first_page' = TRUE /\ init_y' = 0
      /\ rendering' = FALSE /\ 0 \in Position
      /\ UNCHANGED <<lists, screen, ghosts>> /\ UNCHANGED <<shown, due>>
  BY PositionAssumption DEF EndRender, screen
<1>2. ListTypes' /\ ListInv' /\ ShownInv' /\ SavedInv'
  BY <1>1, DrawStep
<1>3. TypeOK'
  BY <1>1, <1>2 DEF IInv, TypeOK, ListTypes
<1>4. DueInv'
  <2>1. ASSUME due # NoPosition
        PROVE  shown # NoArticle /\ due = shown_y'
    <3>1. CASE display_first_page
      BY <1>1, <2>1, <3>1 DEF IInv, DueInv
    <3>2. CASE ~display_first_page
      <4>1. /\ shown # NoArticle /\ shown_y = 0
            /\ due = IF Reopens(shown, init_y) THEN init_y ELSE 0
            /\ request # NoPosition => request = 0 /\ due = 0
        BY <2>1, <3>2 DEF IInv, DueInv
      <4>2. CASE request # NoPosition
        BY <1>1, <4>1, <4>2
      <4>3. CASE request = NoPosition
        BY <1>1, <3>2, <4>1, <4>3 DEF Resumes
      <4>. QED
        BY <4>2, <4>3
    <3>. QED
      BY <3>1, <3>2
  <2>. QED
    BY <1>1, <2>1 DEF DueInv
<1>. QED
  BY <1>2, <1>3, <1>4 DEF IInv

(* Another screen.                                                         *)
LEMMA ScreenStep ==
  ASSUME IInv, ChangeScreen
  PROVE  IInv'
<1>1. /\ Acts /\ display_mode' \in {"INDEX", "HISTORY"}
      /\ shown' = NoArticle /\ shown_y' = 0
      /\ display_first_page' = TRUE /\ init_y' = 0 /\ rendering' = FALSE
      /\ request' \in {request, NoPosition} /\ due' = NoPosition
      /\ UNCHANGED <<history_list, viewing_list, history_changed, left, exact>>
      /\ UNCHANGED <<file, writing, broken>>
  BY DEF ChangeScreen, Acts, lists, ghosts, disk
<1>2. TypeOK' /\ DueInv'
  BY <1>1, PositionAssumption DEF IInv, TypeOK, DueInv
<1>3. ListInv'
  BY <1>1 DEF IInv, ListInv
<1>4. ShownInv'
  BY <1>1 DEF ShownInv, LogsTheShown
<1>5. SavedInv'
  BY <1>1, ActsStep DEF IInv
<1>. QED
  BY <1>2, <1>3, <1>4, <1>5 DEF IInv

(* The list is cleared.                                                    *)
LEMMA ClearStep ==
  ASSUME IInv, history_clear
  PROVE  IInv'
<1>1. /\ Acts /\ display_mode = "HISTORY" /\ history_list' = <<>>
      /\ history_changed' = "NORMAL" /\ left' = AllAtTop
      /\ UNCHANGED <<viewing_list, display_mode, shown, exact>>
      /\ UNCHANGED <<shown_y, display_first_page, init_y, request, rendering>>
      /\ UNCHANGED <<file, writing, broken, due>>
  BY DEF history_clear, Acts, screen, page, disk
<1>2. TypeOK' /\ DueInv'
  BY <1>1, SizeAssumption DEF IInv, TypeOK, DueInv
<1>3. ListInv'
  <2>1. left' \in [Article -> Position] /\ \A b \in Article : left'[b] = 0
    BY <1>1, PositionAssumption DEF AllAtTop
  <2>2. Distinct(history_list') /\ Positions(history_list', left')
    BY <1>1, <2>1 DEF Distinct, Positions
  <2>. QED
    BY <1>1, <2>1, <2>2 DEF IInv, ListInv
<1>4. ShownInv'
  BY <1>1 DEF IInv, ShownInv, LogsTheShown
<1>5. SavedInv'
  BY <1>1, ActsStep DEF IInv
<1>. QED
  BY <1>2, <1>3, <1>4, <1>5 DEF IInv

(* A save begins, or the card refuses it.                                  *)
LEMMA SaveStep ==
  ASSUME IInv, Save
  PROVE  IInv'
<1>1. /\ ~writing /\ history_changed # "NONE" /\ BeginSave
      /\ UNCHANGED <<history_list, viewing_list, display_mode, shown>>
      /\ UNCHANGED <<shown_y, display_first_page, init_y, request, rendering>>
      /\ UNCHANGED <<left, exact, asleep, due>>
  BY DEF Save, Saves, BeginSave, screen, page, ghosts
<1>2. ~asleep
  BY <1>1 DEF IInv, SavedInv
<1>3. CASE file' = <<>> /\ writing' = TRUE /\ UNCHANGED <<history_changed, broken>>
  <2>1. TypeOK' /\ ShownInv' /\ DueInv'
    BY <1>1, <1>3, SizeAssumption DEF IInv, TypeOK, ShownInv, LogsTheShown, DueInv
  <2>2. ListInv'
    BY <1>1, <1>3 DEF IInv, ListInv, Distinct
  <2>3. SavedInv'
    BY <1>1, <1>2, <1>3 DEF SavedInv, NothingUnsaved
  <2>. QED
    BY <2>1, <2>2, <2>3 DEF IInv
<1>4. CASE history_changed' = "NONE" /\ broken' = TRUE /\ UNCHANGED <<file, writing>>
  <2>1. TypeOK' /\ ShownInv' /\ DueInv'
    BY <1>1, <1>4 DEF IInv, TypeOK, ShownInv, LogsTheShown, DueInv
  <2>2. ListInv'
    BY <1>1, <1>4 DEF IInv, ListInv
  <2>3. SavedInv'
    BY <1>1, <1>2, <1>4 DEF SavedInv, NothingUnsaved
  <2>. QED
    BY <2>1, <2>2, <2>3 DEF IInv
<1>. QED
  BY <1>1, <1>3, <1>4 DEF BeginSave

(* A save ends, with all of the list in the file or less.                  *)
LEMMA EndSaveStep ==
  ASSUME IInv, EndSave
  PROVE  IInv'
<1>1. /\ writing /\ writing' = FALSE /\ history_changed' = "NONE"
      /\ file' \in Prefixes(history_list)
      /\ broken' = (file' # history_list)
      /\ UNCHANGED <<history_list, viewing_list, display_mode, shown>>
      /\ UNCHANGED <<shown_y, display_first_page, init_y, request, rendering>>
      /\ UNCHANGED <<left, exact, asleep, due>>
  BY DEF EndSave, screen, page, ghosts
<1>2. history_list \in Seq(Entry) /\ Len(history_list) \in Nat
      /\ Len(history_list) <= MaxHistory /\ DOMAIN history_list = 1 .. Len(history_list)
  BY DEF IInv, TypeOK
<1>3. PICK m \in 0 .. Len(history_list) : file' = SubSeq(history_list, 1, m)
  BY <1>1 DEF Prefixes
<1>4. /\ file' \in Seq(Entry) /\ Len(file') = m
      /\ \A k \in 1 .. m : file'[k] = history_list[k]
  BY <1>2, <1>3, FirstOf
<1>5. TypeOK'
  BY <1>1, <1>2, <1>4, SizeAssumption DEF IInv, TypeOK
<1>6. ListInv'
  <2>1. Distinct(history_list) => Distinct(file')
    BY <1>2, <1>4 DEF Distinct
  <2>. QED
    BY <1>1, <2>1 DEF IInv, ListInv
<1>7. ShownInv' /\ DueInv'
  BY <1>1 DEF IInv, ShownInv, LogsTheShown, DueInv
<1>8. SavedInv'
  BY <1>1 DEF IInv, SavedInv, NothingUnsaved
<1>. QED
  BY <1>5, <1>6, <1>7, <1>8 DEF IInv

(* The application sleeps.                                                 *)
LEMMA SleepStep ==
  ASSUME IInv, Sleep
  PROVE  IInv'
<1>1. /\ ~writing /\ history_changed = "NONE"
      /\ UNCHANGED <<history_list, viewing_list, history_changed, display_mode>>
      /\ UNCHANGED <<shown_y, display_first_page, init_y, request, rendering>>
      /\ UNCHANGED <<shown, file, writing, broken, left, exact, due>>
  BY DEF Sleep, lists, screen, page, disk, ghosts
<1>2. TypeOK' /\ ListInv' /\ DueInv'
  BY <1>1 DEF IInv, TypeOK, ListInv, DueInv
<1>3. ShownInv'
  BY <1>1 DEF IInv, ShownInv, LogsTheShown
<1>4. SavedInv'
  BY <1>1 DEF IInv, SavedInv, NothingUnsaved
<1>. QED
  BY <1>2, <1>3, <1>4 DEF IInv

(* The application starts again with the list of the file.                 *)
LEMMA RestartStep ==
  ASSUME IInv, Restart
  PROVE  IInv'
<1> DEFINE At1(a) == SelectInSeq(file, LAMBDA e : e.idx = a)
<1>1. /\ history_list' = file /\ viewing_list' = <<>> /\ history_changed' = "NONE"
      /\ writing' = FALSE /\ display_mode' = "INDEX" /\ shown' = NoArticle
      /\ shown_y' = 0 /\ asleep' = FALSE /\ file' = file /\ exact' = exact
      /\ display_first_page' = TRUE /\ init_y' = 0 /\ rendering' = FALSE
      /\ request' = NoPosition /\ due' = NoPosition
  BY DEF Restart
<1>2. left' = [a \in Article |->
                 IF ~exact THEN 0 ELSE IF At1(a) = 0 THEN 0 ELSE file[At1(a)].y]
  BY DEF Restart
<1>3. file \in Seq(Entry) /\ Len(file) <= MaxHistory /\ DOMAIN file = 1 .. Len(file)
      /\ \A i \in DOMAIN file : file[i] \in Entry
  BY DEF IInv, TypeOK
<1>4. \A a : IF Listed(file, a) THEN At1(a) \in DOMAIN file /\ file[At1(a)].idx = a
             ELSE At1(a) = 0
  BY <1>3, Selected
<1> HIDE DEF At1
<1>5. ASSUME NEW a \in Article
      PROVE  /\ left'[a] \in Position
             /\ exact /\ Listed(file, a) =>
                  At1(a) \in DOMAIN file /\ file[At1(a)].idx = a
                  /\ left'[a] = file[At1(a)].y
             /\ ~Listed(file, a) => left'[a] = 0
  <2>1. left'[a] = IF ~exact THEN 0 ELSE IF At1(a) = 0 THEN 0 ELSE file[At1(a)].y
    BY <1>2
  <2>2. CASE Listed(file, a)
    <3>1. At1(a) \in DOMAIN file /\ file[At1(a)].idx = a /\ At1(a) # 0
          /\ file[At1(a)].y \in Position
      BY <1>3, <1>4, <2>2 DEF Entry
    <3>. QED
      BY <2>1, <2>2, <3>1, PositionAssumption
  <2>3. CASE ~Listed(file, a)
    <3>1. At1(a) = 0
      BY <1>4, <2>3
    <3>. QED
      BY <2>1, <2>3, <3>1, PositionAssumption
  <2>. QED
    BY <2>2, <2>3
<1>6. TypeOK'
  <2>1. ListTypes'
    BY <1>1, <1>3, SizeAssumption DEF ListTypes
  <2>. QED
    BY <1>1, <2>1, PositionAssumption DEF TypeOK, ListTypes
<1>7. left' \in [Article -> Position]
  BY <1>2, <1>5
<1>8. ASSUME exact
      PROVE  Distinct(file) /\ Positions(file, left')
  <2>1. Distinct(file)
    BY <1>8 DEF IInv, ListInv
  <2>2. ASSUME NEW i \in DOMAIN file
        PROVE  left'[file[i].idx] = file[i].y
    <3>1. Listed(file, file[i].idx) /\ file[i].idx \in Article
      BY <1>3 DEF Listed, Entry
    <3>2. At1(file[i].idx) = i
      BY <1>5, <1>8, <2>1, <3>1 DEF Distinct
    <3>. QED
      BY <1>5, <1>8, <3>1, <3>2
  <2>. QED
    BY <1>5, <2>1, <2>2 DEF Positions
<1>9. ListInv'
  BY <1>1, <1>7, <1>8 DEF ListInv
<1>10. ShownInv' /\ DueInv'
  BY <1>1 DEF ShownInv, LogsTheShown, DueInv
<1>11. SavedInv'
  BY <1>1 DEF SavedInv, NothingUnsaved
<1>. QED
  BY <1>6, <1>9, <1>10, <1>11 DEF IInv

(* The invariant holds when the application is first started.              *)
LEMMA Initially == Init => IInv
<1> SUFFICES ASSUME Init PROVE IInv
  OBVIOUS
<1>1. TypeOK
  <2>1. ListTypes
    BY SizeAssumption DEF Init, ListTypes
  <2>. QED
    BY <2>1, PositionAssumption DEF Init, TypeOK, ListTypes
<1>2. left \in [Article -> Position] /\ \A a \in Article : left[a] = 0
  BY PositionAssumption DEF Init, AllAtTop
<1>3. ListInv
  BY <1>2 DEF Init, ListInv, Distinct, Positions
<1>4. ShownInv /\ SavedInv /\ DueInv
  BY DEF Init, ShownInv, LogsTheShown, SavedInv, NothingUnsaved, DueInv
<1>. QED
  BY <1>1, <1>3, <1>4 DEF IInv

-----------------------------------------------------------------------------
(* The invariant from which the rest follows.                              *)
THEOREM Inductive == Spec => []IInv
<1>1. Init => IInv
  BY Initially
<1>2. ASSUME IInv, OpenFound \/ OpenFromHistory \/ Previous
      PROVE  IInv'
  BY <1>2, Opens, OpenStep
<1>3. ASSUME IInv, UNCHANGED vars
      PROVE  IInv'
  BY <1>3 DEF IInv, TypeOK, ListInv, ShownInv, LogsTheShown, SavedInv,
     NothingUnsaved, DueInv, vars, lists, screen, page, disk, ghosts
<1>4. IInv /\ [Next]_vars => IInv'
  BY <1>2, <1>3, ScrollStep, FirstPageStep, RequestedStep, EndRenderStep,
     ScreenStep, ClearStep, SaveStep, EndSaveStep, SleepStep, RestartStep
     DEF Next
<1>. QED
  BY <1>1, <1>4, PTL DEF Spec

(* Every variable has its type and both arrays their bounds, in every      *)
(* state that can be reached.                                              *)
THEOREM TypeCorrect == Spec => []TypeOK
<1>1. IInv => TypeOK
  BY DEF IInv
<1>. QED
  BY <1>1, Inductive, PTL

(* No article is listed twice, in whatever order articles are opened, gone *)
(* back to and dropped, and after restarts, until the search of            *)
(* history_add first begins behind an entry it should have found           *)
(* (history.c 116-132).                                                    *)
THEOREM NeverDuplicates == Spec => []NoDuplicates
<1>1. IInv => NoDuplicates
  BY DEF IInv, ListInv, Distinct, NoDuplicates
<1>. QED
  BY <1>1, Inductive, PTL

(* The article on the screen is the first of the one list and the last of  *)
(* the other, so that scrolling it logs its own position (history.c        *)
(* 146-153).                                                               *)
THEOREM AlwaysLogsTheShown == Spec => []LogsTheShown
<1>1. IInv => LogsTheShown
  BY DEF IInv, ShownInv
<1>. QED
  BY <1>1, Inductive, PTL

(* The application does not sleep on what it has not saved, and a list     *)
(* believed saved is the file's, unless the card refused it (history.c     *)
(* 206-228, wikilib.c 1131-1147).                                          *)
THEOREM NeverUnsaved == Spec => []NothingUnsaved
<1>1. IInv => NothingUnsaved
  BY DEF IInv, SavedInv
<1>. QED
  BY <1>1, Inductive, PTL

(* An article chosen on the history screen appears where it was last       *)
(* logged, or at its top where the code drops the position, whatever was   *)
(* opened, saved or restarted since (history.c 155-171, lcd_buf_draw.c     *)
(* 657-669, 1146-1220).                                                    *)
THEOREM AlwaysResumesWhereLeft == Spec => []ResumesWhereLeft
<1>1. IInv => ResumesWhereLeft
  BY DEF IInv, DueInv, ResumesWhereLeft, Touchable
<1>. QED
  BY <1>1, Inductive, PTL
==============================================================================
