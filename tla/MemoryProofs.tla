---------------------------- MODULE MemoryProofs ----------------------------
(***************************************************************************)
(* The allocator for heaps, pages and requests of any size.                *)
(***************************************************************************)
EXTENDS Memory, TLAPS

(* The list while it is being searched: ConsolidateHeap keeps the place    *)
(* after the block it extends in q until it is done.                       *)
After(p) == IF phase = "join" /\ p = h THEN q ELSE hdr[p].next

Shape ==
  /\ heads \subseteq 0 .. total - 1
  /\ total > 0 => 0 \in heads
  /\ \A p \in heads :
       /\ hdr[p].status \in {"free", "allocated"} /\ hdr[p].pages > 0
       /\ EndOf(p) <= total
       /\ EndOf(p) = total => After(p) = NULL
       /\ EndOf(p) < total => After(p) = EndOf(p) /\ EndOf(p) \in heads
  /\ \A p, r \in heads : p < r => EndOf(p) <= r

(* A block in use has the pages its size requires.                         *)
Sized == \A p \in heads :
           hdr[p].status = "allocated" => hdr[p].pages = RequiredPages(hdr[p].size)

(* The block under inspection is in the list, and free once it is joined   *)
(* with its successors; after that no free block follows it.               *)
Cursor ==
  /\ phase = "visit" => h = NULL \/ h \in heads
  /\ phase \in {"join", "fit"} => h \in heads /\ hdr[h].status = "free"
  /\ phase = "fit" => hdr[h].next = NULL \/ hdr[hdr[h].next].status = "allocated"
  /\ phase # "idle" => want.size \in Size /\ want.pages = RequiredPages(want.size)

(* No run of free pages that is long enough begins before the block under  *)
(* inspection: this makes a refusal right.                                 *)
Passed == IF h = NULL THEN total ELSE h
Searched ==
  phase # "idle" =>
    \A p \in 0 .. MaxPages : p < Passed => ~Heap!FreeRun(p, want.pages)

IInv == TypeOK /\ Shape /\ NothingLeaks /\ Sized /\ Cursor /\ Searched

-----------------------------------------------------------------------------
(* A request needs at least one page.                                      *)
LEMMA RequiredPagesType ==
  ASSUME NEW size \in 0 .. WordSize - 1
  PROVE  RequiredPages(size) \in Nat \ {0}
<1>1. CASE size <= UserData
  BY <1>1 DEF RequiredPages
<1>2. CASE ~(size <= UserData)
  <2> DEFINE m == (size - UserData + PageSize - 1) % WordSize
  <2>1. m \in Nat
    BY <1>2, PageAssumption
  <2> HIDE DEF m
  <2>2. m \div PageSize \in Nat
    BY <2>1, PageAssumption
  <2> QED
    BY <1>2, <2>2 DEF RequiredPages, m
<1> QED
  BY <1>1, <1>2

(* Unless the arithmetic wraps around the pages hold the size.             *)
LEMMA RequiredPagesSuffice ==
  ASSUME NEW size \in 0 .. WordSize - 1, size <= WordSize - PageSize + UserData
  PROVE  size <= UserData + (RequiredPages(size) - 1) * PageSize
<1>1. CASE size <= UserData
  BY <1>1, PageAssumption DEF RequiredPages
<1>2. CASE ~(size <= UserData)
  <2> DEFINE m == size - UserData + PageSize - 1
             d == m \div PageSize
  <2>1. m \in 0 .. WordSize - 1
    BY <1>2, PageAssumption
  <2>2. m % WordSize = m
    BY <2>1, PageAssumption
  <2> HIDE DEF m
  <2>3. d \in Nat /\ m < (d + 1) * PageSize
    BY <2>1, PageAssumption
  <2> HIDE DEF d
  <2>4. (d + 1) * PageSize = d * PageSize + PageSize
    BY <2>3, PageAssumption
  <2>5. d * PageSize \in Nat
    BY <2>3, PageAssumption
  <2>6. m < d * PageSize + PageSize
    BY <2>3, <2>4
  <2> HIDE DEF d
  <2>7. size <= UserData + d * PageSize
    BY <2>5, <2>6, PageAssumption DEF m
  <2>8. RequiredPages(size) - 1 = d
    BY <1>2, <2>2, <2>3 DEF RequiredPages, m, d
  <2> QED
    BY <2>7, <2>8
<1> QED
  BY <1>1, <1>2

-----------------------------------------------------------------------------
LEMMA Initially == Init => IInv
<1> SUFFICES ASSUME Init PROVE IInv
  OBVIOUS
<1> USE DEF Init, NULL
<1>w. 0 \in 0 .. WordSize - 1
  BY PageAssumption
<1>1. hdr \in [Page -> Header]
  BY <1>w DEF Garbage, Header
<1>2. want \in [size : 0 .. WordSize - 1, pages : Nat]
  BY <1>w
<1>3. TypeOK
  BY <1>1, <1>2, MaxPagesAssumption DEF TypeOK
<1>4. Shape /\ Sized /\ Cursor /\ Searched
  BY DEF Shape, Sized, Cursor, Searched
<1>5. NothingLeaks
  BY DEF NothingLeaks
<1> QED
  BY <1>3, <1>4, <1>5 DEF IInv

(* A new application: one free block of all the pages.                     *)
LEMMA SetHeapStep ==
  ASSUME IInv, NEW n \in 0 .. MaxPages, SetHeap(n)
  PROVE  IInv'
<1> USE DEF IInv, SetHeap, cursor
<1>w. 0 \in 0 .. WordSize - 1 /\ n \in Nat /\ (n > 0 => 0 \in Page)
  BY PageAssumption, MaxPagesAssumption DEF Page
<1>1. hdr' \in [Page -> Header]
  BY <1>w DEF FreeAll, Garbage, Header, NULL
<1>2. n > 0 => hdr'[0] = [status |-> "free", pages |-> n, next |-> NULL, size |-> 0]
  BY <1>w DEF FreeAll
<1>3. TypeOK'
  BY <1>w, <1>1 DEF TypeOK
<1>4. Shape' /\ Sized'
  BY <1>w, <1>2 DEF Shape, Sized, After, EndOf
<1>5. NothingLeaks'
  BY <1>w, <1>2 DEF NothingLeaks
<1>6. Cursor' /\ Searched'
  BY DEF Cursor, Searched
<1> QED
  BY <1>3, <1>4, <1>5, <1>6

(* The search begins at the first block.                                   *)
LEMMA AllocateStep ==
  ASSUME IInv, NEW size \in Size, Allocate(size)
  PROVE  IInv'
<1> USE DEF IInv, Allocate, ghosts
<1>1. size \in 0 .. WordSize - 1 /\ RequiredPages(size) \in Nat \ {0}
  BY SizeAssumption, RequiredPagesType
<1>2. total > 0 => 0 \in Page
  BY MaxPagesAssumption DEF TypeOK, Page
<1>3. TypeOK'
  BY <1>1, <1>2 DEF TypeOK
<1>4. Shape' /\ Sized' /\ NothingLeaks'
  BY DEF Shape, Sized, NothingLeaks, After, EndOf
<1>5. Cursor'
  BY DEF Cursor, Shape, TypeOK
<1>6. Searched'
  BY DEF Searched, Passed, NULL, TypeOK
<1> QED
  BY <1>3, <1>4, <1>5, <1>6

(* The pages of a block in use are no free run, nor do they begin one.     *)
LEMMA TakenBlocks ==
  ASSUME IInv, NEW r \in heads, hdr[r].status = "allocated",
         NEW p \in Nat, NEW n \in Nat, p < EndOf(r), r < p + n
  PROVE  ~Heap!FreeRun(p, n)
<1>1. [first |-> r, pages |-> hdr[r].pages] \in live
  BY DEF IInv, NothingLeaks
<1>2. hdr[r].pages \in Nat /\ r \in Int
  BY DEF IInv, TypeOK, Header, Page
<1> QED
  BY <1>1, <1>2 DEF Heap!FreeRun, EndOf

(* A search is for one page or more.                                       *)
LEMMA WantPositive ==
  ASSUME IInv, phase # "idle"
  PROVE  want.pages \in Nat \ {0} /\ want.size \in 0 .. WordSize - 1
<1>1. want.size \in 0 .. WordSize - 1 /\ want.pages = RequiredPages(want.size)
  BY SizeAssumption DEF IInv, Cursor
<1> QED
  BY <1>1, RequiredPagesType

(* Passing over a block in use, entering a free one, or giving up.         *)
LEMMA VisitStep ==
  ASSUME IInv, Visit
  PROVE  IInv'
<1> USE DEF IInv, Visit, ghosts
<1>t. /\ total \in Nat /\ MaxPages \in Nat /\ hdr \in [Page -> Header]
      /\ heads \subseteq Page /\ want.pages \in Nat
      /\ (h # NULL => h \in heads)
  BY MaxPagesAssumption DEF TypeOK, Cursor
<1>p. want.pages > 0
  BY WantPositive
<1>1. CASE h = NULL
  <2>1. phase' = "idle" /\ UNCHANGED <<total, hdr, heads, live, want>>
    BY <1>1 DEF Return
  <2>2. TypeOK'
    BY <1>1 DEF Return, TypeOK
  <2>3. Shape' /\ Sized' /\ NothingLeaks' /\ Cursor' /\ Searched'
    BY <2>1 DEF Shape, Sized, NothingLeaks, Cursor, Searched, After, EndOf
  <2> QED
    BY <2>2, <2>3
<1>2. CASE h # NULL
  <2>h. h \in heads /\ hdr[h] \in Header /\ h \in Page
    BY <1>t, <1>2
  <2>s. hdr[h].status \in {"free", "allocated"} /\ hdr[h].pages > 0
    BY <2>h DEF Shape
  <2>n. /\ After(h) = hdr[h].next
        /\ hdr[h].next \in Page \cup {NULL}
    BY <2>h DEF After, Header
  <2>1. CASE hdr[h].status = "allocated"
    <3>1. /\ h' = hdr[h].next
          /\ UNCHANGED <<total, hdr, phase, q, want, heads, live, reply>>
      BY <1>2, <2>s, <2>1
    <3>2. TypeOK'
      BY <2>n, <3>1 DEF TypeOK
    <3>e. /\ EndOf(h) \in Nat /\ EndOf(h) <= total
          /\ EndOf(h) = total => h' = NULL
          /\ EndOf(h) < total => h' = EndOf(h) /\ EndOf(h) \in heads
      BY <2>h, <2>n, <3>1 DEF Shape, EndOf, Header, Page
    <3>3. Shape' /\ Sized' /\ NothingLeaks'
      BY <3>1 DEF Shape, Sized, NothingLeaks, After, EndOf, Visit
    <3>c. Cursor'
      BY <1>t, <3>1, <3>e DEF Cursor
    <3>4. Passed' = EndOf(h)
      BY <1>t, <3>1, <3>e DEF Passed, NULL
    <3>5. ASSUME NEW p \in 0 .. MaxPages, p < EndOf(h)
          PROVE  ~Heap!FreeRun(p, want.pages)
      <4>1. CASE p < h
        BY <1>2, <4>1 DEF Searched, Passed
      <4>2. CASE h <= p
        <5>1. want.pages > 0
          BY <1>p
        <5> QED
          BY <1>t, <2>h, <2>1, <3>5, <4>2, <5>1, TakenBlocks DEF Page
      <4> QED
        BY <2>h, <4>1, <4>2 DEF Page
    <3>6. Searched'
      BY <3>1, <3>4, <3>5 DEF Searched, Heap!FreeRun
    <3> QED
      BY <3>2, <3>3, <3>c, <3>6
  <2>2. CASE hdr[h].status = "free"
    <3>1. /\ phase' = "join" /\ q' = hdr[h].next
          /\ UNCHANGED <<total, hdr, h, want, heads, live, reply>>
      BY <1>2, <2>2
    <3>2. TypeOK'
      BY <2>n, <3>1 DEF TypeOK
    <3>3. Shape' /\ Sized' /\ NothingLeaks' /\ Cursor'
      BY <2>h, <2>2, <3>1 DEF Shape, Sized, NothingLeaks, Cursor, After, EndOf
    <3>4. Searched'
      BY <3>1 DEF Searched, Passed, Heap!FreeRun
    <3> QED
      BY <3>2, <3>3, <3>4
  <2> QED
    BY <2>s, <2>1, <2>2
<1> QED
  BY <1>1, <1>2

(* Numbers that the steps below reckon with.                               *)
LEMMA HeadFacts ==
  ASSUME IInv
  PROVE  /\ heads \subseteq Page /\ Page \subseteq Nat
         /\ total \in Nat /\ total <= MaxPages
         /\ hdr \in [Page -> Header]
         /\ \A p \in heads : /\ hdr[p] \in Header /\ hdr[p].pages \in Nat \ {0}
                              /\ EndOf(p) \in Nat /\ EndOf(p) > p
                              /\ EndOf(p) <= total
<1>1. /\ heads \subseteq Page /\ Page \subseteq Nat /\ total \in Nat
      /\ total <= MaxPages /\ hdr \in [Page -> Header]
  BY MaxPagesAssumption DEF IInv, TypeOK, Page
<1>2. ASSUME NEW p \in heads
      PROVE  /\ hdr[p] \in Header /\ hdr[p].pages \in Nat \ {0}
             /\ EndOf(p) <= total
  <2>1. hdr[p] \in Header
    BY <1>1
  <2>2. hdr[p].pages \in Nat
    BY <2>1 DEF Header
  <2> QED
    BY <2>1, <2>2 DEF IInv, Shape
<1>3. ASSUME NEW p \in heads
      PROVE  EndOf(p) \in Nat /\ EndOf(p) > p
  BY <1>1, <1>2 DEF EndOf
<1> QED
  BY <1>1, <1>2, <1>3

(* Joining one free successor, or noticing that there is none.             *)
LEMMA JoinStep ==
  ASSUME IInv, Join
  PROVE  IInv'
<1> USE DEF Join
<1>f. /\ heads \subseteq Page /\ Page \subseteq Nat
      /\ total \in Nat /\ total <= MaxPages /\ hdr \in [Page -> Header]
      /\ \A p \in heads : /\ hdr[p] \in Header /\ hdr[p].pages \in Nat \ {0}
                           /\ EndOf(p) \in Nat /\ EndOf(p) > p
                           /\ EndOf(p) <= total
  BY HeadFacts
<1>h. /\ h \in heads /\ hdr[h].status = "free" /\ q = After(h)
      /\ q # NULL => q = EndOf(h) /\ q \in heads /\ q # h
      /\ q \in Page \cup {NULL}
  BY <1>f DEF IInv, TypeOK, Cursor, Shape, After
<1>u. UNCHANGED <<total, want, h, live, reply>>
  OBVIOUS
<1>s. Searched'
  BY <1>u DEF IInv, Searched, Passed, Heap!FreeRun
<1>1. CASE q # NULL /\ hdr[q].status = "free"
  <2>1. /\ hdr' = [hdr EXCEPT ![h].pages = @ + hdr[q].pages]
        /\ q' = hdr[q].next /\ heads' = heads \ {q} /\ phase' = phase
    BY <1>1
  <2>2. /\ \A p \in Page \ {h} : hdr'[p] = hdr[p]
        /\ hdr'[h].status = "free" /\ hdr'[h].next = hdr[h].next
        /\ hdr'[h].pages = hdr[h].pages + hdr[q].pages
        /\ hdr'[h] \in Header /\ hdr' \in [Page -> Header]
    BY <1>1, <1>f, <1>h, <2>1 DEF Header
  <2>3. /\ EndOf(h)' = EndOf(q)
        /\ \A p \in heads \ {h} : EndOf(p)' = EndOf(p)
    BY <1>f, <1>h, <1>1, <1>u, <2>2 DEF EndOf
  <2>4. /\ After(h)' = After(q)
        /\ \A p \in heads \ {h} : After(p)' = After(p)
    BY <1>f, <1>h, <1>1, <1>u, <2>1, <2>2 DEF After
  <2>5. TypeOK'
    BY <1>f, <1>h, <1>1, <1>u, <2>1, <2>2 DEF IInv, TypeOK, Header
  <2>6. \A p \in heads' : EndOf(p) = EndOf(h) => p = h
    BY <1>f, <1>h, <2>1 DEF IInv, Shape
  <2>7. heads' \subseteq 0 .. total' - 1 /\ (total' > 0 => 0 \in heads')
    BY <1>f, <1>h, <1>1, <1>u, <2>1 DEF IInv, Shape
  <2>8. ASSUME NEW p \in heads'
        PROVE  /\ hdr'[p].status \in {"free", "allocated"} /\ hdr'[p].pages > 0
               /\ EndOf(p)' <= total'
               /\ EndOf(p)' = total' => After(p)' = NULL
               /\ EndOf(p)' < total' => After(p)' = EndOf(p)' /\ EndOf(p)' \in heads'
    <3>1. CASE p = h
      BY <1>f, <1>h, <1>1, <1>u, <2>1, <2>2, <2>3, <2>4, <3>1 DEF IInv, Shape
    <3>2. CASE p # h
      BY <1>f, <1>h, <1>1, <1>u, <2>1, <2>2, <2>3, <2>4, <2>6, <3>2 DEF IInv, Shape
    <3> QED
      BY <3>1, <3>2
  <2>9. ASSUME NEW p \in heads', NEW r \in heads', p < r
        PROVE  EndOf(p)' <= r
    <3>1. CASE p = h
      <4>1. q < r
        BY <1>f, <1>h, <1>1, <2>1, <2>9, <3>1 DEF IInv, Shape
      <4> QED
        BY <1>f, <1>h, <1>1, <2>1, <2>3, <3>1, <4>1 DEF IInv, Shape
    <3>2. CASE p # h
      BY <2>1, <2>3, <2>9, <3>2 DEF IInv, Shape
    <3> QED
      BY <3>1, <3>2
  <2>10. Shape'
    BY <2>7, <2>8, <2>9 DEF Shape
  <2>11. \A p \in heads : hdr[p].status = "allocated" <=>
                           p \in heads' /\ hdr'[p].status = "allocated"
    BY <1>f, <1>h, <1>1, <2>1, <2>2
  <2>12. Sized' /\ NothingLeaks'
    BY <1>f, <1>h, <1>u, <2>1, <2>2, <2>11 DEF IInv, Sized, NothingLeaks
  <2>13. Cursor'
    BY <1>h, <1>1, <1>u, <2>1, <2>2 DEF IInv, Cursor
  <2> QED
    BY <1>s, <2>5, <2>10, <2>12, <2>13 DEF IInv
<1>2. CASE ~(q # NULL /\ hdr[q].status = "free")
  <2>1. /\ hdr' = [hdr EXCEPT ![h].next = q]
        /\ phase' = "fit" /\ q' = q /\ heads' = heads
    BY <1>2
  <2>2. /\ \A p \in Page \ {h} : hdr'[p] = hdr[p]
        /\ hdr'[h].status = "free" /\ hdr'[h].next = q
        /\ hdr'[h].pages = hdr[h].pages
        /\ hdr'[h] \in Header /\ hdr' \in [Page -> Header]
    BY <1>f, <1>h, <2>1 DEF Header
  <2>3. \A p \in heads : EndOf(p)' = EndOf(p) /\ After(p)' = After(p)
    BY <1>f, <1>h, <1>u, <2>1, <2>2 DEF EndOf, After
  <2>4. \A p \in heads : /\ hdr'[p].status = hdr[p].status
                         /\ hdr'[p].pages = hdr[p].pages
                         /\ hdr'[p].size = hdr[p].size
    BY <1>f, <1>h, <2>1
  <2>5. TypeOK'
    BY <1>f, <1>h, <1>u, <2>1, <2>2 DEF IInv, TypeOK
  <2>6. Shape'
    BY <1>u, <2>1, <2>3, <2>4 DEF IInv, Shape
  <2>7. Sized' /\ NothingLeaks'
    BY <1>u, <2>1, <2>4 DEF IInv, Sized, NothingLeaks
  <2>8. Cursor'
    BY <1>f, <1>h, <1>2, <1>u, <2>1, <2>2, <2>4 DEF IInv, Cursor, Shape
  <2> QED
    BY <1>s, <2>5, <2>6, <2>7, <2>8 DEF IInv
<1> QED
  BY <1>1, <1>2

(* Too short a block is followed by a block in use or by nothing, so that  *)
(* no long enough run begins in it.                                        *)
LEMMA TooSmallStep ==
  ASSUME IInv, phase = "fit", TooSmall, UNCHANGED total
  PROVE  IInv'
<1> USE DEF TooSmall
<1>f. /\ heads \subseteq Page /\ Page \subseteq Nat
      /\ total \in Nat /\ total <= MaxPages /\ hdr \in [Page -> Header]
      /\ \A p \in heads : /\ hdr[p] \in Header /\ hdr[p].pages \in Nat \ {0}
                           /\ EndOf(p) \in Nat /\ EndOf(p) > p
                           /\ EndOf(p) <= total
  BY HeadFacts
<1>w. want.pages \in Nat \ {0}
  BY WantPositive
<1>h. /\ h \in heads /\ hdr[h].status = "free" /\ After(h) = hdr[h].next
      /\ EndOf(h) = total => hdr[h].next = NULL
      /\ EndOf(h) < total => /\ hdr[h].next = EndOf(h) /\ EndOf(h) \in heads
                             /\ hdr[EndOf(h)].status = "allocated"
      /\ hdr[h].next \in Page \cup {NULL}
  <2>1. /\ h \in heads /\ hdr[h].status = "free" /\ After(h) = hdr[h].next
        /\ hdr[h].next = NULL \/ hdr[hdr[h].next].status = "allocated"
    BY DEF IInv, Cursor, After
  <2>2. hdr[h].next \in Page \cup {NULL}
    BY <1>f, <2>1 DEF Header
  <2>3. /\ EndOf(h) = total => hdr[h].next = NULL
        /\ EndOf(h) < total => hdr[h].next = EndOf(h) /\ EndOf(h) \in heads
    BY <2>1 DEF IInv, Shape
  <2>4. EndOf(h) < total => hdr[h].next # NULL
    BY <1>f, <2>1, <2>3 DEF NULL
  <2> QED
    BY <2>1, <2>2, <2>3, <2>4
<1>u. /\ phase' = "visit" /\ h' = hdr[h].next /\ q' = NULL
      /\ UNCHANGED <<total, hdr, want, heads, live, reply>>
  BY DEF ghosts
<1>1. TypeOK'
  BY <1>h, <1>u DEF IInv, TypeOK
<1>2. Shape' /\ Sized' /\ NothingLeaks'
  <2>1. \A p \in heads : EndOf(p)' = EndOf(p) /\ After(p)' = After(p)
    BY <1>u DEF After, EndOf
  <2>2. Shape'
    BY <1>u, <2>1 DEF IInv, Shape
  <2>3. Sized'
    BY <1>u DEF IInv, Sized, RequiredPages
  <2>4. NothingLeaks'
    BY <1>u DEF IInv, NothingLeaks
  <2> QED
    BY <2>2, <2>3, <2>4
<1>3. Cursor'
  BY <1>f, <1>h, <1>u DEF IInv, Cursor
<1>4. Passed' = EndOf(h)
  BY <1>f, <1>h, <1>u DEF Passed, NULL
<1>5. ASSUME NEW p \in 0 .. MaxPages, p < EndOf(h)
      PROVE  ~Heap!FreeRun(p, want.pages)
  <2>1. CASE p < h
    BY <1>f, <1>h, <2>1 DEF IInv, Searched, Passed, NULL
  <2>2. CASE h <= p
    <3>1. p + want.pages > EndOf(h)
      BY <1>f, <1>h, <1>w, <2>2 DEF EndOf
    <3>2. CASE EndOf(h) = total
      BY <1>f, <1>w, <3>1, <3>2 DEF Heap!FreeRun
    <3>3. CASE EndOf(h) < total
      <4>1. EndOf(h) \in heads /\ hdr[EndOf(h)].status = "allocated"
        BY <1>h, <3>3
      <4>2. p < EndOf(EndOf(h))
        <5>1. EndOf(EndOf(h)) \in Nat /\ EndOf(EndOf(h)) > EndOf(h)
          BY <1>f, <4>1
        <5>2. EndOf(h) \in Nat
          BY <1>f, <1>h
        <5> QED
          BY <1>5, <5>1, <5>2
      <4> QED
        BY <1>w, <3>1, <4>1, <4>2, TakenBlocks
    <3> QED
      BY <1>f, <1>h, <3>2, <3>3
  <2> QED
    BY <1>f, <1>h, <2>1, <2>2
<1>6. Searched'
  BY <1>u, <1>4, <1>5 DEF Searched, Heap!FreeRun
<1> QED
  BY <1>1, <1>2, <1>3, <1>6 DEF IInv

(* A block that fits is a free run of pages.                               *)
LEMMA FitIsFree ==
  ASSUME IInv, phase = "fit", hdr[h].pages >= want.pages
  PROVE  Heap!FreeRun(h, want.pages)
<1>f. /\ heads \subseteq Page /\ Page \subseteq Nat /\ total \in Nat
      /\ \A p \in heads : /\ hdr[p].pages \in Nat \ {0}
                           /\ EndOf(p) \in Nat /\ EndOf(p) <= total
  BY HeadFacts
<1>h. h \in heads /\ hdr[h].status = "free" /\ want.pages \in Nat \ {0}
  BY WantPositive DEF IInv, Cursor
<1>e. h + want.pages <= EndOf(h)
  BY <1>f, <1>h DEF EndOf
<1>1. ASSUME NEW b \in live
      PROVE  h + want.pages <= b.first \/ b.first + b.pages <= h
  <2>1. PICK r \in heads : /\ hdr[r].status = "allocated"
                          /\ b = [first |-> r, pages |-> hdr[r].pages]
    BY DEF IInv, NothingLeaks
  <2>2. r # h /\ r \in Nat /\ h \in Nat /\ EndOf(r) = b.first + b.pages
    BY <1>f, <1>h, <2>1 DEF EndOf
  <2>3. CASE r < h
    BY <1>h, <2>1, <2>2, <2>3 DEF IInv, Shape
  <2>4. CASE h < r
    <3>1. EndOf(h) <= r
      BY <1>h, <2>1, <2>4 DEF IInv, Shape
    <3> QED
      BY <1>e, <1>f, <1>h, <2>1, <2>2, <3>1
  <2> QED
    BY <2>2, <2>3, <2>4
<1>2. h + want.pages <= total
  <2>1. EndOf(h) \in Nat /\ EndOf(h) <= total /\ h \in Nat
    BY <1>f, <1>h
  <2> QED
    BY <1>e, <1>f, <1>h, <2>1
<1> QED
  BY <1>1, <1>2 DEF Heap!FreeRun

(* A block of just the right length is taken.                              *)
LEMMA TakeWholeStep ==
  ASSUME IInv, phase = "fit", TakeWhole, UNCHANGED total
  PROVE  IInv'
<1> USE DEF TakeWhole, Grant, Return
<1>f. /\ heads \subseteq Page /\ Page \subseteq Nat /\ hdr \in [Page -> Header]
      /\ total \in Nat /\ total <= MaxPages
  BY HeadFacts
<1>w. want.pages \in Nat \ {0} /\ want.size \in 0 .. WordSize - 1
  BY WantPositive
<1>h. /\ h \in heads /\ h \in Page /\ hdr[h].status = "free"
      /\ want.pages = RequiredPages(want.size)
  BY <1>f DEF IInv, Cursor
<1>1. /\ hdr' \in [Page -> Header]
      /\ hdr'[h].status = "allocated" /\ hdr'[h].size = want.size
      /\ hdr'[h].pages = want.pages /\ hdr'[h].next = hdr[h].next
      /\ \A p \in Page \ {h} : hdr'[p] = hdr[p]
  BY <1>f, <1>h, <1>w DEF Header
<1>2. \A p \in heads : hdr'[p].pages = hdr[p].pages /\ hdr'[p].next = hdr[p].next
  BY <1>f, <1>1, <1>h
<1>3. TypeOK'
  <2>1. live' \subseteq [first : Page, pages : Nat]
    BY <1>w, <1>h DEF IInv, TypeOK
  <2>2. reply' \in [want : Nat, got : Page \cup {NULL}]
    BY <1>w, <1>h
  <2> QED
    BY <1>1, <2>1, <2>2 DEF IInv, TypeOK
<1>4. Shape'
  <2>1. \A p \in heads : EndOf(p)' = EndOf(p) /\ After(p)' = After(p)
    BY <1>2 DEF EndOf, After
  <2>2. \A p \in heads : hdr'[p].status \in {"free", "allocated"}
    BY <1>f, <1>1 DEF IInv, Shape
  <2>3. heads' = heads /\ total' = total
    OBVIOUS
  <2>4. ASSUME NEW p \in heads
        PROVE  /\ hdr'[p].status \in {"free", "allocated"} /\ hdr'[p].pages > 0
               /\ EndOf(p)' <= total
               /\ EndOf(p)' = total => After(p)' = NULL
               /\ EndOf(p)' < total => After(p)' = EndOf(p)' /\ EndOf(p)' \in heads
    <3>1. /\ hdr[p].pages > 0 /\ EndOf(p) <= total
          /\ EndOf(p) = total => After(p) = NULL
          /\ EndOf(p) < total => After(p) = EndOf(p) /\ EndOf(p) \in heads
      BY DEF IInv, Shape
    <3>2. hdr'[p].pages > 0 /\ hdr'[p].status \in {"free", "allocated"}
      BY <1>2, <2>2, <3>1
    <3> QED
      BY <2>1, <2>3, <3>1, <3>2
  <2>5. \A p, r \in heads : p < r => EndOf(p)' <= r
    BY <2>1 DEF IInv, Shape
  <2>6. heads \subseteq 0 .. total - 1 /\ (total > 0 => 0 \in heads)
    BY DEF IInv, Shape
  <2> QED
    BY <2>3, <2>4, <2>5, <2>6 DEF Shape
<1>5. Sized'
  BY <1>f, <1>1, <1>h DEF IInv, Sized
<1>6. NothingLeaks'
  <2> DEFINE A == {r \in heads : hdr[r].status = "allocated"}
             B == {r \in heads' : hdr'[r].status = "allocated"}
  <2>1. B = A \cup {h} /\ \A p \in A : hdr'[p].pages = hdr[p].pages
    BY <1>f, <1>1, <1>2, <1>h
  <2>2. live' = {[first |-> p, pages |-> hdr[p].pages] : p \in A}
                  \cup {[first |-> h, pages |-> hdr'[h].pages]}
    BY <1>1 DEF IInv, NothingLeaks
  <2> HIDE DEF A, B, IInv, TakeWhole, Grant, Return
  <2>3. live' = {[first |-> p, pages |-> hdr'[p].pages] : p \in B}
    BY <2>1, <2>2
  <2> QED
    BY <2>3 DEF NothingLeaks, B
<1>7. Cursor' /\ Searched'
  BY DEF Cursor, Searched
<1> QED
  BY <1>3, <1>4, <1>5, <1>6, <1>7 DEF IInv

(* A longer one is split in two.                                           *)
LEMMA SplitStep ==
  ASSUME IInv, phase = "fit", Split, UNCHANGED total
  PROVE  IInv'
<1>k. PICK k, new : k = h /\ new = k + want.pages
  OBVIOUS
<1>f. /\ heads \subseteq Page /\ Page \subseteq Nat
      /\ total \in Nat /\ total <= MaxPages /\ hdr \in [Page -> Header]
      /\ \A p \in heads : /\ hdr[p] \in Header /\ hdr[p].pages \in Nat \ {0}
                           /\ EndOf(p) \in Nat /\ EndOf(p) > p
                           /\ EndOf(p) <= total
  BY HeadFacts
<1>w. want.pages \in Nat \ {0} /\ want.size \in 0 .. WordSize - 1
  BY WantPositive
<1>h. /\ k = h /\ k \in heads /\ k \in Page /\ k \in Nat /\ hdr[k].status = "free"
      /\ After(k) = hdr[k].next /\ want.pages = RequiredPages(want.size)
  BY <1>f, <1>k DEF IInv, Cursor, After
<1>u. /\ hdr[k].pages > want.pages
      /\ hdr' = [hdr EXCEPT
              ![new] = [status |-> "free", pages |-> hdr[k].pages - want.pages,
                        next |-> hdr[k].next, size |-> 0],
              ![k] = [status |-> "allocated", pages |-> want.pages,
                      next |-> new, size |-> want.size]]
      /\ heads' = heads \cup {new}
      /\ live' = live \cup {[first |-> k, pages |-> want.pages]}
      /\ phase' = "idle" /\ h' = NULL /\ q' = NULL
      /\ reply' = [want |-> want.pages, got |-> k]
      /\ UNCHANGED <<want, total>>
  BY <1>k DEF Split, Grant, Return
<1>n. /\ new \in Nat /\ k < new /\ new < EndOf(k) /\ new \in 0 .. total - 1
      /\ new \in Page /\ new # k
  <2>1. new \in Nat /\ k < new /\ new < EndOf(k)
    BY <1>f, <1>k, <1>w, <1>h, <1>u DEF EndOf
  <2>2. EndOf(k) \in Nat /\ EndOf(k) <= total /\ total \in Nat /\ total <= MaxPages
    BY <1>f, <1>h
  <2>3. new < total /\ new < MaxPages
    BY <2>1, <2>2, MaxPagesAssumption
  <2> QED
    BY <1>h, <2>1, <2>2, <2>3, MaxPagesAssumption DEF Page
<1>a. new \notin heads
  BY <1>f, <1>h, <1>n DEF IInv, Shape
<1>1. /\ hdr'[k] = [status |-> "allocated", pages |-> want.pages,
                    next |-> new, size |-> want.size]
      /\ hdr'[new] = [status |-> "free", pages |-> hdr[k].pages - want.pages,
                      next |-> hdr[k].next, size |-> 0]
      /\ \A p \in Page \ {k, new} : hdr'[p] = hdr[p]
  BY <1>f, <1>h, <1>n, <1>u
<1>2. hdr' \in [Page -> Header]
  <2>1. hdr'[k] \in Header
    BY <1>1, <1>n, <1>w DEF Header
  <2>2. hdr'[new] \in Header
    <3>1. hdr[k].next \in Page \cup {NULL} /\ hdr[k].pages - want.pages \in Nat
      BY <1>f, <1>h, <1>w, <1>u DEF Header
    <3>2. 0 \in 0 .. WordSize - 1
      BY PageAssumption
    <3> QED
      BY <1>1, <3>1, <3>2 DEF Header
  <2>3. \A p \in Page : hdr'[p] \in Header
    BY <1>f, <1>1, <2>1, <2>2
  <2> QED
    BY <1>f, <1>u, <2>3
<1>3. TypeOK'
  <2>1. live' \subseteq [first : Page, pages : Nat]
    BY <1>w, <1>h, <1>u DEF IInv, TypeOK
  <2>2. reply' \in [want : Nat, got : Page \cup {NULL}]
    BY <1>w, <1>h, <1>u
  <2> QED
    BY <1>2, <1>n, <1>u, <2>1, <2>2 DEF IInv, TypeOK
<1>4. /\ EndOf(k)' = new /\ After(k)' = new
      /\ EndOf(new)' = EndOf(k) /\ After(new)' = After(k)
      /\ \A p \in heads \ {k} : EndOf(p)' = EndOf(p) /\ After(p)' = After(p)
  <2>1. hdr'[k].pages = want.pages /\ hdr'[k].next = new
    BY <1>1
  <2>2. hdr'[new].pages = hdr[k].pages - want.pages /\ hdr'[new].next = hdr[k].next
    BY <1>1
  <2>3. k + hdr'[k].pages = new /\ new + hdr'[new].pages = k + hdr[k].pages
    BY <1>f, <1>h, <1>k, <1>w, <2>1, <2>2
  <2>4. \A p \in heads \ {k} : hdr'[p] = hdr[p]
    BY <1>f, <1>1, <1>a
  <2>5. \A p \in heads : After(p) = hdr[p].next
    BY DEF After
  <2>6. \A p : After(p)' = hdr'[p].next
    BY <1>u DEF After
  <2>7. \A p : EndOf(p)' = p + hdr'[p].pages
    BY DEF EndOf
  <2> QED
    BY <2>1, <2>2, <2>3, <2>4, <2>5, <2>6, <2>7, <1>h DEF EndOf
<1>5. Shape'
  <2>1. heads' \subseteq 0 .. total' - 1 /\ (total' > 0 => 0 \in heads')
    BY <1>n, <1>u DEF IInv, Shape
  <2>2. ASSUME NEW p \in heads'
        PROVE  /\ hdr'[p].status \in {"free", "allocated"} /\ hdr'[p].pages > 0
               /\ EndOf(p)' <= total'
               /\ EndOf(p)' = total' => After(p)' = NULL
               /\ EndOf(p)' < total' => After(p)' = EndOf(p)' /\ EndOf(p)' \in heads'
    <3>1. CASE p = k
      <4>1. new < total /\ new \in Nat /\ new \in heads'
        BY <1>f, <1>n, <1>u
      <4> QED
        <5>1. EndOf(p)' = new /\ After(p)' = new
          BY <1>4, <3>1
        <5>2. hdr'[p].status = "allocated" /\ hdr'[p].pages = want.pages
          BY <1>1, <3>1
        <5>3. hdr'[p].pages > 0
          BY <1>w, <5>2
        <5>4. total' = total /\ total \in Nat
          BY <1>f, <1>u
        <5> QED
          BY <4>1, <5>1, <5>2, <5>3, <5>4
    <3>2. CASE p = new
      <4>1. hdr'[p].status = "free" /\ hdr'[p].pages > 0
        <5>1. hdr'[p].status = "free" /\ hdr'[p].pages = hdr[k].pages - want.pages
          BY <1>1, <3>2
        <5>2. hdr[k].pages \in Nat /\ hdr[k].pages > want.pages
          BY <1>f, <1>h, <1>u
        <5> QED
          BY <1>w, <5>1, <5>2
      <4>2. /\ EndOf(k) <= total /\ (EndOf(k) = total => After(k) = NULL)
            /\ EndOf(k) < total => After(k) = EndOf(k) /\ EndOf(k) \in heads
        BY <1>h DEF IInv, Shape
      <4> QED
        BY <1>4, <1>u, <3>2, <4>1, <4>2
    <3>3. CASE p # k /\ p # new
      BY <1>f, <1>u, <1>1, <1>4, <3>3 DEF IInv, Shape
    <3> QED
      BY <3>1, <3>2, <3>3
  <2>3. ASSUME NEW p \in heads', NEW r \in heads', p < r
        PROVE  EndOf(p)' <= r
    <3>1. CASE p = k /\ r # new
      <4>1. EndOf(k) <= r /\ r \in Nat /\ EndOf(k) \in Nat
        BY <1>f, <1>h, <1>u, <2>3, <3>1 DEF IInv, Shape
      <4> QED
        BY <1>n, <1>4, <3>1, <4>1
    <3>2. CASE p = k /\ r = new
      BY <1>n, <1>4, <3>2
    <3>3. CASE p = new
      <4>1. r \in heads /\ k < r
        BY <1>f, <1>h, <1>n, <1>u, <2>3, <3>3
      <4> QED
        BY <1>h, <1>4, <3>3, <4>1 DEF IInv, Shape
    <3>4. CASE p # k /\ p # new /\ r # new
      BY <1>u, <1>4, <2>3, <3>4 DEF IInv, Shape
    <3>5. CASE p # k /\ p # new /\ r = new
      <4>1. p \in heads /\ p \in Nat /\ EndOf(p) \in Nat
        BY <1>f, <1>u, <3>5
      <4>2. p < k
        <5>1. CASE k < p
          <6>1. EndOf(k) <= p
            BY <1>h, <4>1, <5>1 DEF IInv, Shape
          <6> QED
            BY <1>f, <1>h, <1>n, <2>3, <3>5, <4>1, <6>1
        <5> QED
          BY <1>h, <3>5, <4>1, <5>1
      <4>3. EndOf(p) <= k
        BY <1>h, <4>1, <4>2 DEF IInv, Shape
      <4> QED
        BY <1>h, <1>n, <1>4, <3>5, <4>1, <4>3
    <3> QED
      BY <3>1, <3>2, <3>3, <3>4, <3>5
  <2> QED
    BY <2>1, <2>2, <2>3 DEF Shape
<1>6. \A p \in heads \ {k} : hdr'[p] = hdr[p]
  BY <1>f, <1>1, <1>a
<1>7. Sized'
  <2>1. ASSUME NEW p \in heads', hdr'[p].status = "allocated"
        PROVE  hdr'[p].pages = RequiredPages(hdr'[p].size)
    <3>1. CASE p = k
      BY <1>1, <1>h, <3>1
    <3>2. CASE p # k
      <4>1. p # new
        BY <1>1, <2>1
      <4>2. p \in heads /\ hdr'[p] = hdr[p]
        BY <1>6, <1>u, <3>2, <4>1
      <4> QED
        BY <2>1, <4>2 DEF IInv, Sized
    <3> QED
      BY <3>1, <3>2
  <2> QED
    BY <2>1 DEF Sized, RequiredPages
<1>8. NothingLeaks'
  <2> DEFINE A == {r \in heads : hdr[r].status = "allocated"}
             B == {r \in heads' : hdr'[r].status = "allocated"}
  <2>1. B = A \cup {k} /\ \A p \in A : hdr'[p].pages = hdr[p].pages
    <3>1. hdr'[new].status = "free" /\ hdr'[k].status = "allocated"
      BY <1>1
    <3>2. ASSUME NEW p \in heads \ {k}
          PROVE  hdr'[p].status = hdr[p].status /\ hdr'[p].pages = hdr[p].pages
      BY <1>6
    <3>3. k \notin A /\ k \in heads'
      BY <1>h, <1>u
    <3>4. \A p \in A : hdr'[p].pages = hdr[p].pages
      BY <3>2, <3>3
    <3>5. heads' = heads \cup {new}
      BY <1>u
    <3>6. \A p : p \in B <=> p \in A \/ p = k
      BY <3>1, <3>2, <3>3, <3>5
    <3> QED
      BY <3>4, <3>6
  <2>2. live' = {[first |-> p, pages |-> hdr[p].pages] : p \in A}
                  \cup {[first |-> k, pages |-> hdr'[k].pages]}
    BY <1>1, <1>u DEF IInv, NothingLeaks
  <2> HIDE DEF A, B
  <2>3. live' = {[first |-> p, pages |-> hdr'[p].pages] : p \in B}
    BY <2>1, <2>2
  <2> QED
    BY <2>3 DEF NothingLeaks, B
<1>9. Cursor' /\ Searched'
  BY <1>u DEF Cursor, Searched
<1> QED
  BY <1>3, <1>5, <1>7, <1>8, <1>9 DEF IInv

(* Headers of the list that only change between free and allocated leave   *)
(* it a list.                                                              *)
LEMMA SameShape ==
  ASSUME IInv, phase = "idle", UNCHANGED <<total, cursor, heads, reply>>,
         hdr' \in [Page -> Header], live' \subseteq live,
         \A p \in heads : /\ hdr'[p].status \in {"free", "allocated"}
                          /\ hdr'[p].pages = hdr[p].pages
                          /\ hdr'[p].next = hdr[p].next
  PROVE  TypeOK' /\ Shape' /\ Cursor' /\ Searched'
<1>u. UNCHANGED <<total, phase, want, h, q, heads, reply>>
  BY DEF cursor
<1>1. TypeOK'
  BY <1>u DEF IInv, TypeOK
<1>2. \A p \in heads : EndOf(p)' = EndOf(p) /\ After(p)' = After(p)
  BY <1>u DEF EndOf, After
<1>3. ASSUME NEW p \in heads
      PROVE  /\ hdr'[p].status \in {"free", "allocated"} /\ hdr'[p].pages > 0
             /\ EndOf(p)' <= total
             /\ EndOf(p)' = total => After(p)' = NULL
             /\ EndOf(p)' < total => After(p)' = EndOf(p)' /\ EndOf(p)' \in heads
  <2>1. /\ hdr[p].pages > 0 /\ EndOf(p) <= total
        /\ EndOf(p) = total => After(p) = NULL
        /\ EndOf(p) < total => After(p) = EndOf(p) /\ EndOf(p) \in heads
    BY DEF IInv, Shape
  <2>2. /\ hdr'[p].status \in {"free", "allocated"}
        /\ hdr'[p].pages = hdr[p].pages
    OBVIOUS
  <2> QED
    BY <1>2, <2>1, <2>2
<1>4. \A p, r \in heads : p < r => EndOf(p)' <= r
  BY <1>2 DEF IInv, Shape
<1>5. heads \subseteq 0 .. total - 1 /\ (total > 0 => 0 \in heads)
  BY DEF IInv, Shape
<1>6. Shape'
  BY <1>u, <1>3, <1>4, <1>5 DEF Shape
<1>7. Cursor' /\ Searched'
  BY <1>u DEF Cursor, Searched
<1> QED
  BY <1>1, <1>6, <1>7

(* A release, of a block in use or of any other page.                      *)
LEMMA FreeStep ==
  ASSUME IInv, NEW p \in Page, Free(p)
  PROVE  IInv'
<1>f. heads \subseteq Page /\ hdr \in [Page -> Header]
  BY HeadFacts
<1>u. /\ phase = "idle" /\ UNCHANGED <<total, cursor, heads, reply>>
      /\ hdr' = IF hdr[p].status = "allocated"
                THEN [hdr EXCEPT ![p].status = "free"] ELSE hdr
      /\ live' = {b \in live : b.first # p}
  BY DEF Free
<1>1. /\ hdr' \in [Page -> Header] /\ hdr'[p].status # "allocated"
      /\ \A r \in Page : /\ hdr'[r].pages = hdr[r].pages
                         /\ hdr'[r].next = hdr[r].next
                         /\ hdr'[r].size = hdr[r].size
                         /\ r # p => hdr'[r].status = hdr[r].status
  BY <1>f, <1>u DEF Header
<1>2. \A r \in heads : hdr'[r].status \in {"free", "allocated"}
  <2>1. \A r \in heads : hdr[r].status \in {"free", "allocated"}
    BY DEF IInv, Shape
  <2> QED
    BY <1>f, <1>u, <2>1
<1>3. TypeOK' /\ Shape' /\ Cursor' /\ Searched'
  BY <1>f, <1>u, <1>1, <1>2, SameShape
<1>4. ASSUME NEW r \in heads'
      PROVE  /\ hdr'[r].status = "allocated" <=> hdr[r].status = "allocated" /\ r # p
             /\ hdr'[r].pages = hdr[r].pages /\ hdr'[r].size = hdr[r].size
             /\ r \in heads
  BY <1>f, <1>u, <1>1
<1>5. Sized'
  <2>1. ASSUME NEW r \in heads', hdr'[r].status = "allocated"
        PROVE  hdr'[r].pages = RequiredPages(hdr'[r].size)
    BY <1>4, <2>1 DEF IInv, Sized
  <2> QED
    BY <2>1 DEF Sized, RequiredPages
<1>6. NothingLeaks'
  <2> DEFINE A == {r \in heads : hdr[r].status = "allocated"}
             B == {r \in heads' : hdr'[r].status = "allocated"}
  <2>1. /\ heads' = heads
        /\ \A r : r \in B <=> r \in A /\ r # p
        /\ \A r \in A : hdr'[r].pages = hdr[r].pages
    BY <1>u, <1>4
  <2>2. live = {[first |-> r, pages |-> hdr[r].pages] : r \in A}
    BY DEF IInv, NothingLeaks
  <2> HIDE DEF A, B
  <2>3. live' = {[first |-> r, pages |-> hdr'[r].pages] : r \in B}
    BY <1>u, <2>1, <2>2
  <2> QED
    BY <2>3 DEF NothingLeaks, B
<1> QED
  BY <1>3, <1>5, <1>6 DEF IInv

(* An application that stays within its blocks touches no header.          *)
LEMMA UseStep ==
  ASSUME IInv, NEW b \in live, Use(b)
  PROVE  IInv'
<1>f. /\ heads \subseteq Page /\ Page \subseteq Nat /\ hdr \in [Page -> Header]
      /\ \A p \in heads : hdr[p].pages \in Nat \ {0}
  BY HeadFacts
<1>u. /\ phase = "idle" /\ UNCHANGED <<total, cursor, heads, live, reply>>
      /\ hdr' = [p \in Page |-> IF p \in b.first + 1 .. b.first + b.pages - 1
                                THEN Garbage ELSE hdr[p]]
  BY DEF Use, ghosts
<1>r. PICK r \in heads : b = [first |-> r, pages |-> hdr[r].pages]
  BY DEF IInv, NothingLeaks
<1>1. ASSUME NEW p \in heads
      PROVE  hdr'[p] = hdr[p]
  <2>1. ~(r < p /\ p < EndOf(r))
    <3>1. r < p => EndOf(r) <= p
      BY DEF IInv, Shape
    <3>2. EndOf(r) \in Nat /\ p \in Nat
      BY <1>f DEF EndOf
    <3> QED
      BY <3>1, <3>2
  <2>2. p \notin b.first + 1 .. b.first + b.pages - 1
    BY <1>f, <1>r, <2>1 DEF EndOf
  <2> QED
    BY <1>f, <1>u, <2>2
<1>2. hdr' \in [Page -> Header]
  <2>1. Garbage \in Header
    BY PageAssumption DEF Garbage, Header
  <2> QED
    BY <1>f, <1>u, <2>1
<1>3. \A p \in heads : hdr[p].status \in {"free", "allocated"}
  BY DEF IInv, Shape
<1>4. TypeOK' /\ Shape' /\ Cursor' /\ Searched'
  BY <1>u, <1>1, <1>2, <1>3, SameShape
<1>5. Sized'
  <2>1. ASSUME NEW p \in heads', hdr'[p].status = "allocated"
        PROVE  hdr'[p].pages = RequiredPages(hdr'[p].size)
    <3>1. p \in heads /\ hdr'[p] = hdr[p]
      BY <1>u, <1>1
    <3> QED
      BY <2>1, <3>1 DEF IInv, Sized
  <2> QED
    BY <2>1 DEF Sized, RequiredPages
<1>6. NothingLeaks'
  <2> DEFINE A == {p \in heads : hdr[p].status = "allocated"}
             B == {p \in heads' : hdr'[p].status = "allocated"}
  <2>1. heads' = heads /\ A = B /\ \A p \in A : hdr'[p].pages = hdr[p].pages
    BY <1>u, <1>1
  <2>2. live' = {[first |-> p, pages |-> hdr[p].pages] : p \in A}
    BY <1>u DEF IInv, NothingLeaks
  <2> HIDE DEF A, B
  <2>3. live' = {[first |-> p, pages |-> hdr'[p].pages] : p \in B}
    BY <2>1, <2>2
  <2> QED
    BY <2>3 DEF NothingLeaks, B
<1> QED
  BY <1>4, <1>5, <1>6 DEF IInv

-----------------------------------------------------------------------------
LEMMA InductiveStep == IInv /\ [Next]_vars => IInv'
<1> SUFFICES ASSUME IInv, [Next]_vars PROVE IInv'
  OBVIOUS
<1>1. ASSUME NEW n \in 0 .. MaxPages, SetHeap(n) PROVE IInv'
  BY <1>1, SetHeapStep
<1>2. ASSUME NEW size \in Size, Allocate(size) PROVE IInv'
  BY <1>2, AllocateStep
<1>3. ASSUME Search PROVE IInv'
  <2>1. ASSUME Fit PROVE IInv'
    BY <2>1, TakeWholeStep, SplitStep, TooSmallStep DEF Fit
  <2> QED
    BY <1>3, <2>1, VisitStep, JoinStep DEF Search
<1>4. ASSUME NEW p \in Page, Free(p) PROVE IInv'
  BY <1>4, FreeStep
<1>5. ASSUME NEW b \in live, Use(b) PROVE IInv'
  BY <1>5, UseStep
<1>6. ASSUME UNCHANGED vars PROVE IInv'
  BY <1>6 DEF vars, cursor, ghosts, IInv, TypeOK, Shape, NothingLeaks, Sized,
              Cursor, Searched, Passed, After, EndOf, Heap!FreeRun
<1> QED
  BY <1>1, <1>2, <1>3, <1>4, <1>5, <1>6 DEF Next

LEMMA Invariance == Spec => []IInv
  BY Initially, InductiveStep, PTL DEF Spec

(* The allocator's variables keep their types, for every heap and whatever *)
(* is asked for and released (memory.c 44-64, 117-187).                    *)
THEOREM TypeCorrect == Spec => []TypeOK
<1>1. IInv => TypeOK
  BY DEF IInv
<1> QED
  BY <1>1, Invariance, PTL

(* Between two calls the list tiles the heap (memory.c 117-187, 261-272).  *)
THEOREM ListIsTiling == Spec => []ListTilesHeap
<1>1. IInv => ListTilesHeap
  <2> SUFFICES ASSUME IInv, phase = "idle", total > 0, NEW p \in heads
               PROVE  /\ 0 \in heads
                      /\ hdr[p].status \in {"free", "allocated"} /\ hdr[p].pages > 0
                      /\ EndOf(p) <= total
                      /\ IF EndOf(p) = total THEN hdr[p].next = NULL
                         ELSE hdr[p].next = EndOf(p) /\ EndOf(p) \in heads
                      /\ \A r \in heads : ~(p < r /\ r < EndOf(p))
    BY DEF ListTilesHeap, IInv, Shape
  <2>1. /\ EndOf(p) \in Nat /\ total \in Nat /\ heads \subseteq Nat
    BY HeadFacts
  <2>2. After(p) = hdr[p].next
    BY DEF After
  <2>3. /\ 0 \in heads
        /\ hdr[p].status \in {"free", "allocated"} /\ hdr[p].pages > 0
        /\ EndOf(p) <= total
        /\ EndOf(p) = total => After(p) = NULL
        /\ EndOf(p) < total => After(p) = EndOf(p) /\ EndOf(p) \in heads
    BY DEF IInv, Shape
  <2>4. \A r \in heads : ~(p < r /\ r < EndOf(p))
    <3>1. \A r \in heads : p < r => EndOf(p) <= r
      BY DEF IInv, Shape
    <3> QED
      BY <2>1, <3>1
  <2> QED
    BY <2>1, <2>2, <2>3, <2>4
<1> QED
  BY <1>1, Invariance, PTL

(* No block in use is lost from the list and none stays without an owner.  *)
THEOREM NoLeak == Spec => []NothingLeaks
<1>1. IInv => NothingLeaks
  BY DEF IInv
<1> QED
  BY <1>1, Invariance, PTL

(* A block holds what was asked for, however large, unless the arithmetic  *)
(* of 32 bits wraps around (memory.c 124-127).                             *)
THEOREM RequestsFit == Spec => []BlocksHoldRequests
<1>1. IInv => BlocksHoldRequests
  <2> SUFFICES ASSUME IInv, NEW b \in live,
                      hdr[b.first].size <= WordSize - PageSize + UserData
               PROVE  hdr[b.first].size <= UserData + (b.pages - 1) * PageSize
    BY DEF BlocksHoldRequests
  <2>1. PICK p \in heads : /\ hdr[p].status = "allocated"
                          /\ b = [first |-> p, pages |-> hdr[p].pages]
    BY DEF IInv, NothingLeaks
  <2>2. hdr[p].size \in 0 .. WordSize - 1
    BY HeadFacts DEF Header
  <2>3. b.first = p /\ b.pages = RequiredPages(hdr[p].size)
    BY <2>1 DEF IInv, Sized
  <2> QED
    BY <2>2, <2>3, RequiredPagesSuffice
<1> QED
  BY <1>1, Invariance, PTL

-----------------------------------------------------------------------------
(* Every turn of the search is a step of the heap of pages or none.        *)
LEMMA SearchRefines ==
  ASSUME IInv, Search
  PROVE  [Heap!Next]_<<total, live, reply>>
<1> DEFINE Requests == {RequiredPages(size) : size \in Size}
<1>1. ASSUME Visit PROVE [Heap!Next]_<<total, live, reply>>
  <2>1. CASE h = NULL
    <3>1. /\ phase = "visit" /\ reply' = [want |-> want.pages, got |-> -1]
          /\ UNCHANGED <<total, live>>
      BY <1>1, <2>1 DEF Visit, Return, NULL
    <3>2. want.pages \in Requests
      BY <3>1 DEF IInv, Cursor
    <3>3. ASSUME NEW p \in 0 .. MaxPages
          PROVE  ~Heap!FreeRun(p, want.pages)
      <4>1. want.pages \in Nat \ {0} /\ total \in Nat
        BY <3>1, WantPositive, HeadFacts
      <4>2. CASE p < total
        BY <2>1, <3>1, <4>2 DEF IInv, Searched, Passed
      <4>3. CASE ~(p < total)
        BY <4>1, <4>3, MaxPagesAssumption DEF Heap!FreeRun
      <4> QED
        BY <4>2, <4>3
    <3>4. Heap!Refuse(want.pages)
      BY <3>1, <3>3 DEF Heap!Refuse
    <3> QED
      BY <3>2, <3>4 DEF Heap!Next
  <2>2. CASE h # NULL
    <3>1. hdr[h].status \in {"free", "allocated"}
      BY <1>1, <2>2 DEF Visit, IInv, Cursor, Shape
    <3> QED
      BY <1>1, <2>2, <3>1 DEF Visit, ghosts
  <2> QED
    BY <2>1, <2>2
<1>2. ASSUME Join PROVE UNCHANGED <<total, live, reply>>
  BY <1>2 DEF Join
<1>3. ASSUME Fit PROVE [Heap!Next]_<<total, live, reply>>
  <2>1. CASE TooSmall
    BY <1>3, <2>1 DEF Fit, TooSmall, ghosts
  <2>2. CASE TakeWhole \/ Split
    <3>1. /\ phase = "fit" /\ hdr[h].pages >= want.pages
          /\ live' = live \cup {[first |-> h, pages |-> want.pages]}
          /\ reply' = [want |-> want.pages, got |-> h]
          /\ total' = total
      <4>1. hdr[h].pages \in Nat /\ want.pages \in Nat
        BY <1>3, HeadFacts, WantPositive DEF Fit, IInv, Cursor
      <4> QED
        BY <1>3, <2>2, <4>1 DEF Fit, TakeWhole, Split, Grant, Return
    <3>2. Heap!FreeRun(h, want.pages)
      BY <3>1, FitIsFree
    <3>3. want.pages \in Requests /\ h \in 0 .. MaxPages
      BY <3>1, HeadFacts, MaxPagesAssumption DEF IInv, Cursor, Page
    <3>4. Heap!Grant(h, want.pages)
      BY <3>1, <3>2 DEF Heap!Grant
    <3> QED
      BY <3>3, <3>4 DEF Heap!Next
  <2> QED
    BY <1>3, <2>1, <2>2 DEF Fit
<1> QED
  BY <1>1, <1>2, <1>3 DEF Search

(* A release takes away the one block that begins at the page, if any.     *)
LEMMA FreeRefines ==
  ASSUME IInv, NEW p \in Page, Free(p)
  PROVE  [Heap!Next]_<<total, live, reply>>
<1>1. live' = {b \in live : b.first # p} /\ UNCHANGED <<total, reply>>
  BY DEF Free
<1>2. CASE \E b \in live : b.first = p
  <2>1. PICK c \in live : c.first = p
    BY <1>2
  <2>2. ASSUME NEW b \in live, b.first = p
        PROVE  b = c
    <3>1. /\ \E r \in heads : b = [first |-> r, pages |-> hdr[r].pages]
          /\ \E r \in heads : c = [first |-> r, pages |-> hdr[r].pages]
      BY <2>1, <2>2 DEF IInv, NothingLeaks
    <3> QED
      BY <2>1, <2>2, <3>1
  <2>3. live' = live \ {c}
    BY <1>1, <2>1, <2>2
  <2> QED
    BY <1>1, <2>1, <2>3 DEF Heap!Next, Heap!Release
<1>3. CASE ~\E b \in live : b.first = p
  BY <1>1, <1>3
<1> QED
  BY <1>2, <1>3

(* The allocator implements the heap of pages: blocks never overlap, and a *)
(* request is refused only if no run of free pages would do, although the  *)
(* search joins free blocks only as it comes to them (memory.c 117-187,    *)
(* 261-272).                                                               *)
THEOREM HeapImplemented == Spec => ImplementsHeap
<1>1. Init => Heap!Init
  BY DEF Init, Heap!Init, NULL
<1>2. IInv /\ [Next]_vars => [Heap!Next]_<<total, live, reply>>
  <2> SUFFICES ASSUME IInv, [Next]_vars
               PROVE  [Heap!Next]_<<total, live, reply>>
    OBVIOUS
  <2>1. ASSUME NEW n \in 0 .. MaxPages, SetHeap(n)
        PROVE  [Heap!Next]_<<total, live, reply>>
    BY <2>1 DEF SetHeap, Heap!Next, Heap!Reset
  <2>2. ASSUME NEW size \in Size, Allocate(size)
        PROVE  [Heap!Next]_<<total, live, reply>>
    BY <2>2 DEF Allocate, ghosts
  <2>3. ASSUME NEW b \in live, Use(b)
        PROVE  [Heap!Next]_<<total, live, reply>>
    BY <2>3 DEF Use, ghosts
  <2>4. ASSUME UNCHANGED vars
        PROVE  [Heap!Next]_<<total, live, reply>>
    BY <2>4 DEF vars, ghosts
  <2> QED
    BY <2>1, <2>2, <2>3, <2>4, SearchRefines, FreeRefines DEF Next
<1> QED
  BY <1>1, <1>2, Invariance, PTL DEF Spec, ImplementsHeap, Heap!Spec
=============================================================================
