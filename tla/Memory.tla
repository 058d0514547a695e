------------------------------- MODULE Memory -------------------------------
(***************************************************************************)
(* The kernel's allocator for applications (samo-lib/grifo/src/memory.c):  *)
(* a linked list of blocks of pages, each with a header in its first page, *)
(* searched from the first block; free neighbours are joined on the way.   *)
(*                                                                         *)
(* Pages are numbered from FirstPageAddress.  A step is one turn of the    *)
(* loop of Memory_allocate or of the loop of ConsolidateHeap it calls.     *)
(* The header's previous pointer, written and never read, is left out.     *)
(***************************************************************************)
EXTENDS Integers

CONSTANTS
  MaxPages,  \* pages the largest heap may have
  PageSize,  \* bytes of a page (256 in the code)
  UserData,  \* bytes of a header's page that are the application's (64)
  WordSize,  \* 2^32, the number of values of a size_t
  Size       \* sizes an application asks for, in bytes

ASSUME MaxPagesAssumption == MaxPages \in Nat
ASSUME PageAssumption ==
  /\ PageSize \in Nat \ {0} /\ UserData \in 1 .. PageSize
  /\ WordSize \in Nat /\ PageSize < WordSize
ASSUME SizeAssumption == Size \subseteq 0 .. WordSize - 1

Page == 0 .. MaxPages - 1
NULL == -1

(* What a page holds that is no intact header.                             *)
Garbage == [status |-> "garbage", pages |-> 0, next |-> NULL, size |-> 0]

Header == [status : {"free", "allocated", "garbage"}, pages : Nat,
           next : Page \cup {NULL}, size : 0 .. WordSize - 1]

VARIABLES
  total,  \* TotalPages; HaveMemory is total > 0
  hdr,    \* what each page holds, seen as an AllocationHeaderType
  phase,  \* where Memory_allocate is
  want,   \* its size and RequiredPages
  h,      \* the block under inspection (NULL at the end of the list)
  q,      \* ConsolidateHeap's h: the block after those joined so far
  heads,  \* the pages whose headers are in the list (history)
  live,   \* blocks handed out and not released: [first, pages] (history)
  reply   \* what the last call returned: pages wanted, page got (history)

cursor == <<phase, want, h, q>>
ghosts == <<heads, live, reply>>
vars   == <<total, hdr, cursor, ghosts>>

Init ==
  /\ total = 0
  /\ hdr = [p \in Page |-> Garbage]
  /\ phase = "idle" /\ want = [size |-> 0, pages |-> 0]
  /\ h = NULL /\ q = NULL
  /\ heads = {} /\ live = {} /\ reply = [want |-> 0, got |-> NULL]

-----------------------------------------------------------------------------
(* Memory_SetHeap and the Memory_FreeAll in it, for an image that ends     *)
(* below the stack: n whole pages remain, none of them meaningful yet.     *)
FreeAll(n) ==
  [p \in Page |-> IF p = 0 /\ n > 0
                  THEN [status |-> "free", pages |-> n, next |-> NULL, size |-> 0]
                  ELSE Garbage]

SetHeap(n) ==
  /\ phase = "idle"
  /\ total' = n /\ hdr' = FreeAll(n)
  /\ heads' = (IF n > 0 THEN {0} ELSE {})
  /\ live' = {}
  /\ UNCHANGED <<cursor, reply>>

-----------------------------------------------------------------------------
RoundingDown(size) ==
  IF size <= UserData THEN 1 ELSE 1 + (size - UserData) \div PageSize

(* The pages that Memory_allocate takes for a size, in 32 bit arithmetic.  *)
RequiredPages(size) ==
  IF size <= UserData THEN 1
  ELSE 1 + ((size - UserData + PageSize - 1) % WordSize) \div PageSize

Return(p) ==
  /\ phase' = "idle" /\ h' = NULL /\ q' = NULL
  /\ reply' = [want |-> want.pages, got |-> p]
  /\ UNCHANGED want

Allocate(size) ==
  /\ phase = "idle"
  /\ want' = [size |-> size, pages |-> RequiredPages(size)]
  /\ phase' = "visit"
  /\ h' = IF total > 0 THEN 0 ELSE NULL
  /\ UNCHANGED <<total, hdr, q, ghosts>>

(* The head of the loop: the end of the list, a block that is taken, one   *)
(* that is free and to be joined with its free successors, or rubbish.     *)
Visit ==
  /\ phase = "visit"
  /\ IF h = NULL \/ hdr[h].status = "garbage"
     THEN Return(NULL) /\ UNCHANGED <<total, hdr, heads, live>>
     ELSE /\ IF hdr[h].status = "allocated"
             THEN h' = hdr[h].next /\ UNCHANGED <<phase, q>>
             ELSE phase' = "join" /\ q' = hdr[h].next /\ UNCHANGED h
          /\ UNCHANGED <<total, hdr, want, ghosts>>

JoinNothing ==
  /\ phase = "join"
  /\ phase' = "fit"
  /\ UNCHANGED <<total, hdr, want, h, q, ghosts>>

(* ConsolidateHeap: one free successor more, or the end of them.           *)
Join ==
  /\ phase = "join"
  /\ IF q # NULL /\ hdr[q].status = "free"
     THEN /\ hdr' = [hdr EXCEPT ![h].pages = @ + hdr[q].pages]
          /\ q' = hdr[q].next
          /\ heads' = heads \ {q}
          /\ UNCHANGED phase
     ELSE /\ hdr' = [hdr EXCEPT ![h].next = q]
          /\ phase' = "fit"
          /\ UNCHANGED <<q, heads>>
  /\ UNCHANGED <<total, want, h, live, reply>>

Grant == live' = live \cup {[first |-> h, pages |-> want.pages]}

SplitKeepingPages ==
  /\ hdr[h].pages > want.pages
  /\ LET new == h + want.pages
     IN  /\ hdr' = [hdr EXCEPT
              ![new] = [status |-> "free", pages |-> hdr[h].pages,
                        next |-> hdr[h].next, size |-> 0],
              ![h] = [status |-> "allocated", pages |-> want.pages,
                      next |-> new, size |-> want.size]]
         /\ heads' = heads \cup {new}
  /\ Grant /\ Return(h)

SplitAtEnd ==
  /\ hdr[h].pages > want.pages
  /\ LET new == h + hdr[h].pages
     IN  /\ hdr' = [hdr EXCEPT
              ![new] = [status |-> "free", pages |-> hdr[h].pages - want.pages,
                        next |-> hdr[h].next, size |-> 0],
              ![h] = [status |-> "allocated", pages |-> want.pages,
                      next |-> new, size |-> want.size]]
         /\ heads' = heads \cup {new}
  /\ Grant /\ Return(h)

(* A longer block is split: the tail becomes a free block of its own.      *)
Split ==
  /\ hdr[h].pages > want.pages
  /\ LET new == h + want.pages
     IN  /\ hdr' = [hdr EXCEPT
              ![new] = [status |-> "free", pages |-> hdr[h].pages - want.pages,
                        next |-> hdr[h].next, size |-> 0],
              ![h] = [status |-> "allocated", pages |-> want.pages,
                      next |-> new, size |-> want.size]]
         /\ heads' = heads \cup {new}
  /\ Grant /\ Return(h)

(* A block of exactly the pages required is taken whole.                   *)
TakeWhole ==
  /\ hdr[h].pages = want.pages
  /\ hdr' = [hdr EXCEPT ![h].status = "allocated", ![h].size = want.size]
  /\ Grant /\ Return(h)
  /\ UNCHANGED heads

TooSmallStaying ==
  /\ hdr[h].pages < want.pages
  /\ phase' = "visit" /\ q' = NULL
  /\ UNCHANGED <<hdr, want, h, ghosts>>

(* Too short a block is passed over.                                       *)
TooSmall ==
  /\ hdr[h].pages < want.pages
  /\ phase' = "visit" /\ h' = hdr[h].next /\ q' = NULL
  /\ UNCHANGED <<hdr, want, ghosts>>

Fit == phase = "fit" /\ (TakeWhole \/ Split \/ TooSmall) /\ UNCHANGED total

-----------------------------------------------------------------------------
FreeKeepingStatus(p) ==
  /\ phase = "idle" /\ p < total
  /\ live' = {b \in live : b.first # p}
  /\ UNCHANGED <<total, hdr, cursor, heads, reply>>

(* Memory_free, for a page that an allocation returned or, by mistake, for *)
(* any other: one released before, or one inside a block in use, where a   *)
(* header may be left of an earlier one (if not, it is the application's   *)
(* data that is written to).  With HaveMemory false it returns at once.    *)
Free(p) ==
  /\ phase = "idle" /\ p < total
  /\ hdr' = IF hdr[p].status = "allocated"
            THEN [hdr EXCEPT ![p].status = "free"] ELSE hdr
  /\ live' = {b \in live : b.first # p}
  /\ UNCHANGED <<total, cursor, heads, reply>>

(* The application uses what it was given: whatever the pages of a block   *)
(* behind its first held as headers is gone.                               *)
Use(b) ==
  /\ phase = "idle"
  /\ hdr' = [p \in Page |-> IF p \in b.first + 1 .. b.first + b.pages - 1
                            THEN Garbage ELSE hdr[p]]
  /\ UNCHANGED <<total, cursor, ghosts>>

Search == Visit \/ Join \/ Fit

Next ==
  \/ \E n \in 0 .. MaxPages : SetHeap(n)
  \/ \E size \in Size : Allocate(size)
  \/ Search
  \/ \E p \in Page : Free(p)
  \/ \E b \in live : Use(b)

(* Inside a call the kernel runs until it returns.                         *)
Fairness == WF_vars(Search)

Spec == Init /\ [][Next]_vars /\ Fairness
-----------------------------------------------------------------------------
(* Type invariant.                                                         *)
TypeOK ==
  /\ total \in 0 .. MaxPages
  /\ hdr \in [Page -> Header]
  /\ phase \in {"idle", "visit", "join", "fit"}
  /\ want \in [size : 0 .. WordSize - 1, pages : Nat]
  /\ h \in Page \cup {NULL} /\ q \in Page \cup {NULL}
  /\ heads \subseteq Page
  /\ live \subseteq [first : Page, pages : Nat]
  /\ reply \in [want : Nat, got : Page \cup {NULL}]

(* Between two calls the list, followed from the first page, tiles the     *)
(* heap: each block ends where the next begins, the last one at the end of *)
(* the heap, and every header on the way is intact (memory.c 129-163).     *)
EndOf(p) == p + hdr[p].pages

ListTilesHeap ==
  phase = "idle" /\ total > 0 =>
    /\ 0 \in heads
    /\ \A p \in heads :
         /\ hdr[p].status \in {"free", "allocated"} /\ hdr[p].pages > 0
         /\ EndOf(p) <= total
         /\ IF EndOf(p) = total THEN hdr[p].next = NULL
            ELSE hdr[p].next = EndOf(p) /\ EndOf(p) \in heads
         /\ \A r \in heads : ~(p < r /\ r < EndOf(p))

(* What has been handed out is what the list calls allocated: no block is  *)
(* forgotten by the list, and none is kept that nobody holds.              *)
NothingLeaks ==
  live = {[first |-> p, pages |-> hdr[p].pages] :
            p \in {r \in heads : hdr[r].status = "allocated"}}

(* A block in use holds the bytes asked for, for every size below 2^32     *)
(* less a page and its header: above, RequiredPages wraps around.          *)
BlocksHoldRequests ==
  \A b \in live :
    LET size == hdr[b.first].size
    IN  size <= WordSize - PageSize + UserData =>
          size <= UserData + (b.pages - 1) * PageSize

(* The allocator implements the heap of pages: in particular it refuses a  *)
(* request only if no run of free pages would do.                          *)
Heap == INSTANCE PageHeap
          WITH Requests <- {RequiredPages(size) : size \in Size}
ImplementsHeap == Heap!Spec

(* A search through the list comes to an end.                              *)
AllocateReturns == phase # "idle" ~> phase = "idle"
=============================================================================
