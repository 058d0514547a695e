------------------------------ MODULE PageHeap ------------------------------
(***************************************************************************)
(* What the kernel's allocator promises an application: blocks of as many  *)
(* pages as were asked for, inside the heap, that do not overlap whatever  *)
(* the order of allocations and releases; and a request refused only when  *)
(* no run of free pages is long enough for it.                             *)
(***************************************************************************)
EXTENDS Integers

CONSTANTS
  MaxPages,  \* pages the largest heap may have
  Requests   \* numbers of pages that may be asked for

VARIABLES
  total,  \* pages of the heap
  live,   \* blocks handed out and not released: [first, pages]
  reply   \* the last allocation: pages wanted and first page got, or -1

FreeRun(p, n) ==
  /\ p + n <= total
  /\ \A b \in live : p + n <= b.first \/ b.first + b.pages <= p

Init == total = 0 /\ live = {} /\ reply = [want |-> 0, got |-> -1]

(* A new application begins with all the memory its image leaves.          *)
Reset(n) == total' = n /\ live' = {} /\ UNCHANGED reply

Grant(p, n) ==
  /\ FreeRun(p, n)
  /\ live' = live \cup {[first |-> p, pages |-> n]}
  /\ reply' = [want |-> n, got |-> p]
  /\ UNCHANGED total

Refuse(n) ==
  /\ \A p \in 0 .. MaxPages : ~FreeRun(p, n)
  /\ reply' = [want |-> n, got |-> -1]
  /\ UNCHANGED <<total, live>>

Release(b) ==
  /\ live' = live \ {b}
  /\ UNCHANGED <<total, reply>>

Next ==
  \/ \E n \in 0 .. MaxPages : Reset(n)
  \/ \E n \in Requests : Refuse(n) \/ \E p \in 0 .. MaxPages : Grant(p, n)
  \/ \E b \in live : Release(b)

Spec == Init /\ [][Next]_<<total, live, reply>>
=============================================================================
