------------------------------ MODULE MCSystem ------------------------------
(* Pages of four bytes under a stack limit that is no page boundary.  One  *)
(* program leaves a heap, one ends at the last page boundary, one beyond.  *)
EXTENDS System

EndsAt(t, b, d) == [s \in Section |->
                      CASE s = "text" -> t [] s = "bss" -> b [] OTHER -> d]

MCEnd == [p \in Program |-> CASE p = "init.app" -> EndsAt(4, 9, 7)
                              [] p = "full.app" -> EndsAt(4, 6, 16)
                              [] OTHER          -> EndsAt(4, 8, 17)]
=============================================================================
