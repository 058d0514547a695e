------------------------------ MODULE MCHistory ------------------------------
(* More articles than the lists hold; two positions; one article with      *)
(* links to other languages, so that its text starts below them.           *)
EXTENDS History, TLC

CONSTANT Linked

MCStart == [a \in Article |-> IF a = Linked THEN 1 ELSE 0]

Symmetry == Permutations(Article \ {Linked})
=============================================================================
