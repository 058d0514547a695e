------------------------------ MODULE MCMemory ------------------------------
(* A heap of up to four pages of four bytes, of which one in the header's  *)
(* page; words of five bits.  The sizes need 1, 2 and 3 pages; for the     *)
(* last, which would need 8, the arithmetic wraps around.                  *)
EXTENDS Memory

MCSize == {1, 2, 6, 31}
=============================================================================
