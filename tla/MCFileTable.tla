---------------------------- MODULE MCFileTable ----------------------------
(* Two files, two control blocks for files and two for directories: enough *)
(* for a slot to be reused while another is held, for a file to be open    *)
(* twice, and for the tables to fill up.  The names of files are           *)
(* interchangeable.                                                        *)
EXTENDS FileTable, TLC

CONSTANTS f1, f2

MCFile == {f1, f2}
MCSymmetry == Permutations(MCFile)
=============================================================================
