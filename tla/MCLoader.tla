------------------------------ MODULE MCLoader ------------------------------
(* Two chunks: a carriage return, which has to be escaped, before another  *)
(* byte; and a c, which alone on the line is a command.                    *)
EXTENDS Loader

MCImage == <<13, 88, 99>>
=============================================================================
