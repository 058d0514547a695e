-------------------------- MODULE MCInputDrivers --------------------------
(* The drivers with two keys and a queue of two events.                    *)
EXTENDS InputDrivers
=============================================================================
