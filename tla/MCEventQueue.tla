---------------------------- MODULE MCEventQueue ----------------------------
(* The event queue with a ring of five slots: every position of head and   *)
(* tail, the wrap of both, the full and the empty ring.                    *)
EXTENDS EventQueue
=============================================================================
