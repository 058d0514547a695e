---------------------------- MODULE MCEventWait ----------------------------
(* Two interrupt sources: a key, whose handler puts nothing (a bounce), a  *)
(* press, or a press with a release; and the touch panel, whose handler    *)
(* puts at most one event per byte received.  A queue of two events lets   *)
(* every burst meet an empty, a partly filled and a full queue.            *)
EXTENDS EventWait

CONSTANTS key, panel, press, touch

MCEvent == {press, touch}
MCSource == {key, panel}
MCBursts == [s \in MCSource |->
               IF s = key THEN {<<>>, <<press>>, <<press, press>>}
                          ELSE {<<>>, <<touch>>}]
=============================================================================
