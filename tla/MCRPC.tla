-------------------------------- MODULE MCRPC --------------------------------
(* Two calls, of which one has a deadline, and the one worker of a Replier. *)
EXTENDS RPC

CONSTANTS c1, c2, w1

MCCalls == {c1, c2}
MCDeadlines == {c1}
MCWorkers == {w1}
=============================================================================
