---------------------------- MODULE MCTimerWheel ----------------------------
(* Instances of TimerWheel for TLC. *)
EXTENDS TimerWheel, TLC

CONSTANTS t1, t2

Symmetry == Permutations({t1, t2})
=============================================================================
