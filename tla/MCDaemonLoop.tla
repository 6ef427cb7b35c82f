---------------------------- MODULE MCDaemonLoop ----------------------------
(* The daemon beside an operator's pass, with small bounds. *)
EXTENDS DaemonLoop, TLC

CONSTANTS i1, i2, c1

OneIssueTwice == 1 :> i1 @@ 2 :> i1
SameClass == [i \in Issue |-> c1]
=============================================================================
