---------------------------- MODULE MCActionHost ----------------------------
(* Small instances of ActionHost for TLC. *)
EXTENDS ActionHost, TLC

Symmetric == Permutations(RunId) \cup Permutations(Request)
=============================================================================
