---------------------------- MODULE MCDispatcher ----------------------------
(* Small instances of Dispatcher for TLC. *)
EXTENDS DispatcherRefinement, TLC

\* Runs, threads and issues are interchangeable.
Symmetric == Permutations(RunId) \cup Permutations(Thread) \cup Permutations(Issue)
=============================================================================
