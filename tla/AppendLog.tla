----------------------------- MODULE AppendLog ------------------------------
(***************************************************************************)
(* What a session log is for: events are added at its end, and stay.       *)
(***************************************************************************)
EXTENDS Sequences

CONSTANTS Session, Event

VARIABLE log

Init == log = [s \in Session |-> <<>>]

Add(s, e) == log' = [log EXCEPT ![s] = Append(@, e)]

Next == \E s \in Session, e \in Event : Add(s, e)

Spec == Init /\ [][Next]_log

=============================================================================
