--------------------------- MODULE MCRunLifecycle ---------------------------
(* Instances of RunLifecycle for TLC: the events of one issue and one key. *)
EXTENDS RunLifecycle

CONSTANTS s1, s2, r1, r2, r3, i1, k1, p1

Events == {Created(i1), RunCreated, Running, Submitted(k1, p1)}
          \cup {Turn(st, sid) : st \in {"failed"}, sid \in BOOLEAN}
=============================================================================
