------------------------------ MODULE LockTable ------------------------------
(***************************************************************************)
(* What the claim store promises its callers: a claim gets all the keys it *)
(* asks for or none, nobody else gets one of them before it is given up,   *)
(* and a claim that was given up never comes back.  No rows, no            *)
(* generations, no leases.                                                 *)
(***************************************************************************)
CONSTANTS
  Claim,   \* claim identities
  Key      \* exclusive resources

VARIABLES
  held,    \* the keys of every claim
  used     \* the claims that were ever granted

tableVars == <<held, used>>

TableInit ==
  /\ held = [c \in Claim |-> {}]
  /\ used = {}

Grant(c, ks) ==
  /\ c \notin used
  /\ \A x \in Claim : held[x] \cap ks = {}
  /\ held' = [held EXCEPT ![c] = ks]
  /\ used' = used \cup {c}

GiveUp(c) ==
  /\ held' = [held EXCEPT ![c] = {}]
  /\ UNCHANGED used

TableNext == \E c \in Claim : GiveUp(c) \/ \E ks \in SUBSET Key : Grant(c, ks)

TableSpec == TableInit /\ [][TableNext]_tableVars
=============================================================================
