--------------------------- MODULE DispatchContract ---------------------------
(***************************************************************************)
(* What the dispatcher promises of the runs it claims, and no more: a run  *)
(* owns its issue alone, settles once, is submitted for review only when   *)
(* it succeeded, and is reported only when everything the report stands    *)
(* for exists.  No threads, no lock, no leases, no GitHub.                 *)
(***************************************************************************)
CONSTANTS
  RunId,     \* run identities
  Issue,     \* what runs are about
  NoIssue,   \* the issue of a run that was never claimed
  Outcome    \* terminal statuses

VARIABLES
  stage,     \* new -> owner -> settled -> reported
  about,     \* the issue a run owns or owned
  outcome,   \* the terminal status of a settled run
  reviewed   \* runs submitted for review

contractVars == <<stage, about, outcome, reviewed>>

Done(r) == stage[r] \in {"settled", "reported"}

ContractInit ==
  /\ stage = [r \in RunId |-> "new"]
  /\ about = [r \in RunId |-> NoIssue]
  /\ outcome = [r \in RunId |-> "none"]
  /\ reviewed = {}

Own(r, i) ==
  /\ stage[r] = "new"
  /\ \A s \in RunId : stage[s] = "owner" => about[s] # i
  /\ stage' = [stage EXCEPT ![r] = "owner"]
  /\ about' = [about EXCEPT ![r] = i]
  /\ UNCHANGED <<outcome, reviewed>>

SettleOnce(r, o) ==
  /\ stage[r] = "owner"
  /\ stage' = [stage EXCEPT ![r] = "settled"]
  /\ outcome' = [outcome EXCEPT ![r] = o]
  /\ UNCHANGED <<about, reviewed>>

Review(r) ==
  /\ Done(r) /\ outcome[r] = "succeeded"
  /\ reviewed' = reviewed \cup {r}
  /\ UNCHANGED <<stage, about, outcome>>

Report(r) ==
  /\ stage[r] = "settled"
  /\ outcome[r] = "succeeded" => r \in reviewed
  /\ stage' = [stage EXCEPT ![r] = "reported"]
  /\ UNCHANGED <<about, outcome, reviewed>>

ContractNext ==
  \E r \in RunId :
    \/ \E i \in Issue : Own(r, i)
    \/ \E o \in Outcome : SettleOnce(r, o)
    \/ Review(r) \/ Report(r)

ContractSpec == ContractInit /\ [][ContractNext]_contractVars
=============================================================================
