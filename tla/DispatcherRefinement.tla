------------------------- MODULE DispatcherRefinement -------------------------
(* The dispatcher implements its contract.  Only root runs are claimed, so *)
(* a child run stays new in the contract's eyes.                           *)
EXTENDS Dispatcher

CONSTANT NoIssue

Claimed(r) == Present(r) /\ Root(r)

StageOf(r)   == IF ~Claimed(r) THEN "new"
                ELSE IF Active(r) THEN "owner"
                ELSE IF reg[r].synced THEN "reported" ELSE "settled"
AboutOf(r)   == IF Claimed(r) THEN reg[r].issue ELSE NoIssue
OutcomeOf(r) == IF Claimed(r) /\ Settled(r) THEN reg[r].status ELSE "none"

Contract == INSTANCE DispatchContract WITH
  Outcome  <- Terminal,
  stage    <- [r \in RunId |-> StageOf(r)],
  about    <- [r \in RunId |-> AboutOf(r)],
  outcome  <- [r \in RunId |-> OutcomeOf(r)],
  reviewed <- submitted

\* Every step of claim(), complete(), sweep_expired(), spawn_child(),
\* _sync_github() and resync_pending(), every crash and every failed call is
\* a step the contract allows, or changes nothing it can see.
ContractHolds == Contract!ContractSpec
=============================================================================
