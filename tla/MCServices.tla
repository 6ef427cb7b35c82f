----------------------------- MODULE MCServices -----------------------------
(***************************************************************************)
(* Small instances, for TLC, of the components that share no state with    *)
(* another: every behaviour runs one of them, `focus`, and leaves the      *)
(* others in their initial states.                                         *)
(***************************************************************************)
EXTENDS ClaimStore, SessionWriter, CoreStore, Dialogue, Mandate, Supervisor, AtlasGraph

CONSTANTS Services, s1, s2, c1, c2, k1, k2, w1, w2, p3, e1, e2, q1, m1, g1

VARIABLE focus

storesVars == <<storeVars, lockVars, coreStoreVars>>
servicesVars == <<storesVars, dialogueVars, mandateVars, supervisorVars, atlasVars>>

MCEnvelope == {[id |-> m1, key |-> g1, nonce |-> n, expires |-> n] : n \in {1, 2}}
MCCap == [m \in {m1} |-> 2]

MCPartOf == {{}, {1}, {2}, {3}, {5}, {2, 4}}
MCBlockedBy == SUBSET {1, 2, 3} \cup {{1, 4}}

AtlasIdle ==
  /\ text = <<>> /\ native = <<>> /\ blockers = <<>> /\ parent = <<>> /\ edges = <<>>
  /\ todo = <<>> /\ color = <<>> /\ stack = <<>> /\ cyclic = {}

ServicesInit ==
  /\ focus \in Services
  /\ StoreInit /\ LockInit /\ CoreStoreInit /\ DialogueInit /\ MandateInit /\ SupervisorInit
  /\ IF focus = "atlas" THEN AtlasInit ELSE AtlasIdle

ServicesNext ==
  /\ UNCHANGED focus
  /\ \/ /\ focus = "claims" /\ StoreNext
        /\ UNCHANGED <<lockVars, coreStoreVars, dialogueVars, mandateVars, supervisorVars, atlasVars>>
     \/ /\ focus = "sessions" /\ LockNext
        /\ UNCHANGED <<storeVars, coreStoreVars, dialogueVars, mandateVars, supervisorVars, atlasVars>>
     \/ /\ focus = "core_store" /\ CoreStoreNext
        /\ UNCHANGED <<storeVars, lockVars, dialogueVars, mandateVars, supervisorVars, atlasVars>>
     \/ /\ focus = "dialogue" /\ DialogueNext
        /\ UNCHANGED <<storesVars, mandateVars, supervisorVars, atlasVars>>
     \/ /\ focus = "mandates" /\ MandateNext
        /\ UNCHANGED <<storesVars, dialogueVars, supervisorVars, atlasVars>>
     \/ /\ focus = "supervisor" /\ SupervisorNext
        /\ UNCHANGED <<storesVars, dialogueVars, mandateVars, atlasVars>>
     \/ /\ focus = "atlas" /\ AtlasNext
        /\ UNCHANGED <<storesVars, dialogueVars, mandateVars, supervisorVars>>

\* Only the dialogue service promises that something happens.
ServicesSpec ==
  ServicesInit /\ [][ServicesNext]_<<servicesVars, focus>> /\ DialogueFairness
=============================================================================
