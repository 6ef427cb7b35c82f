----------------------------- MODULE ClaimStore -----------------------------
(***************************************************************************)
(* SqliteClaimStore of scripts/execution_map.py: durable claims on         *)
(* exclusive resources, shared by every launcher process.                  *)
(*                                                                         *)
(* Each transaction (BEGIN IMMEDIATE ... COMMIT) is one action.  One that  *)
(* raises is rolled back and leaves nothing behind, so it is no step here. *)
(* A read made before a transaction is a step of its own.  The callers are *)
(* arbitrary: they pass any generation, old or guessed, and a time that    *)
(* they read from their clock earlier.  The unique indexes on the issue    *)
(* and the run of live claims repeat what the rows of those two keys say.  *)
(***************************************************************************)
EXTENDS Naturals, FiniteSets

CONSTANTS
  Claim,         \* claims, each made once with a fresh id
  NoClaim,
  Key,           \* collision keys: issue, run, branch, worktree, session, label
  Engine,       \* engine sessions
  NoEngine,
  Lease,         \* lease of a new claim, in ticks
  MaxTime,       \* bound: clock
  MaxGeneration  \* bound: store generation

ASSUME ClaimAssumption   == NoClaim \notin Claim /\ IsFiniteSet(Claim)
ASSUME SessionAssumption == NoEngine \notin Engine
ASSUME StoreBounds       == Lease \in Nat \ {0} /\ MaxTime \in Nat /\ MaxGeneration \in Nat

VARIABLES
  claims,      \* the claims table
  resources,   \* the resources table: the claim a key is recorded for
  generation,  \* meta.generation
  binding,     \* bind_engine_session() calls between their read and their write
  now

storeVars == <<claims, resources, generation, binding, now>>

Record == [state: {"none", "active", "expired_pending_reconciliation", "released"},
           keys: SUBSET Key, gen: Nat, expires: Nat, engine: Engine \cup {NoEngine}]

Live(c) == claims[c].state \in {"active", "expired_pending_reconciliation"}

-----------------------------------------------------------------------------
(* Acquiring *)

Due(at) == {c \in Claim : claims[c].state = "active" /\ claims[c].expires <= at}

\* Rows of claims that are not live any more are orphans.
\* Mutant: a claim waiting for reconciliation counts as gone.
RowsOfActive == [k \in Key |-> IF resources[k] \in {c \in Claim : claims[c].state = "active"}
                               THEN resources[k] ELSE NoClaim]

Reclaimed == [k \in Key |-> IF resources[k] \in {c \in Claim : Live(c)}
                            THEN resources[k] ELSE NoClaim]

\* Claims whose lease is over are marked first, and each one marked moves the
\* generation: the caller's expectation then fails and the marks are undone.
Admits(ks, at, expected) ==
  /\ generation + Cardinality(Due(at)) = expected
  /\ \A k \in ks : Reclaimed[k] = NoClaim

\* Mutant: the rows of the keys are overwritten, not looked at.
AcquireUnchecked(c, ks, at, expected) ==
  /\ claims[c].state = "none" /\ ks # {}
  /\ generation + Cardinality(Due(at)) = expected
  /\ expected < MaxGeneration
  /\ resources' = [k \in Key |-> IF k \in ks THEN c ELSE Reclaimed[k]]
  /\ claims' = [x \in Claim |->
       IF x = c THEN [state |-> "active", keys |-> ks, gen |-> expected + 1,
                      expires |-> at + Lease, engine |-> NoEngine]
       ELSE IF x \in Due(at) THEN [claims[x] EXCEPT !.state = "expired_pending_reconciliation"]
       ELSE claims[x]]
  /\ generation' = expected + 1
  /\ UNCHANGED <<binding, now>>

Acquire(c, ks, at, expected) ==
  /\ claims[c].state = "none" /\ ks # {}
  /\ Admits(ks, at, expected)
  /\ expected < MaxGeneration
  /\ resources' = [k \in Key |-> IF k \in ks THEN c ELSE Reclaimed[k]]
  /\ claims' = [x \in Claim |->
       IF x = c THEN [state |-> "active", keys |-> ks, gen |-> expected + 1,
                      expires |-> at + Lease, engine |-> NoEngine]
       ELSE IF x \in Due(at) THEN [claims[x] EXCEPT !.state = "expired_pending_reconciliation"]
       ELSE claims[x]]
  /\ generation' = expected + 1
  /\ UNCHANGED <<binding, now>>

-----------------------------------------------------------------------------
(* Changing a claim *)

\* Mutant: any caller that knows the claim may change it.
OwnedAnyGeneration(c, g) == claims[c].state = "active"

\* _transition(): the caller must hold the generation the claim was last
\* changed with.
Owned(c, g) == claims[c].state = "active" /\ claims[c].gen = g

\* The new lease may also be a shorter one.
heartbeat(c, g, until) ==
  /\ Owned(c, g) /\ until > now /\ generation < MaxGeneration
  /\ claims' = [claims EXCEPT ![c].expires = until, ![c].gen = generation + 1]
  /\ generation' = generation + 1
  /\ UNCHANGED <<resources, binding, now>>

release(c, g) ==
  /\ Owned(c, g) /\ generation < MaxGeneration
  /\ claims' = [claims EXCEPT ![c].state = "released", ![c].gen = generation + 1]
  /\ resources' = [k \in Key |-> IF resources[k] = c THEN NoClaim ELSE resources[k]]
  /\ generation' = generation + 1
  /\ UNCHANGED <<binding, now>>

\* bind_engine_session() looks for an earlier binding before it begins.
BindCheck(c, s) ==
  /\ claims[c].state # "none" /\ claims[c].engine = NoEngine
  /\ binding' = binding \cup {[claim |-> c, gen |-> claims[c].gen, engine |-> s]}
  /\ UNCHANGED <<claims, resources, generation, now>>

Bind(b) ==
  /\ b \in binding /\ binding' = binding \ {b}
  /\ \/ /\ Owned(b.claim, b.gen) /\ generation < MaxGeneration
        /\ claims' = [claims EXCEPT ![b.claim].engine = b.engine, ![b.claim].gen = generation + 1]
        /\ generation' = generation + 1
     \/ ~Owned(b.claim, b.gen) /\ UNCHANGED <<claims, generation>>
  /\ UNCHANGED <<resources, now>>

expire_leases ==
  /\ Due(now) # {} /\ generation + Cardinality(Due(now)) <= MaxGeneration
  /\ claims' = [x \in Claim |->
       IF x \in Due(now) THEN [claims[x] EXCEPT !.state = "expired_pending_reconciliation"]
       ELSE claims[x]]
  /\ generation' = generation + Cardinality(Due(now))
  /\ UNCHANGED <<resources, binding, now>>

\* Manual recovery, an SQL update past the store: the rows stay behind.
RecoverByHand(c) ==
  /\ Live(c)
  /\ claims' = [claims EXCEPT ![c].state = "released"]
  /\ UNCHANGED <<resources, generation, binding, now>>

Pass ==
  /\ now < MaxTime /\ now' = now + 1
  /\ UNCHANGED <<claims, resources, generation, binding>>

-----------------------------------------------------------------------------
StoreInit ==
  /\ claims = [c \in Claim |-> [state |-> "none", keys |-> {}, gen |-> 0,
                                expires |-> 0, engine |-> NoEngine]]
  /\ resources = [k \in Key |-> NoClaim]
  /\ generation = 0
  /\ binding = {}
  /\ now = 0

StoreNext ==
  \/ \E c \in Claim :
       \/ \E ks \in SUBSET Key, at \in 0..now, expected \in 0..MaxGeneration : Acquire(c, ks, at, expected)
       \/ \E g \in 0..MaxGeneration : release(c, g) \/ \E until \in 1..MaxTime + Lease : heartbeat(c, g, until)
       \/ \E s \in Engine : BindCheck(c, s)
       \/ RecoverByHand(c)
  \/ \E b \in binding : Bind(b)
  \/ expire_leases \/ Pass

StoreSpec == StoreInit /\ [][StoreNext]_storeVars

-----------------------------------------------------------------------------
(* What must hold *)

\* Every table entry is of its column's kind: what the operations write
\* stays what the later ones expect to read.
StoreTypeOK ==
  /\ claims \in [Claim -> Record]
  /\ resources \in [Key -> Claim \cup {NoClaim}]
  /\ generation \in Nat
  /\ binding \in SUBSET [claim: Claim, gen: Nat, engine: Engine]
  /\ now \in Nat

\* One owner per key among live claims, expired ones included, also beside
\* rows that manual recovery left behind and with callers that come late.
ExclusiveKeys ==
  \A c, x \in Claim : Live(c) /\ Live(x) /\ c # x => claims[c].keys \cap claims[x].keys = {}

\* The rows acquire() consults cover every live claim: expiry frees none of
\* them, and reclaiming orphans takes none away.
RowsCoverLiveClaims == \A c \in Claim : Live(c) => \A k \in claims[c].keys : resources[k] = c

\* A claim binds one engine session and keeps it, although the check for an
\* earlier binding is made outside the transaction.
EngineSessionBoundOnce ==
  [][\A c \in Claim : claims[c].engine # NoEngine => claims'[c].engine = claims[c].engine]_storeVars

Table == INSTANCE LockTable WITH
  held <- [c \in Claim |-> IF Live(c) THEN claims[c].keys ELSE {}],
  used <- {c \in Claim : claims[c].state # "none"}

\* The tables, generations and leases implement all-or-nothing exclusive keys.
StoreIsLockTable == Table!TableSpec

=============================================================================
