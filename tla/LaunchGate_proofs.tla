--------------------------- MODULE LaunchGate_proofs ---------------------------
(***************************************************************************)
(* Theorems about ClaimStore and LaunchGate, for every set of claims,      *)
(* keys, sessions, launches and issues, every lease, receipt lifetime and  *)
(* number of attempts, and any number of failures and crashes.  The launch *)
(* gate's invariant rests on the claim store's.                            *)
(***************************************************************************)
EXTENDS LaunchGate, FiniteSetTheorems, TLAPS

-----------------------------------------------------------------------------
(* The claim store *)

\* A caller between the two halves of bind_engine_session() holds a
\* generation no newer than the claim's, and when it is the claim's own then
\* nobody has bound the claim meanwhile: every change moves the generation.
BindingInv ==
  \A b \in binding :
    /\ claims[b.claim].state # "none"
    /\ b.gen <= claims[b.claim].gen
    /\ b.gen = claims[b.claim].gen => claims[b.claim].engine = NoEngine

\* The store's generation is never behind a claim's, so that the next one is
\* new; claims that were never made are blank.
GenerationInv ==
  \A c \in Claim :
    /\ claims[c].gen <= generation
    /\ claims[c].state = "none" => claims[c].keys = {} /\ claims[c].engine = NoEngine

StoreInv == StoreTypeOK /\ GenerationInv /\ BindingInv /\ RowsCoverLiveClaims

\* How many leases are over is a number.
LEMMA DueIsCounted ==
  ASSUME NEW at
  PROVE  IsFiniteSet(Due(at)) /\ Cardinality(Due(at)) \in Nat
<1>1. Due(at) \subseteq Claim
  BY DEF Due
<1>2. IsFiniteSet(Due(at))
  BY <1>1, FS_Subset, ClaimAssumption
<1> QED
  BY <1>2, FS_CardinalityType

\* Reading the covered rows back: keys of two live claims never meet.
LEMMA CoveredIsExclusive == RowsCoverLiveClaims => ExclusiveKeys
  BY DEF RowsCoverLiveClaims, ExclusiveKeys

\* The empty store satisfies the invariant.
LEMMA StoreInitInv == StoreInit => StoreInv
  BY DEF StoreInit, StoreInv, StoreTypeOK, Record, GenerationInv, BindingInv,
         RowsCoverLiveClaims, Live

\* A successful acquire() preserves the invariant.
LEMMA AcquireInv ==
  ASSUME StoreInv, NEW c \in Claim, NEW ks \in SUBSET Key, NEW at \in Nat, NEW expected \in Nat,
         Acquire(c, ks, at, expected)
  PROVE  StoreInv'
<1> DEFINE new == [state |-> "active", keys |-> ks, gen |-> expected + 1,
                   expires |-> at + Lease, engine |-> NoEngine]
<1>1. /\ claims[c].state = "none"
      /\ generation <= expected
      /\ generation' = expected + 1
      /\ UNCHANGED <<binding, now>>
  <2>1. Cardinality(Due(at)) \in Nat
    BY DueIsCounted
  <2> QED
    BY <2>1 DEF Acquire, Admits, StoreInv, StoreTypeOK
<1>2. claims' = [x \in Claim |->
        IF x = c THEN new
        ELSE IF x \in Due(at) THEN [claims[x] EXCEPT !.state = "expired_pending_reconciliation"]
        ELSE claims[x]]
  BY DEF Acquire
<1>3. new \in Record
  BY StoreBounds DEF Record
<1>4. StoreTypeOK'
  <2>1. claims' \in [Claim -> Record]
    BY <1>2, <1>3 DEF StoreInv, StoreTypeOK, Record
  <2>2. resources' \in [Key -> Claim \cup {NoClaim}]
    BY DEF Acquire, Reclaimed, StoreInv, StoreTypeOK
  <2> QED
    BY <1>1, <2>1, <2>2 DEF StoreInv, StoreTypeOK
<1>5. \A x \in Claim \ {c} :
        /\ claims'[x].keys = claims[x].keys
        /\ claims'[x].gen = claims[x].gen
        /\ claims'[x].engine = claims[x].engine
        /\ Live(x)' <=> Live(x)
        /\ claims'[x].state = "none" <=> claims[x].state = "none"
  BY <1>2 DEF Live, Due, StoreInv, StoreTypeOK, Record
<1>6. claims'[c] = new
  BY <1>2
<1>7. GenerationInv'
  BY <1>1, <1>5, <1>6 DEF GenerationInv, StoreInv, StoreTypeOK, Record
<1>8. BindingInv'
  <2>1. \A b \in binding : b.claim \in Claim \ {c}
    BY <1>1 DEF BindingInv, StoreInv, StoreTypeOK
  <2> QED
    BY <1>1, <1>5, <2>1 DEF BindingInv, StoreInv
<1>9. RowsCoverLiveClaims'
  <2> SUFFICES ASSUME NEW x \in Claim, Live(x)', NEW k \in claims'[x].keys
               PROVE  resources'[k] = x
    BY DEF RowsCoverLiveClaims
  <2>1. k \in Key
    BY <1>4 DEF StoreTypeOK, Record
  <2>2. resources'[k] = IF k \in ks THEN c ELSE Reclaimed[k]
    BY <2>1 DEF Acquire
  <2>3. CASE x = c
    BY <2>2, <2>3, <1>6
  <2>4. CASE x # c
    <3>1. Live(x) /\ k \in claims[x].keys
      BY <2>4, <1>5
    <3>2. Reclaimed[k] = x
      BY <2>1, <3>1 DEF Reclaimed, RowsCoverLiveClaims, StoreInv
    <3>3. k \notin ks
      BY <3>2, ClaimAssumption DEF Acquire, Admits
    <3> QED
      BY <2>2, <3>2, <3>3
  <2> QED
    BY <2>3, <2>4
<1> QED
  BY <1>4, <1>7, <1>8, <1>9 DEF StoreInv

\* heartbeat() preserves the invariant.
LEMMA HeartbeatInv ==
  ASSUME StoreInv, NEW c \in Claim, NEW g \in Nat, NEW until \in Nat, heartbeat(c, g, until)
  PROVE  StoreInv'
<1>1. claims' = [claims EXCEPT ![c].expires = until, ![c].gen = generation + 1]
  BY DEF heartbeat
<1>2. StoreTypeOK'
  <2> DEFINE new == [claims[c] EXCEPT !.expires = until, !.gen = generation + 1]
  <2>0. claims[c] \in Record /\ generation + 1 \in Nat
    BY DEF StoreInv, StoreTypeOK
  <2>1. new \in Record
    BY <2>0 DEF Record
  <2>2. claims' = [claims EXCEPT ![c] = new]
    BY <1>1 DEF StoreInv, StoreTypeOK
  <2> QED
    BY <2>1, <2>2 DEF heartbeat, StoreInv, StoreTypeOK
<1>3. GenerationInv' /\ BindingInv'
  BY <1>1 DEF heartbeat, Owned, GenerationInv, BindingInv, StoreInv, StoreTypeOK, Record
<1>4. RowsCoverLiveClaims'
  BY <1>1 DEF heartbeat, RowsCoverLiveClaims, Live, StoreInv, StoreTypeOK, Record
<1> QED
  BY <1>2, <1>3, <1>4 DEF StoreInv

\* release() preserves the invariant: it frees the rows of its own claim only.
LEMMA ReleaseInv ==
  ASSUME StoreInv, NEW c \in Claim, NEW g \in Nat, release(c, g)
  PROVE  StoreInv'
<1>1. claims' = [claims EXCEPT ![c].state = "released", ![c].gen = generation + 1]
  BY DEF release
<1>2. StoreTypeOK'
  <2> DEFINE new == [claims[c] EXCEPT !.state = "released", !.gen = generation + 1]
  <2>0. claims[c] \in Record /\ generation + 1 \in Nat
    BY DEF StoreInv, StoreTypeOK
  <2>1. new \in Record
    BY <2>0 DEF Record
  <2>2. claims' = [claims EXCEPT ![c] = new]
    BY <1>1 DEF StoreInv, StoreTypeOK
  <2> QED
    BY <2>1, <2>2 DEF release, StoreInv, StoreTypeOK
<1>3. GenerationInv' /\ BindingInv'
  BY <1>1 DEF release, Owned, GenerationInv, BindingInv, StoreInv, StoreTypeOK, Record
<1>4. RowsCoverLiveClaims'
  <2> SUFFICES ASSUME NEW x \in Claim, Live(x)', NEW k \in claims'[x].keys
               PROVE  resources'[k] = x
    BY DEF RowsCoverLiveClaims
  <2>1. x # c /\ Live(x) /\ k \in claims[x].keys
    BY <1>1 DEF Live, StoreInv, StoreTypeOK, Record
  <2>2. k \in Key /\ resources[k] = x
    BY <2>1 DEF RowsCoverLiveClaims, StoreInv, StoreTypeOK, Record
  <2> QED
    BY <2>1, <2>2 DEF release
<1> QED
  BY <1>2, <1>3, <1>4 DEF StoreInv

\* The read half of bind_engine_session() preserves the invariant.
LEMMA BindCheckInv ==
  ASSUME StoreInv, NEW c \in Claim, NEW s \in Engine, BindCheck(c, s)
  PROVE  StoreInv'
<1>1. StoreTypeOK'
  BY DEF BindCheck, StoreInv, StoreTypeOK, Record
<1>2. BindingInv'
  BY DEF BindCheck, BindingInv, StoreInv, StoreTypeOK, Record
<1>3. GenerationInv' /\ RowsCoverLiveClaims'
  BY DEF BindCheck, GenerationInv, RowsCoverLiveClaims, Live, StoreInv
<1> QED
  BY <1>1, <1>2, <1>3 DEF StoreInv

\* The write half preserves it: other callers' generations are now too old.
LEMMA BindInv ==
  ASSUME StoreInv, NEW b \in binding, Bind(b)
  PROVE  StoreInv'
<1>0. b.claim \in Claim /\ b.engine \in Engine
  BY DEF StoreInv, StoreTypeOK
<1>1. CASE /\ Owned(b.claim, b.gen)
           /\ claims' = [claims EXCEPT ![b.claim].engine = b.engine, ![b.claim].gen = generation + 1]
           /\ generation' = generation + 1
  <2>1. StoreTypeOK'
    BY <1>0, <1>1 DEF Bind, StoreInv, StoreTypeOK, Record
  <2>2. GenerationInv' /\ BindingInv'
    BY <1>0, <1>1 DEF Bind, Owned, GenerationInv, BindingInv, StoreInv, StoreTypeOK, Record
  <2>3. RowsCoverLiveClaims'
    BY <1>0, <1>1 DEF Bind, RowsCoverLiveClaims, Live, StoreInv, StoreTypeOK, Record
  <2> QED
    BY <2>1, <2>2, <2>3 DEF StoreInv
<1>2. CASE UNCHANGED <<claims, generation>>
  BY <1>2 DEF Bind, StoreInv, StoreTypeOK, GenerationInv, BindingInv, RowsCoverLiveClaims, Live
<1> QED
  BY <1>1, <1>2 DEF Bind

\* Marking leases that are over preserves the invariant: no row is freed.
LEMMA ExpireInv == StoreInv /\ expire_leases => StoreInv'
<1> SUFFICES ASSUME StoreInv, expire_leases PROVE StoreInv'
  OBVIOUS
<1>1. Cardinality(Due(now)) \in Nat
  BY DueIsCounted
<1>2. generation <= generation' /\ generation' \in Nat
  BY <1>1 DEF expire_leases, StoreInv, StoreTypeOK
<1>3. StoreTypeOK'
  BY <1>2 DEF expire_leases, StoreInv, StoreTypeOK, Record
<1>4. \A x \in Claim :
        /\ claims'[x].keys = claims[x].keys
        /\ claims'[x].gen = claims[x].gen
        /\ claims'[x].engine = claims[x].engine
        /\ Live(x)' <=> Live(x)
        /\ claims'[x].state = "none" <=> claims[x].state = "none"
  BY DEF expire_leases, Due, Live, StoreInv, StoreTypeOK, Record
<1>5. GenerationInv'
  BY <1>2, <1>4 DEF GenerationInv, StoreInv, StoreTypeOK, Record
<1>6. BindingInv' /\ RowsCoverLiveClaims'
  BY <1>4 DEF expire_leases, BindingInv, RowsCoverLiveClaims, StoreInv, StoreTypeOK
<1> QED
  BY <1>3, <1>5, <1>6 DEF StoreInv

\* Manual recovery preserves it: the rows it forgets belong to no live claim.
LEMMA RecoverInv ==
  ASSUME StoreInv, NEW c \in Claim, RecoverByHand(c)
  PROVE  StoreInv'
<1>1. StoreTypeOK'
  BY DEF RecoverByHand, StoreInv, StoreTypeOK, Record
<1>2. GenerationInv' /\ BindingInv' /\ RowsCoverLiveClaims'
  BY DEF RecoverByHand, GenerationInv, BindingInv, RowsCoverLiveClaims, Live, StoreInv,
         StoreTypeOK, Record
<1> QED
  BY <1>1, <1>2 DEF StoreInv

\* Every transaction, read and tick of the clock preserves the invariant.
LEMMA StoreNextInv == StoreInv /\ [StoreNext]_storeVars => StoreInv'
<1> SUFFICES ASSUME StoreInv, [StoreNext]_storeVars PROVE StoreInv'
  OBVIOUS
<1>0. now \in Nat /\ Lease \in Nat /\ MaxTime \in Nat
  BY StoreBounds DEF StoreInv, StoreTypeOK
<1>1. CASE \E c \in Claim, ks \in SUBSET Key, at \in 0..now, expected \in 0..MaxGeneration :
             Acquire(c, ks, at, expected)
  BY <1>1, AcquireInv
<1>2. CASE \E c \in Claim, g \in 0..MaxGeneration : release(c, g)
  BY <1>2, ReleaseInv
<1>3. CASE \E c \in Claim, g \in 0..MaxGeneration, until \in 1..MaxTime + Lease : heartbeat(c, g, until)
  BY <1>3, HeartbeatInv
<1>4. CASE \E c \in Claim, s \in Engine : BindCheck(c, s)
  BY <1>4, BindCheckInv
<1>5. CASE \E c \in Claim : RecoverByHand(c)
  BY <1>5, RecoverInv
<1>6. CASE \E b \in binding : Bind(b)
  BY <1>6, BindInv
<1>7. CASE expire_leases
  BY <1>7, ExpireInv
<1>8. CASE Pass
  BY <1>8 DEF Pass, StoreInv, StoreTypeOK, GenerationInv, BindingInv, RowsCoverLiveClaims, Live
<1>9. CASE UNCHANGED storeVars
  BY <1>9 DEF storeVars, StoreInv, StoreTypeOK, GenerationInv, BindingInv, RowsCoverLiveClaims, Live
<1> QED
  BY <1>1, <1>2, <1>3, <1>4, <1>5, <1>6, <1>7, <1>8, <1>9 DEF StoreNext

\* The invariant holds in every reachable state.
THEOREM StoreInvariant == StoreSpec => []StoreInv
  BY StoreInitInv, StoreNextInv, PTL DEF StoreSpec

-----------------------------------------------------------------------------
\* The tables are well typed, whatever the callers do.
THEOREM StoreTypeCorrect == StoreSpec => []StoreTypeOK
<1>1. StoreInv => StoreTypeOK
  BY DEF StoreInv
<1> QED
  BY <1>1, StoreInvariant, PTL

\* Live claims never share a collision key: neither expiry, nor reclaiming
\* orphaned rows, nor manual recovery lets acquire() hand a key out twice.
THEOREM ExclusiveKeysHold == StoreSpec => []ExclusiveKeys
<1>1. StoreInv => ExclusiveKeys
  BY CoveredIsExclusive DEF StoreInv
<1> QED
  BY <1>1, StoreInvariant, PTL

\* Every live claim has its rows, the ones acquire() consults.
THEOREM RowsCovered == StoreSpec => []RowsCoverLiveClaims
<1>1. StoreInv => RowsCoverLiveClaims
  BY DEF StoreInv
<1> QED
  BY <1>1, StoreInvariant, PTL

\* A bound engine session stays bound: the generation, not the read before
\* the transaction, keeps a second binding out.
THEOREM EngineSessionBoundOnceHolds == StoreSpec => EngineSessionBoundOnce
<1>1. StoreInv /\ [StoreNext]_storeVars =>
        [\A c \in Claim : claims[c].engine # NoEngine => claims'[c].engine = claims[c].engine]_storeVars
  <2> SUFFICES ASSUME StoreInv, StoreNext, NEW c \in Claim, claims[c].engine # NoEngine
               PROVE  claims'[c].engine = claims[c].engine
    OBVIOUS
  <2> USE DEF StoreInv, StoreTypeOK, Record
  <2>1. CASE \E x \in Claim, ks \in SUBSET Key, at \in 0..now, expected \in 0..MaxGeneration :
               Acquire(x, ks, at, expected)
    BY <2>1 DEF Acquire, GenerationInv
  <2>2. CASE \E x \in Claim, g \in 0..MaxGeneration : release(x, g)
    BY <2>2 DEF release
  <2>3. CASE \E x \in Claim, g \in 0..MaxGeneration, until \in 1..MaxTime + Lease : heartbeat(x, g, until)
    BY <2>3 DEF heartbeat
  <2>4. CASE \E x \in Claim : RecoverByHand(x)
    BY <2>4 DEF RecoverByHand
  <2>5. CASE \E b \in binding : Bind(b)
    BY <2>5 DEF Bind, Owned, BindingInv
  <2>6. CASE expire_leases
    BY <2>6 DEF expire_leases
  <2>7. CASE Pass \/ \E x \in Claim, s \in Engine : BindCheck(x, s)
    BY <2>7 DEF Pass, BindCheck
  <2> QED
    BY <2>1, <2>2, <2>3, <2>4, <2>5, <2>6, <2>7 DEF StoreNext
<1> QED
  BY <1>1, StoreInvariant, PTL DEF StoreSpec, EngineSessionBoundOnce

-----------------------------------------------------------------------------
\* The keys the refinement mapping gives a claim.
KeysOf(c) == IF Live(c) THEN claims[c].keys ELSE {}

\* A step that leaves every live claim's keys alone and makes no claim
\* stutters in the lock table.
LEMMA TableStutters ==
  ASSUME StoreInv, StoreInv',
         \A x \in Claim : /\ Live(x)' <=> Live(x)
                          /\ claims'[x].keys = claims[x].keys
                          /\ claims'[x].state = "none" <=> claims[x].state = "none"
  PROVE  UNCHANGED Table!tableVars
  BY DEF Table!tableVars

\* A step that ends claim c, and changes no other claim, is its GiveUp.
LEMMA TableGivesUp ==
  ASSUME StoreInv, NEW c \in Claim, claims[c].state # "none",
         \E g \in Nat : claims' = [claims EXCEPT ![c].state = "released", ![c].gen = g]
  PROVE  Table!GiveUp(c)
<1>1. ~Live(c)' /\ claims'[c].state # "none"
  BY DEF Live, StoreInv, StoreTypeOK, Record
<1>2. \A x \in Claim \ {c} : claims'[x] = claims[x]
  BY DEF StoreInv, StoreTypeOK
<1> QED
  BY <1>1, <1>2 DEF Table!GiveUp, Live

\* A successful acquire() is a Grant of all its keys.
LEMMA TableGrants ==
  ASSUME StoreInv, NEW c \in Claim, NEW ks \in SUBSET Key, NEW at \in Nat, NEW expected \in Nat,
         Acquire(c, ks, at, expected)
  PROVE  Table!Grant(c, ks)
<1> USE DEF StoreInv, StoreTypeOK, Record
<1>1. \A x \in Claim \ {c} : /\ Live(x)' <=> Live(x)
                             /\ claims'[x].keys = claims[x].keys
                             /\ claims'[x].state = "none" <=> claims[x].state = "none"
  BY DEF Acquire, Live, Due
<1>2. claims[c].state = "none" /\ Live(c)' /\ claims'[c].keys = ks /\ claims'[c].state # "none"
  BY DEF Acquire, Live
<1>3. \A x \in Claim : KeysOf(x) \cap ks = {}
  <2> SUFFICES ASSUME NEW x \in Claim, Live(x), NEW k \in claims[x].keys, k \in ks
               PROVE  FALSE
    BY DEF KeysOf
  <2>1. Reclaimed[k] = x
    BY DEF Reclaimed, RowsCoverLiveClaims
  <2> QED
    BY <2>1, ClaimAssumption DEF Acquire, Admits
<1> QED
  BY <1>1, <1>2, <1>3 DEF Table!Grant, KeysOf

\* Every step of the store is a step of the lock table or a stutter.
LEMMA TableStep ==
  StoreInv /\ StoreInv' /\ [StoreNext]_storeVars => [Table!TableNext]_(Table!tableVars)
<1> SUFFICES ASSUME StoreInv, StoreInv', [StoreNext]_storeVars
             PROVE  Table!TableNext \/ UNCHANGED Table!tableVars
  OBVIOUS
<1>0. now \in Nat
  BY DEF StoreInv, StoreTypeOK
<1>1. CASE \E c \in Claim, ks \in SUBSET Key, at \in 0..now, expected \in 0..MaxGeneration :
             Acquire(c, ks, at, expected)
  BY <1>1, TableGrants DEF Table!TableNext
<1>2. CASE \E c \in Claim, g \in 0..MaxGeneration : release(c, g)
  BY <1>2, TableGivesUp DEF release, Owned, StoreInv, StoreTypeOK, Table!TableNext
<1>3. CASE \E c \in Claim : RecoverByHand(c)
  <2>1. PICK c \in Claim : RecoverByHand(c)
    BY <1>3
  <2>2. claims' = [claims EXCEPT ![c].state = "released", ![c].gen = claims[c].gen]
    BY <2>1 DEF RecoverByHand, StoreInv, StoreTypeOK, Record
  <2>3. claims[c].gen \in Nat /\ claims[c].state # "none"
    BY <2>1 DEF RecoverByHand, Live, StoreInv, StoreTypeOK, Record
  <2> QED
    BY <2>2, <2>3, TableGivesUp DEF Table!TableNext
<1>4. CASE \/ \E c \in Claim, g \in 0..MaxGeneration, until \in 1..MaxTime + Lease : heartbeat(c, g, until)
           \/ \E c \in Claim, s \in Engine : BindCheck(c, s)
           \/ \E b \in binding : Bind(b)
           \/ expire_leases \/ Pass \/ UNCHANGED storeVars
  <2>1. \A x \in Claim : /\ Live(x)' <=> Live(x)
                         /\ claims'[x].keys = claims[x].keys
                         /\ claims'[x].state = "none" <=> claims[x].state = "none"
    <3> USE DEF Live, StoreInv, StoreTypeOK, Record
    <3>1. CASE \E c \in Claim, g \in 0..MaxGeneration, until \in 1..MaxTime + Lease : heartbeat(c, g, until)
      BY <3>1 DEF heartbeat
    <3>2. CASE \E b \in binding : Bind(b)
      BY <3>2 DEF Bind
    <3>3. CASE expire_leases
      BY <3>3 DEF expire_leases, Due
    <3>4. CASE Pass \/ UNCHANGED storeVars \/ \E c \in Claim, s \in Engine : BindCheck(c, s)
      BY <3>4 DEF Pass, storeVars, BindCheck
    <3> QED
      BY <1>4, <3>1, <3>2, <3>3, <3>4
  <2> QED
    BY <2>1, TableStutters
<1> QED
  BY <1>1, <1>2, <1>3, <1>4 DEF StoreNext

\* The SQLite store implements the lock table: all-or-nothing exclusive keys
\* that never come back to a claim that gave them up.
THEOREM StoreImplementsLockTable == StoreSpec => StoreIsLockTable
<1>1. StoreInit => Table!TableInit
  BY DEF StoreInit, Table!TableInit, Live
<1> QED
  BY <1>1, TableStep, StoreInvariant, PTL DEF StoreSpec, StoreIsLockTable, Table!TableSpec

-----------------------------------------------------------------------------
(* The launch gate *)

\* A launch has no claim before it acquires one and no run before it claims
\* one; it keeps its claim until its run has ended, and whoever is about to
\* release the claim has seen the run end.
LaunchInv ==
  \A c \in Claim :
    /\ launch[c].at \in {"idle", "reading", "counting", "acquiring"} => claims[c].state = "none"
    /\ launch[c].at \in {"checking", "claiming"} =>
         Live(c) /\ launch[c].issue \in claims[c].keys /\ run[c] = "none"
    /\ claims[c].state = "none" => run[c] = "none"
    /\ run[c] = "in_progress" => Live(c) /\ launch[c].issue \in claims[c].keys
    /\ worker[c] # "none" \/ launch[c].at = "setup" \/ c \in toRelease => run[c] # "none"
    /\ c \in toRelease \/ launch[c].at = "releasing" => run[c] # "in_progress"

GateInv == StoreInv /\ GateTypeOK /\ LaunchInv

\* Two owners of one issue would both have its key.
LEMMA OwnersAreExclusive == GateInv => OneOwnerPerIssue
<1> SUFFICES ASSUME GateInv, NEW c \in Claim, NEW x \in Claim, Owner(c), Owner(x), c # x
             PROVE  launch[c].issue # launch[x].issue
  BY DEF OneOwnerPerIssue
<1>1. Live(c) /\ launch[c].issue \in claims[c].keys
  BY DEF Owner, GateInv, LaunchInv
<1>2. Live(x) /\ launch[x].issue \in claims[x].keys
  BY DEF Owner, GateInv, LaunchInv
<1> QED
  BY <1>1, <1>2, CoveredIsExclusive DEF ExclusiveKeys, GateInv, StoreInv

\* The empty store and no launch satisfy the invariant.
LEMMA GateInitInv == GateInit => GateInv
<1> SUFFICES ASSUME GateInit PROVE GateInv
  OBVIOUS
<1>1. StoreInv
  BY StoreInitInv DEF GateInit
<1>2. GateTypeOK
  BY <1>1, GateBounds DEF GateInit, GateTypeOK, StoreInv, Launch, Step, Idle
<1>3. LaunchInv
  BY DEF GateInit, StoreInit, LaunchInv, Idle
<1> QED
  BY <1>1, <1>2, <1>3 DEF GateInv

\* What the store does for a launch keeps the store's invariant.
LEMMA StoreUnchanged == StoreInv /\ UNCHANGED storeVars => StoreInv'
  BY DEF storeVars, StoreInv, StoreTypeOK, GenerationInv, BindingInv, RowsCoverLiveClaims, Live

\* Giving a claim back keeps the store's invariant, and touches no other claim.
LEMMA ReleaseClaimEffect ==
  ASSUME GateInv, NEW c \in Claim, ReleaseClaim(c)
  PROVE  /\ StoreInv'
         /\ faults' \in Nat
         /\ claims'[c].state = "none" <=> claims[c].state = "none"
         /\ \A x \in Claim \ {c} : claims'[x] = claims[x]
<1>0. claims \in [Claim -> Record] /\ claims[c].gen \in Nat /\ faults \in Nat
  BY DEF GateInv, GateTypeOK, StoreTypeOK, Record
<1>1. CASE release(c, claims[c].gen) /\ UNCHANGED faults
  <2>1. StoreInv'
    BY <1>0, <1>1, ReleaseInv DEF GateInv
  <2>2. claims[c].state # "none" /\ claims'[c].state = "released"
    BY <1>0, <1>1 DEF release, Owned, Record
  <2>3. \A x \in Claim \ {c} : claims'[x] = claims[x]
    BY <1>0, <1>1 DEF release
  <2> QED
    BY <1>0, <1>1, <2>1, <2>2, <2>3
<1>2. CASE UNCHANGED storeVars /\ faults' \in {faults, faults + 1}
  BY <1>0, <1>2, StoreUnchanged DEF GateInv, storeVars
<1> QED
  BY <1>1, <1>2 DEF ReleaseClaim, Fails

\* A step of launch c alone that leaves the store alone.
LEMMA OwnStep ==
  ASSUME GateInv, NEW c \in Claim, UNCHANGED storeVars, GateTypeOK',
         \A x \in Claim \ {c} : /\ launch'[x] = launch[x]
                                /\ run'[x] = run[x]
                                /\ worker'[x] = worker[x]
                                /\ x \in toRelease' => x \in toRelease,
         /\ launch'[c].at \in {"idle", "reading", "counting", "acquiring"} => claims[c].state = "none"
         /\ launch'[c].at \in {"checking", "claiming"} =>
              Live(c) /\ launch'[c].issue \in claims[c].keys /\ run'[c] = "none"
         /\ claims[c].state = "none" => run'[c] = "none"
         /\ run'[c] = "in_progress" => Live(c) /\ launch'[c].issue \in claims[c].keys
         /\ worker'[c] # "none" \/ launch'[c].at = "setup" \/ c \in toRelease' => run'[c] # "none"
         /\ c \in toRelease' \/ launch'[c].at = "releasing" => run'[c] # "in_progress"
  PROVE  GateInv'
<1>1. StoreInv'
  BY StoreUnchanged DEF GateInv
<1>2. claims' = claims /\ \A x \in Claim : Live(x)' <=> Live(x)
  BY DEF storeVars, Live
<1>3. LaunchInv'
  BY <1>2 DEF GateInv, LaunchInv
<1> QED
  BY <1>1, <1>3 DEF GateInv

\* Which fields of a launch a record of another step keeps.
LEMMA GoesToEffect ==
  ASSUME launch \in [Claim -> Launch], NEW c \in Claim, NEW step \in Step, GoesTo(c, step)
  PROVE  /\ launch' \in [Claim -> Launch]
         /\ launch'[c].at = step /\ launch'[c].issue = launch[c].issue
         /\ \A x \in Claim \ {c} : launch'[x] = launch[x]
<1>1. launch' = [launch EXCEPT ![c] = [launch[c] EXCEPT !.at = step]]
  BY DEF GoesTo
<1>2. launch[c] \in Launch
  OBVIOUS
<1>3. [launch[c] EXCEPT !.at = step] \in Launch
  BY <1>2 DEF Launch
<1> QED
  BY <1>1, <1>2, <1>3 DEF Launch

\* A collision leaves a launch without a claim, to read again or to give up.
LEMMA CollidedEffect ==
  ASSUME launch \in [Claim -> Launch], NEW c \in Claim, Collided(c)
  PROVE  /\ launch' \in [Claim -> Launch]
         /\ launch'[c].at \in {"idle", "reading"}
         /\ launch'[c].at = "reading" => launch'[c].issue = launch[c].issue
         /\ \A x \in Claim \ {c} : launch'[x] = launch[x]
<1> DEFINE next == [launch[c] EXCEPT !.at = "reading", !.tries = launch[c].tries + 1]
<1>0. launch[c] \in Launch
  OBVIOUS
<1>1. ASSUME launch[c].tries + 1 < Attempts PROVE next \in Launch
  <2>1. launch[c].tries + 1 \in 0..Attempts - 1
    BY <1>0, <1>1, GateBounds DEF Launch
  <2>2. "reading" \in Step
    BY DEF Step
  <2> QED
    BY <1>0, <2>1, <2>2 DEF Launch
<1>2. Idle \in Launch /\ Idle.at = "idle"
  BY GateBounds DEF Idle, Launch, Step
<1>3. next.at = "reading" /\ next.issue = launch[c].issue
  BY <1>0 DEF Launch
<1>4. launch' = [launch EXCEPT ![c] = IF launch[c].tries + 1 < Attempts THEN next ELSE Idle]
  BY DEF Collided
<1> QED
  BY <1>1, <1>2, <1>3, <1>4

-----------------------------------------------------------------------------
(* Every step preserves the invariant *)

\* Starting a launch and the reads before its claim: nothing is owned yet.
LEMMA PreflightInv ==
  ASSUME GateInv, NEW c \in Claim,
         (\E i \in Key : Begin(c, i)) \/ ReadActive(c) \/ ReadGeneration(c)
  PROVE  GateInv'
<1>0. /\ launch \in [Claim -> Launch]
      /\ now \in Nat /\ generation \in Nat
      /\ claims[c].state = "none" /\ run[c] = "none"
      /\ UNCHANGED <<storeVars, ready, runVars, worker, toRelease, faults, crashes>>
  BY DEF GateInv, GateTypeOK, StoreTypeOK, LaunchInv, Begin, ReadActive, ReadGeneration
<1>1. /\ launch' \in [Claim -> Launch]
      /\ launch'[c].at \in {"idle", "reading", "counting", "acquiring"}
      /\ launch'[c].at # "idle" => launch'[c].issue \in Key
      /\ \A x \in Claim \ {c} : launch'[x] = launch[x]
  <2>0. launch[c] \in Launch
    BY <1>0
  <2>1. CASE \E i \in Key : Begin(c, i)
    <3>1. PICK i \in Key : Begin(c, i)
      BY <2>1
    <3>2. [launch[c] EXCEPT !.at = "reading", !.issue = i] \in Launch
      BY <2>0 DEF Launch, Step
    <3>3. launch' = [launch EXCEPT ![c] = [launch[c] EXCEPT !.at = "reading", !.issue = i]]
      BY <1>0, <3>1 DEF Begin
    <3> QED
      BY <1>0, <3>2, <3>3 DEF Launch
  <2>2. CASE ReadActive(c) /\ Collided(c)
    BY <1>0, <2>2, CollidedEffect DEF ReadActive, GateInv, GateTypeOK
  <2>3. CASE ReadActive(c) /\ launch' = [launch EXCEPT ![c].at = "counting", ![c].seen = now]
    <3>1. [launch[c] EXCEPT !.at = "counting", !.seen = now] \in Launch
      BY <1>0, <2>0 DEF Launch, Step
    <3>2. launch' = [launch EXCEPT ![c] = [launch[c] EXCEPT !.at = "counting", !.seen = now]]
      BY <1>0, <2>3
    <3>3. launch[c].issue \in Key
      BY <2>3 DEF ReadActive, GateInv, GateTypeOK
    <3> QED
      BY <1>0, <3>1, <3>2, <3>3 DEF Launch
  <2>4. CASE ReadGeneration(c)
    <3>1. [launch[c] EXCEPT !.at = "acquiring", !.gen = generation] \in Launch
      BY <1>0, <2>0 DEF Launch, Step
    <3>2. launch' = [launch EXCEPT ![c] = [launch[c] EXCEPT !.at = "acquiring", !.gen = generation]]
      BY <1>0, <2>4 DEF ReadGeneration
    <3>3. launch[c].issue \in Key
      BY <2>4 DEF ReadGeneration, GateInv, GateTypeOK
    <3> QED
      BY <1>0, <3>1, <3>2, <3>3 DEF Launch
  <2> QED
    BY <2>1, <2>2, <2>3, <2>4 DEF ReadActive
<1>2. GateTypeOK'
  BY <1>0, <1>1, StoreUnchanged DEF GateInv, GateTypeOK, StoreInv, runVars
<1> QED
  BY <1>0, <1>1, <1>2, OwnStep DEF GateInv, LaunchInv, runVars

\* The launch's turn at the store: a claim on its issue, or none.
LEMMA AcquireClaimInv ==
  ASSUME GateInv, NEW c \in Claim, AcquireClaim(c)
  PROVE  GateInv'
<1> DEFINE l == launch[c]
<1>0. /\ launch \in [Claim -> Launch] /\ l \in Launch /\ l.at = "acquiring" /\ l.issue \in Key
      /\ claims[c].state = "none" /\ run[c] = "none"
      /\ UNCHANGED <<ready, runVars, worker, toRelease, faults, crashes>>
  BY DEF GateInv, GateTypeOK, LaunchInv, AcquireClaim
<1>1. CASE Acquire(c, {l.issue}, l.seen, l.gen) /\ GoesTo(c, "checking")
  <2>0. {l.issue} \in SUBSET Key /\ l.seen \in Nat /\ l.gen \in Nat /\ "checking" \in Step
    BY <1>0 DEF Launch, Step
  <2>1. StoreInv'
    BY <1>1, <2>0, AcquireInv DEF GateInv
  <2>2. /\ launch' \in [Claim -> Launch]
        /\ launch'[c].at = "checking" /\ launch'[c].issue = l.issue
        /\ \A x \in Claim \ {c} : launch'[x] = launch[x]
    BY <1>0, <1>1, <2>0, GoesToEffect
  <2>3. /\ claims'[c].state = "active" /\ claims'[c].keys = {l.issue}
        /\ \A x \in Claim \ {c} :
             /\ claims'[x].keys = claims[x].keys
             /\ Live(x)' <=> Live(x)
             /\ claims'[x].state = "none" <=> claims[x].state = "none"
    <3>1. claims' = [x \in Claim |->
            IF x = c THEN [state |-> "active", keys |-> {l.issue}, gen |-> l.gen + 1,
                           expires |-> l.seen + Lease, engine |-> NoEngine]
            ELSE IF x \in Due(l.seen) THEN [claims[x] EXCEPT !.state = "expired_pending_reconciliation"]
            ELSE claims[x]]
      BY <1>1 DEF Acquire
    <3>2. claims \in [Claim -> Record]
      BY DEF GateInv, GateTypeOK, StoreTypeOK
    <3>3. \A x \in Due(l.seen) : claims[x].state = "active"
      BY DEF Due
    <3> HIDE DEF l
    <3> QED
      BY <3>1, <3>2, <3>3 DEF Live, Record
  <2>4. GateTypeOK'
    BY <1>0, <2>1, <2>2 DEF GateInv, GateTypeOK, StoreInv, runVars
  <2>5. LaunchInv'
    <3>1. Live(c)' /\ launch'[c].issue \in claims'[c].keys /\ run'[c] = "none"
      BY <1>0, <2>2, <2>3 DEF Live, runVars
    <3>2. worker'[c] = "none" /\ c \notin toRelease' /\ claims'[c].state # "none"
      BY <1>0, <2>3 DEF GateInv, LaunchInv
    <3>3. \A x \in Claim \ {c} :
            /\ run'[x] = run[x] /\ worker'[x] = worker[x]
            /\ x \in toRelease' <=> x \in toRelease
      BY <1>0 DEF runVars
    <3> QED
      BY <2>2, <2>3, <3>1, <3>2, <3>3 DEF GateInv, LaunchInv
  <2> QED
    BY <2>1, <2>4, <2>5 DEF GateInv
<1>2. CASE (Collided(c) \/ launch' = [launch EXCEPT ![c] = Idle]) /\ UNCHANGED storeVars
  <2>1. Idle \in Launch /\ Idle.at = "idle"
    BY GateBounds DEF Idle, Launch, Step
  <2>2. /\ launch' \in [Claim -> Launch]
        /\ launch'[c].at \in {"idle", "reading"}
        /\ launch'[c].at = "reading" => launch'[c].issue \in Key
        /\ \A x \in Claim \ {c} : launch'[x] = launch[x]
    BY <1>0, <1>2, <2>1, CollidedEffect
  <2>3. GateTypeOK'
    BY <1>0, <1>2, <2>2, StoreUnchanged DEF GateInv, GateTypeOK, StoreInv, runVars
  <2> QED
    BY <1>0, <1>2, <2>2, <2>3, OwnStep DEF GateInv, LaunchInv, runVars
<1> QED
  BY <1>1, <1>2 DEF AcquireClaim

\* Releasing at the end of launch c, or for a settled run c: by then nothing
\* of the invariant asks for its claim.
LEMMA ReleasingStep ==
  ASSUME GateInv, NEW c \in Claim, ReleaseClaim(c), run[c] # "in_progress",
         launch' \in [Claim -> Launch],
         UNCHANGED <<ready, runVars, worker, crashes>>,
         \A x \in Claim \ {c} : launch'[x] = launch[x],
         launch'[c].issue = launch[c].issue,
         \/ launch'[c] = launch[c] /\ c \in toRelease
         \/ launch'[c].at = "over" /\ launch[c].at # "idle",
         toRelease' \subseteq toRelease
  PROVE  GateInv'
<1>1. /\ StoreInv'
      /\ faults' \in Nat
      /\ claims'[c].state = "none" <=> claims[c].state = "none"
      /\ \A x \in Claim \ {c} : claims'[x] = claims[x]
  BY ReleaseClaimEffect
<1>2. GateTypeOK'
  BY <1>1 DEF GateInv, GateTypeOK, StoreInv, runVars
<1>3. \A x \in Claim \ {c} : Live(x)' <=> Live(x)
  BY <1>1 DEF Live
<1>4. c \in toRelease => launch[c].at \notin {"checking", "claiming"}
  BY DEF GateInv, LaunchInv
<1>5. LaunchInv'
  BY <1>1, <1>3, <1>4 DEF GateInv, LaunchInv, runVars
<1> QED
  BY <1>1, <1>2, <1>5 DEF GateInv

\* The second look at the issue, the launcher's clean-up and a settler's
\* second half.
LEMMA ReleasersInv ==
  ASSUME GateInv, NEW c \in Claim, Reread(c) \/ FailRelease(c) \/ TerminalRelease(c)
  PROVE  GateInv'
<1>0. launch \in [Claim -> Launch] /\ {"over", "claiming"} \subseteq Step
  BY DEF GateInv, GateTypeOK, Step
<1>1. CASE Reread(c) /\ GoesTo(c, "claiming") /\ UNCHANGED <<storeVars, faults>>
  <2>1. /\ launch' \in [Claim -> Launch]
        /\ launch'[c].at = "claiming" /\ launch'[c].issue = launch[c].issue
        /\ \A x \in Claim \ {c} : launch'[x] = launch[x]
    BY <1>0, <1>1, GoesToEffect
  <2>2. launch[c].at = "checking" /\ UNCHANGED <<ready, runVars, worker, toRelease, crashes, faults>>
    BY <1>1 DEF Reread
  <2>3. GateTypeOK'
    BY <1>1, <2>1, <2>2, StoreUnchanged DEF GateInv, GateTypeOK, StoreInv, runVars
  <2> QED
    BY <1>1, <2>1, <2>2, <2>3, OwnStep DEF GateInv, LaunchInv, runVars
<1>2. CASE (Reread(c) \/ FailRelease(c)) /\ GoesTo(c, "over") /\ ReleaseClaim(c)
  <2>1. /\ launch' \in [Claim -> Launch]
        /\ launch'[c].at = "over" /\ launch'[c].issue = launch[c].issue
        /\ \A x \in Claim \ {c} : launch'[x] = launch[x]
    BY <1>0, <1>2, GoesToEffect
  <2>2. /\ UNCHANGED <<ready, runVars, worker, toRelease, crashes>>
        /\ run[c] # "in_progress" /\ launch[c].at # "idle"
    BY <1>2 DEF Reread, FailRelease, GateInv, LaunchInv
  <2> QED
    BY <1>2, <2>1, <2>2, ReleasingStep
<1>4. CASE Reread(c) /\ GoesTo(c, "over") /\ Fails("reread") /\ UNCHANGED storeVars
  <2>1. /\ launch' \in [Claim -> Launch]
        /\ launch'[c].at = "over" /\ launch'[c].issue = launch[c].issue
        /\ \A x \in Claim \ {c} : launch'[x] = launch[x]
    BY <1>0, <1>4, GoesToEffect
  <2>2. /\ launch[c].at = "checking" /\ UNCHANGED <<ready, runVars, worker, toRelease, crashes>>
        /\ faults' \in Nat
    BY <1>4 DEF Reread, Fails, GateInv, GateTypeOK
  <2>3. GateTypeOK'
    BY <1>4, <2>1, <2>2, StoreUnchanged DEF GateInv, GateTypeOK, StoreInv, runVars
  <2> QED
    BY <1>4, <2>1, <2>2, <2>3, OwnStep DEF GateInv, LaunchInv, runVars
<1>3. CASE TerminalRelease(c)
  <2>1. run[c] # "in_progress" /\ UNCHANGED <<launch, ready, runVars, worker, crashes>>
    BY <1>3 DEF TerminalRelease, GateInv, LaunchInv
  <2>2. ReleaseClaim(c) /\ c \in toRelease /\ toRelease' \subseteq toRelease
    BY <1>3 DEF TerminalRelease
  <2>3. launch' \in [Claim -> Launch] /\ \A x \in Claim : launch'[x] = launch[x]
    BY <1>0, <2>1
  <2> QED
    BY <2>1, <2>2, <2>3, ReleasingStep
<1> QED
  BY <1>1, <1>2, <1>3, <1>4 DEF Reread, FailRelease

\* The run is claimed under the launch's claim.
LEMMA ClaimRunInv ==
  ASSUME GateInv, NEW c \in Claim, ClaimRun(c)
  PROVE  GateInv'
<1>0. /\ launch \in [Claim -> Launch] /\ {"setup", "failing"} \subseteq Step
      /\ launch[c].at = "claiming" /\ launch[c].issue \in Key /\ now \in Nat
      /\ Live(c) /\ launch[c].issue \in claims[c].keys /\ run[c] = "none"
      /\ UNCHANGED <<storeVars, worker, toRelease, faults, crashes>>
  BY DEF GateInv, GateTypeOK, StoreTypeOK, LaunchInv, ClaimRun, Step
<1>1. \E step \in {"setup", "failing"} : GoesTo(c, step) /\ (step = "setup" => run'[c] = "in_progress")
  BY <1>0 DEF ClaimRun, GateInv, GateTypeOK
<1>2. /\ launch' \in [Claim -> Launch]
      /\ launch'[c].at \in {"setup", "failing"} /\ launch'[c].issue = launch[c].issue
      /\ launch'[c].at = "setup" => run'[c] = "in_progress"
      /\ \A x \in Claim \ {c} : launch'[x] = launch[x]
  BY <1>0, <1>1, GoesToEffect
<1>3. /\ run' \in [Claim -> {"none", "in_progress", "settled"}] /\ beat' \in [Claim -> Nat]
      /\ ready' \subseteq Key
      /\ run'[c] \in {"none", "in_progress"}
      /\ \A x \in Claim \ {c} : run'[x] = run[x]
  BY <1>0 DEF ClaimRun, GateInv, GateTypeOK, runVars
<1>4. GateTypeOK'
  BY <1>0, <1>2, <1>3, StoreUnchanged DEF GateInv, GateTypeOK, StoreInv
<1>5. worker[c] = "none" /\ c \notin toRelease /\ claims[c].state # "none"
  BY <1>0 DEF GateInv, LaunchInv, Live
<1> QED
  BY <1>0, <1>2, <1>3, <1>4, <1>5, OwnStep

\* The worker starts, or the launch begins to fail.
LEMMA SetupInv ==
  ASSUME GateInv, NEW c \in Claim, Setup(c)
  PROVE  GateInv'
<1>0. /\ launch \in [Claim -> Launch] /\ {"over", "failing"} \subseteq Step
      /\ launch[c].at = "setup" /\ run[c] # "none" /\ launch[c].issue \in Key
      /\ UNCHANGED <<storeVars, ready, runVars, toRelease, faults, crashes>>
  BY DEF GateInv, GateTypeOK, LaunchInv, Setup, Step
<1>1. \E step \in {"over", "failing"} : GoesTo(c, step)
  BY DEF Setup
<1>2. /\ launch' \in [Claim -> Launch]
      /\ launch'[c].at \in {"over", "failing"} /\ launch'[c].issue = launch[c].issue
      /\ \A x \in Claim \ {c} : launch'[x] = launch[x]
  BY <1>0, <1>1, GoesToEffect
<1>3. /\ worker' \in [Claim -> {"none", "working", "ended"}]
      /\ \A x \in Claim \ {c} : worker'[x] = worker[x]
  BY DEF Setup, GateInv, GateTypeOK
<1>4. GateTypeOK'
  BY <1>0, <1>2, <1>3, StoreUnchanged DEF GateInv, GateTypeOK, StoreInv, runVars
<1> QED
  BY <1>0, <1>2, <1>3, <1>4, OwnStep DEF GateInv, LaunchInv, runVars

\* What complete() may change: run c, towards settled, and its issue's label.
LEMMA CompletesEffect ==
  ASSUME GateInv, NEW c \in Claim, Completes(c)
  PROVE  /\ run' \in [Claim -> {"none", "in_progress", "settled"}] /\ beat' = beat
         /\ run'[c] # "in_progress"
         /\ run'[c] = "none" <=> run[c] = "none"
         /\ \A x \in Claim \ {c} : run'[x] = run[x]
         /\ ready' \subseteq Key
<1>1. run[c] = "in_progress" => launch[c].issue \in Key
  <2>1. claims[c].keys \subseteq Key
    BY DEF GateInv, StoreInv, StoreTypeOK, Record
  <2> QED
    BY <2>1 DEF GateInv, LaunchInv
<1> QED
  BY <1>1 DEF Completes, GateInv, GateTypeOK, runVars

\* _fail_launch() settles the run it may have made.
LEMMA FailRunInv ==
  ASSUME GateInv, NEW c \in Claim, FailRun(c)
  PROVE  GateInv'
<1>0. /\ launch \in [Claim -> Launch] /\ "releasing" \in Step
      /\ launch[c].at = "failing" /\ launch[c].issue \in Key
      /\ GoesTo(c, "releasing") /\ Completes(c)
      /\ UNCHANGED <<storeVars, worker, toRelease, faults, crashes>>
  BY DEF GateInv, GateTypeOK, LaunchInv, FailRun, Step
<1>1. /\ launch' \in [Claim -> Launch]
      /\ launch'[c].at = "releasing" /\ launch'[c].issue = launch[c].issue
      /\ \A x \in Claim \ {c} : launch'[x] = launch[x]
  BY <1>0, GoesToEffect
<1>2. /\ run' \in [Claim -> {"none", "in_progress", "settled"}] /\ beat' = beat
      /\ run'[c] # "in_progress"
      /\ run'[c] = "none" <=> run[c] = "none"
      /\ \A x \in Claim \ {c} : run'[x] = run[x]
      /\ ready' \subseteq Key
  BY <1>0, CompletesEffect
<1>3. GateTypeOK'
  BY <1>0, <1>1, <1>2, StoreUnchanged DEF GateInv, GateTypeOK, StoreInv
<1> QED
  BY <1>0, <1>1, <1>2, <1>3, OwnStep DEF GateInv, LaunchInv

\* The worker, the operator and the sweep settle a run; heartbeats.
LEMMA SettlersInv ==
  ASSUME GateInv, NEW c \in Claim,
         WorkerEnds(c) \/ submit(c) \/ sweep_expired(c) \/ Heartbeat(c)
  PROVE  GateInv'
<1>0. UNCHANGED <<storeVars, launch, crashes>>
  BY DEF WorkerEnds, submit, sweep_expired, Heartbeat
<1>1. /\ run' \in [Claim -> {"none", "in_progress", "settled"}]
      /\ run'[c] = "none" <=> run[c] = "none"
      /\ run'[c] = "in_progress" => run[c] = "in_progress" /\ toRelease' = toRelease
      /\ \A x \in Claim \ {c} : run'[x] = run[x]
      /\ ready' \subseteq Key /\ beat' \in [Claim -> Nat]
  <2>1. CASE Completes(c)
    BY <2>1, CompletesEffect DEF GateInv, GateTypeOK
  <2>2. CASE sweep_expired(c) /\ ~Completes(c)
    BY <2>2 DEF sweep_expired, GateInv, GateTypeOK
  <2>3. CASE Heartbeat(c)
    BY <2>3 DEF Heartbeat, runVars, GateInv, GateTypeOK, StoreTypeOK
  <2> QED
    BY <2>1, <2>2, <2>3 DEF WorkerEnds, submit
<1>2. /\ worker' \in [Claim -> {"none", "working", "ended"}]
      /\ worker'[c] = "none" <=> worker[c] = "none"
      /\ \A x \in Claim \ {c} : worker'[x] = worker[x]
      /\ toRelease' \subseteq toRelease \cup {c}
      /\ c \in toRelease' => run[c] # "none"
      /\ faults' \in Nat
  BY DEF WorkerEnds, submit, sweep_expired, Heartbeat, Fails, GateInv, GateTypeOK, LaunchInv
<1>3. GateTypeOK'
  BY <1>0, <1>1, <1>2, StoreUnchanged DEF GateInv, GateTypeOK, StoreInv
<1> QED
  BY <1>0, <1>1, <1>2, <1>3, OwnStep DEF GateInv, LaunchInv

\* A crash forgets threads; the claims and the registry stay as they are.
LEMMA CrashInv == GateInv /\ Crash => GateInv'
<1> SUFFICES ASSUME GateInv, Crash PROVE GateInv'
  OBVIOUS
<1>0. launch \in [Claim -> Launch] /\ UNCHANGED <<storeVars, ready, runVars, faults>>
  BY DEF Crash, GateInv, GateTypeOK
<1>1. StoreInv'
  BY <1>0, StoreUnchanged DEF GateInv
<1>2. \A c \in Claim :
        /\ launch'[c] \in Launch
        /\ claims[c].state = "none" => launch'[c].at = "idle"
        /\ claims[c].state # "none" => launch'[c].at = "over" /\ launch'[c].issue = launch[c].issue
  <2> SUFFICES ASSUME NEW c \in Claim
               PROVE  /\ launch'[c] \in Launch
                      /\ claims[c].state = "none" => launch'[c].at = "idle"
                      /\ claims[c].state # "none" => launch'[c].at = "over" /\ launch'[c].issue = launch[c].issue
    OBVIOUS
  <2>1. launch'[c] = IF claims[c].state = "none" THEN Idle ELSE [launch[c] EXCEPT !.at = "over"]
    BY DEF Crash
  <2>2. Idle \in Launch /\ Idle.at = "idle"
    BY GateBounds DEF Idle, Launch, Step
  <2>3. launch[c] \in Launch
    BY <1>0
  <2> QED
    BY <2>1, <2>2, <2>3 DEF Launch, Step
<1>3. \A c \in Claim : claims[c].state # "none" => launch[c].issue \in Key
  BY DEF GateInv, GateTypeOK, LaunchInv
<1>4. launch' \in [Claim -> Launch]
  BY <1>2 DEF Crash
<1>5. GateTypeOK'
  <2>1. worker' \in [Claim -> {"none", "working", "ended"}]
    BY DEF Crash, GateInv, GateTypeOK
  <2>2. toRelease' = {} /\ crashes' \in Nat
    BY DEF Crash, GateInv, GateTypeOK
  <2>3. \A c \in Claim : launch'[c].at # "idle" => launch'[c].issue \in Key
    BY <1>2, <1>3
  <2> QED
    BY <1>0, <1>1, <1>4, <2>1, <2>2, <2>3 DEF GateInv, GateTypeOK, StoreInv, runVars
<1>6. LaunchInv'
  <2>1. claims' = claims /\ run' = run /\ toRelease' = {} /\ \A c \in Claim : Live(c)' <=> Live(c)
    BY <1>0 DEF storeVars, runVars, Live, Crash
  <2>2. \A c \in Claim : worker'[c] # "none" => worker[c] # "none"
    BY DEF Crash, GateInv, GateTypeOK
  <2> QED
    BY <1>2, <2>1, <2>2 DEF GateInv, LaunchInv, Live
<1> QED
  BY <1>1, <1>5, <1>6 DEF GateInv

\* Labels and the clock are nobody's claim.
LEMMA OutsideInv == GateInv /\ ((\E i \in Key : MarkReady(i)) \/ Later \/ UNCHANGED allVars) => GateInv'
<1> SUFFICES ASSUME GateInv, (\E i \in Key : MarkReady(i)) \/ Later \/ UNCHANGED allVars
             PROVE  GateInv'
  OBVIOUS
<1>1. /\ UNCHANGED <<claims, resources, generation, binding, launch, run, beat, worker, toRelease, faults, crashes>>
      /\ ready' \subseteq Key /\ now' \in Nat
  BY DEF MarkReady, Later, Pass, allVars, gateVars, storeVars, runVars, GateInv, GateTypeOK, StoreTypeOK
<1>2. StoreInv'
  BY <1>1 DEF GateInv, StoreInv, StoreTypeOK, GenerationInv, BindingInv, RowsCoverLiveClaims, Live
<1>3. GateTypeOK' /\ LaunchInv'
  BY <1>1, <1>2 DEF GateInv, GateTypeOK, LaunchInv, StoreInv, Live
<1> QED
  BY <1>2, <1>3 DEF GateInv

\* Every step of every launch, settler, operator and crash.
LEMMA GateNextInv == GateInv /\ [GateNext]_allVars => GateInv'
  BY PreflightInv, AcquireClaimInv, ReleasersInv, ClaimRunInv, SetupInv, FailRunInv, SettlersInv,
     CrashInv, OutsideInv DEF GateNext, LaunchStep

\* The invariant holds in every reachable state.
THEOREM GateInvariant == GateSpec => []GateInv
  BY GateInitInv, GateNextInv, PTL DEF GateSpec

\* Launches, runs, threads and tables are well typed.
THEOREM GateTypeCorrect == GateSpec => []GateTypeOK
<1>1. GateInv => GateTypeOK
  BY DEF GateInv
<1> QED
  BY <1>1, GateInvariant, PTL

\* Whoever settles, sweeps, submits or fails a launch, and whenever the
\* process dies, a run in progress has a live claim on its issue.
THEOREM RunHoldsClaimHolds == GateSpec => []RunHoldsClaim
<1>1. GateInv => RunHoldsClaim
  BY DEF GateInv, LaunchInv, RunHoldsClaim
<1> QED
  BY <1>1, GateInvariant, PTL

\* From its claim until its run ends a launch has its issue to itself.
THEOREM OneOwnerPerIssueHolds == GateSpec => []OneOwnerPerIssue
  BY OwnersAreExclusive, GateInvariant, PTL

=============================================================================
