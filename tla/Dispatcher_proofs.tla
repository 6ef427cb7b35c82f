-------------------------- MODULE Dispatcher_proofs --------------------------
(* Theorems about Dispatcher, for every value of its constants. *)
EXTENDS DispatcherRefinement, FiniteSetTheorems, TLAPS

USE RunAssumption, OutcomeAssumption, LimitAssumption, WorkerAssumption,
    LeaseAssumption, TimeoutAssumption, BoundAssumption

-----------------------------------------------------------------------------
(* Types *)

\* A record made by claim() or spawn_child() is a registry record.
LEMMA NewRunType ==
  ASSUME NEW i \in Issue, NEW p \in RunId \cup {NoRun}, NEW d \in Nat, NEW k \in Kind,
         NEW s \in {"absent", "in_progress"}
  PROVE  NewRun(i, p, d, k, s) \in Run
BY DEF NewRun, Run

\* The evidence gate only ever turns one terminal status into another.
LEMMA GateType ==
  ASSUME NEW r, NEW s \in Terminal, NEW shown
  PROVE  gate_commit(r, s, shown) \in Terminal
BY DEF gate_commit, Terminal, Failing

\* What complete() writes on the run it settles: a status that passed the
\* gate, and whether evidence was verified.
Settlement(r, o, e) ==
  /\ o \in Terminal /\ e \in BOOLEAN
  /\ reg' = [reg EXCEPT ![r].status = o, ![r].evidence = e]
  /\ o = "succeeded" /\ reg[r].kind # "plain" => e /\ proof[r] = "good"

\* Every settlement is of that form.
LEMMA SettleWrites ==
  ASSUME NEW t, NEW r \in RunId, NEW s, Settle(t, r, s)
  PROVE  \E o \in Terminal, e \in BOOLEAN : Settlement(r, o, e)
<1>1. PICK offered \in Terminal, shown \in Presented(r) :
        reg' = [reg EXCEPT ![r].status = gate_commit(r, offered, shown),
                           ![r].evidence = gate_commit(r, offered, shown) = "succeeded" /\ shown = "good"]
  BY DEF Settle
<1> DEFINE o == gate_commit(r, offered, shown)
           e == o = "succeeded" /\ shown = "good"
<1>2. o \in Terminal
  BY GateType
<1>3. o = "succeeded" => shown = "good" \/ (reg[r].kind = "plain" /\ shown = "none")
  BY DEF gate_commit
<1>4. reg[r].kind # "plain" => shown = proof[r]
  BY DEF Presented
<1>5. reg' = [reg EXCEPT ![r].status = o, ![r].evidence = e]
  BY <1>1
<1>6. e \in BOOLEAN
  OBVIOUS
<1>7. o = "succeeded" /\ reg[r].kind # "plain" => e /\ proof[r] = "good"
  BY <1>3, <1>4
<1> HIDE DEF o, e
<1> QED BY <1>2, <1>5, <1>6, <1>7 DEF Settlement

\* A settlement costs at most one failed call, and only for a failed recovery.
LEMMA SettleCost ==
  ASSUME TypeOK, NEW t, NEW r, NEW s, Settle(t, r, s)
  PROVE  faults' \in faults..MaxFaults
BY DEF Settle, Recovered, Fault, TypeOK

\* swap_label() leaves workflow labels on every issue.
LEMMA SwapType ==
  ASSUME TypeOK, NEW i, NEW remove, NEW add \in Workflow
  PROVE  swap_label(i, remove, add) \in [Issue -> SUBSET Workflow]
BY DEF swap_label, TypeOK

\* The next point of _sync_github() is a point.
LEMMA GotoType ==
  ASSUME TypeOK, NEW t \in Thread, thr[t].at # "idle", NEW point \in Holding, Goto(t, point)
  PROVE  thr' \in [Thread -> ThreadState]
<1> DEFINE y == [thr[t] EXCEPT !.at = point]
           x == [y EXCEPT !.call = 0]
<1>1. thr[t] \in Busy
  BY DEF TypeOK, ThreadState, Idle, At
<1>2. y \in Busy
  BY <1>1 DEF Busy
<1>3. thr' = [thr EXCEPT ![t] = x]
  BY Zenon DEF Goto
<1> HIDE DEF y
<1>4. x \in ThreadState
  BY <1>2 DEF ThreadState, Busy
<1> QED BY <1>3, <1>4 DEF TypeOK

\* A thread that leaves _sync_github() is idle.
LEMMA ReturnType ==
  ASSUME TypeOK, NEW t \in Thread, Return(t)
  PROVE  thr' \in [Thread -> ThreadState]
BY DEF Return, Idle, At, ThreadState, TypeOK

\* complete() keeps the registry and the threads well-typed.
LEMMA SettleType ==
  ASSUME TypeOK, NEW t \in Thread, NEW r \in RunId, NEW s \in Terminal, Settle(t, r, s)
  PROVE  reg' \in [RunId -> Run] /\ thr' \in [Thread -> ThreadState]
<1>1. PICK o \in Terminal, e \in BOOLEAN : Settlement(r, o, e)
  BY SettleWrites
<1>2. reg' \in [RunId -> Run]
  <2> DEFINE x == [reg[r] EXCEPT !.status = o, !.evidence = e]
  <2>1. reg[r] \in Run
    BY DEF TypeOK
  <2>2. [reg[r] EXCEPT !.status = o] \in Run
    BY <1>1, <2>1 DEF Run
  <2>3. x \in Run
    BY <2>2 DEF Run
  <2>4. reg' = [reg EXCEPT ![r] = x]
    BY <1>1 DEF Settlement, TypeOK
  <2> HIDE DEF x
  <2> QED BY <2>3, <2>4 DEF TypeOK
<1>3. thr' \in [Thread -> ThreadState]
  BY DEF Settle, TypeOK, ThreadState, Busy, At
<1> QED BY <1>2, <1>3

\* _sync_github()'s claim keeps the registry and the threads well-typed.
LEMMA TakeSyncType ==
  ASSUME TypeOK, NEW t \in Thread, NEW r \in RunId, TakeSync(t, r)
  PROVE  reg' \in [RunId -> Run] /\ thr' \in [Thread -> ThreadState] /\ overrun' \in BOOLEAN
<1>1. CASE reg[r].synced \/ ~gh_sync_claim_stale(r)
  BY <1>1 DEF TakeSync, Return, TypeOK, ThreadState, Idle, At
<1>2. CASE ~(reg[r].synced \/ ~gh_sync_claim_stale(r))
  <2>1. reg' \in [RunId -> Run]
    BY <1>2 DEF TakeSync, TypeOK, Run
  <2>2. thr' \in [Thread -> ThreadState]
    <3> DEFINE y == At(IF reg[r].status = "succeeded" THEN "submit" ELSE "swap", r)
    <3>1. y \in ThreadState
      BY DEF ThreadState, Busy, At, Holding
    <3>2. thr' = [thr EXCEPT ![t] = y]
      BY <1>2 DEF TakeSync
    <3> QED BY <3>1, <3>2 DEF TypeOK
  <2>3. overrun' \in BOOLEAN
    BY <1>2, Zenon DEF TakeSync, TypeOK
  <2> QED BY <2>1, <2>2, <2>3
<1> QED BY <1>1, <1>2

\* No step of a claim, completion, sweep, sync, crash or tick takes the
\* state of the dispatcher out of its type.
LEMMA TypeOKStep == TypeOK /\ [Next]_vars => TypeOK'
<1> SUFFICES ASSUME TypeOK, [Next]_vars PROVE TypeOK'
  OBVIOUS
<1>1. ASSUME NEW r \in RunId, NEW i \in Issue, NEW k \in Kinds \ {"mutating"}, Claim(r, i, k)
      PROVE  TypeOK'
  <2>1. NewRun(i, NoRun, 0, k, "in_progress") \in Run
    BY NewRunType
  <2>2. claimer' \in Claimer
    BY <1>1 DEF Claim, Claimer, Claiming
  <2> QED BY <1>1, <2>1, <2>2 DEF Claim, TypeOK
<1>2. CASE ClaimSwap
  <2>1. claimer' \in Claimer
    BY <1>2 DEF ClaimSwap, TypeOK, Claimer, Claiming, NoClaimer
  <2>2. labels' \in [Issue -> SUBSET Workflow]
    BY <1>2, SwapType DEF ClaimSwap, Workflow
  <2> QED BY <1>2, <2>1, <2>2 DEF ClaimSwap, TypeOK
<1>3. NoClaimer \in Claimer
  BY DEF NoClaimer, Claimer
<1>4. CASE ClaimComment
  BY <1>3, <1>4 DEF ClaimComment, TypeOK
<1>5. CASE ClaimFails
  <2>1. labels' \in [Issue -> SUBSET Workflow]
    BY <1>5, SwapType DEF ClaimFails, TypeOK, Workflow
  <2>2. faults' \in 0..MaxFaults
    BY <1>5 DEF ClaimFails, Fault, TypeOK
  <2> QED BY <1>3, <1>5, <2>1, <2>2 DEF ClaimFails, TypeOK
<1>6. ASSUME NEW r \in RunId, NEW limit \in Limits, NEW m \in BOOLEAN, RecordMandate(r, limit, m)
      PROVE  TypeOK'
  <2> DEFINE x == [reg[r] EXCEPT !.limit = limit]
             k == IF m THEN "mutating" ELSE reg[r].kind
  <2>1. reg[r] \in Run /\ k \in Kind
    BY DEF TypeOK, Run, Kind
  <2>2. x \in Run
    BY <2>1 DEF Run
  <2>3. [x EXCEPT !.kind = k] \in Run
    BY <2>1, <2>2 DEF Run
  <2>4. reg' = [reg EXCEPT ![r] = [x EXCEPT !.kind = k]]
    BY <1>6 DEF RecordMandate, TypeOK, Run
  <2> QED BY <1>6, <2>3, <2>4 DEF RecordMandate, TypeOK
<1>7. ASSUME NEW r \in RunId, StartWorker(r)
      PROVE  TypeOK'
  BY <1>7 DEF StartWorker, TypeOK
<1>8. ASSUME NEW r \in RunId, NEW p \in {"bad", "good"}, Work(r, p)
      PROVE  TypeOK'
  BY <1>8 DEF Work, TypeOK
<1>9. ASSUME NEW r \in RunId, Heartbeat(r)
      PROVE  TypeOK'
  <2>1. reg' \in [RunId -> Run]
    BY <1>9 DEF Heartbeat, TypeOK, Run
  <2> QED BY <1>9, <2>1 DEF Heartbeat, TypeOK
<1>10. ASSUME NEW p \in RunId, NEW c \in RunId, SpawnChild(p, c)
      PROVE  TypeOK'
  <2>1. reg[p].issue \in Issue /\ reg[p].depth + 1 \in Nat
    BY DEF TypeOK, Run
  <2>2. NewRun(reg[p].issue, p, reg[p].depth + 1, "plain", "in_progress") \in Run
    BY <2>1, NewRunType DEF Kind
  <2> QED BY <1>10, <2>2 DEF SpawnChild, TypeOK
<1>11. ASSUME NEW t \in Thread, NEW r \in RunId, NEW s \in Terminal,
              Completes(t, r, s),
              worker' \in {worker, [worker EXCEPT ![r] = "done"]},
              sweep' \in SUBSET sweep,
              UNCHANGED <<labels, submitted, posted, proof, unguarded, claimer, overrun, crashes>>
       PROVE  TypeOK'
  <2>1. reg' \in [RunId -> Run] /\ thr' \in [Thread -> ThreadState] /\ faults' \in 0..MaxFaults
    BY <1>11, SettleType, SettleCost DEF Completes, TypeOK
  <2> QED BY <1>11, <2>1 DEF TypeOK
<1>12. CASE Completing
  <2>1. CASE SweepSnapshot
    BY <2>1 DEF SweepSnapshot, TypeOK
  <2>2. ASSUME NEW t \in Thread, NEW r \in RunId, NEW s \in Outcomes,
               Submit(t, r, s) \/ WorkerCompletes(t, r, s)
        PROVE  TypeOK'
    BY <2>2, <1>11 DEF Submit, WorkerCompletes, Completes
  <2>3. ASSUME NEW t \in Thread, NEW r \in RunId, FailLaunch(t, r)
        PROVE  TypeOK'
    BY <2>3, <1>11 DEF FailLaunch, Terminal, Failing
  <2>4. ASSUME NEW t \in Thread, NEW r \in RunId, SweepComplete(t, r)
        PROVE  TypeOK'
    BY <2>4, <1>11 DEF SweepComplete, Terminal, Failing
  <2> QED BY <1>12, <2>1, <2>2, <2>3, <2>4 DEF Completing
<1>13. ASSUME NEW t \in Thread, SyncStep(t) \/ SyncFails(t) \/ \E r \in RunId : Resync(t, r)
       PROVE  TypeOK'
  <2>1. ASSUME NEW r \in RunId, TakeSync(t, r),
               UNCHANGED <<labels, submitted, posted, proof, unguarded, worker, claimer, sweep, faults, crashes>>
        PROVE  TypeOK'
    BY <2>1, TakeSyncType DEF TypeOK
  <2>2. thr[t].at # "idle" => thr[t].run \in RunId
    BY DEF TypeOK, ThreadState, Busy, Idle, At
  <2>3. CASE SyncClaim(t)
    BY <2>1, <2>2, <2>3 DEF SyncClaim
  <2>4. ASSUME NEW r \in RunId, Resync(t, r)
        PROVE  TypeOK'
    BY <2>1, <2>4 DEF Resync
  <2>5. CASE SyncSwap(t)
    <3>1. labels' \in [Issue -> SUBSET Workflow]
      BY <2>5, SwapType DEF SyncSwap, target, Workflow
    <3>2. thr' \in [Thread -> ThreadState]
      BY <2>5, GotoType DEF SyncSwap, Holding
    <3> QED BY <2>5, <3>1, <3>2 DEF SyncSwap, TypeOK
  <2>6. CASE SyncSubmit(t)
    <3>1. thr' \in [Thread -> ThreadState]
      BY <2>6, GotoType DEF SyncSubmit, Holding
    <3> QED BY <2>2, <2>6, <3>1 DEF SyncSubmit, TypeOK
  <2>7. CASE SyncRecord(t)
    <3>1. thr' \in [Thread -> ThreadState]
      BY <2>7, GotoType DEF SyncRecord, Holding
    <3>2. reg' \in [RunId -> Run]
      <4> DEFINE r == thr[t].run
      <4>1. r \in RunId /\ reg[r] \in Run
        BY <2>2, <2>7 DEF SyncRecord, TypeOK
      <4>2. [reg[r] EXCEPT !.recorded = TRUE] \in Run
        BY <4>1 DEF Run
      <4> QED BY <2>7, <4>1, <4>2 DEF SyncRecord, TypeOK
    <3> QED BY <2>7, <3>1, <3>2 DEF SyncRecord, TypeOK
  <2>8. CASE SyncComment(t)
    <3>1. thr' \in [Thread -> ThreadState]
      BY <2>8, GotoType DEF SyncComment, Holding
    <3> QED BY <2>2, <2>8, <3>1 DEF SyncComment, TypeOK
  <2>9. CASE SyncFinish(t)
    <3>1. thr' \in [Thread -> ThreadState]
      BY <2>9, ReturnType DEF SyncFinish
    <3>2. reg' \in [RunId -> Run]
      <4> DEFINE r == thr[t].run
      <4>1. r \in RunId /\ reg[r] \in Run
        BY <2>2, <2>9 DEF SyncFinish, TypeOK
      <4>2. [reg[r] EXCEPT !.synced = TRUE] \in Run
        BY <4>1 DEF Run
      <4> QED BY <2>9, <4>1, <4>2 DEF SyncFinish, TypeOK
    <3> QED BY <2>9, <3>1, <3>2 DEF SyncFinish, TypeOK
  <2>10. CASE SyncFails(t)
    <3>1. thr' \in [Thread -> ThreadState]
      BY <2>10, ReturnType DEF SyncFails
    <3>2. labels' \in [Issue -> SUBSET Workflow]
      BY <2>10, SwapType DEF SyncFails, target, Workflow, TypeOK
    <3>3. posted' \in SUBSET RunId
      BY <2>2, <2>10 DEF SyncFails, TypeOK
    <3>4. faults' \in 0..MaxFaults
      BY <2>10 DEF SyncFails, Fault, TypeOK
    <3> QED BY <2>10, <3>1, <3>2, <3>3, <3>4 DEF SyncFails, TypeOK
  <2> QED BY <1>13, <2>3, <2>4, <2>5, <2>6, <2>7, <2>8, <2>9, <2>10 DEF SyncStep
<1>14. CASE Crash
  <2>1. thr' \in [Thread -> ThreadState]
    BY <1>14 DEF Crash, ThreadState
  <2>2. worker' \in [RunId -> {"none", "orphaned", "done"}]
    BY <1>14 DEF Crash
  <2>3. crashes' \in 0..MaxCrashes
    BY <1>14 DEF Crash, TypeOK
  <2> QED BY <1>3, <1>14, <2>1, <2>2, <2>3 DEF Crash, TypeOK
<1>15. CASE Tick
  <2>1. reg' \in [RunId -> Run]
    <3> SUFFICES ASSUME NEW r \in RunId PROVE reg'[r] \in Run
      BY <1>15 DEF Tick
    <3> DEFINE x == [reg[r] EXCEPT !.syncAge = Older(@, SyncLease + 1)]
               a == IF Active(r) THEN Older(reg[r].lifeAge, RunLease + 1) ELSE reg[r].lifeAge
    <3>1. reg[r] \in Run
      BY DEF TypeOK
    <3>2. x \in Run
      BY <3>1 DEF Run, Older
    <3>3. a \in 0..RunLease + 1
      BY <3>1 DEF Run, Older
    <3>4. reg'[r] = [x EXCEPT !.lifeAge = a]
      BY <1>15, <3>1 DEF Tick, Run
    <3> QED BY <3>2, <3>3, <3>4 DEF Run
  <2>2. thr' \in [Thread -> ThreadState]
    <3> SUFFICES ASSUME NEW t \in Thread PROVE thr'[t] \in ThreadState
      BY <1>15 DEF Tick
    <3> DEFINE c == IF InCall(t) THEN thr[t].call + 1 ELSE thr[t].call
               h == IF thr[t].at \in Holding THEN Older(thr[t].held, SyncLease + 1) ELSE thr[t].held
    <3>1. thr'[t] = [at |-> thr[t].at, run |-> thr[t].run, call |-> c, held |-> h]
      BY <1>15 DEF Tick
    <3>2. CASE thr[t] = Idle
      BY <3>1, <3>2 DEF InCall, Idle, At, Holding, ThreadState
    <3>3. CASE thr[t] \in Busy
      <4>1. InCall(t) => thr[t].call < CallTimeout
        BY <1>15 DEF Tick
      <4>2. c \in 0..CallTimeout
        BY <3>3, <4>1 DEF Busy
      <4>3. h \in 0..SyncLease + 1
        BY <3>3 DEF Older, Busy
      <4> QED BY <3>1, <3>3, <4>2, <4>3 DEF ThreadState, Busy
    <3> QED BY <3>2, <3>3 DEF TypeOK, ThreadState
  <2>3. claimer' \in Claimer
    <3>1. claimer \in Claimer /\ (claimer.at # "idle" => claimer.call < CallTimeout)
      BY <1>15 DEF Tick, TypeOK
    <3>2. claimer' = IF LockFree THEN claimer
                     ELSE [at |-> claimer.at, run |-> claimer.run, call |-> claimer.call + 1]
      BY <1>15 DEF Tick
    <3> QED BY <3>1, <3>2 DEF Claimer, Claiming, LockFree, NoClaimer
  <2> QED BY <1>15, <2>1, <2>2, <2>3 DEF Tick, TypeOK
<1>16. ASSUME NEW i \in Issue, OperatorReady(i)
       PROVE  TypeOK'
  BY <1>16 DEF OperatorReady, TypeOK, Workflow
<1>17. CASE UNCHANGED vars
  BY <1>17 DEF vars, TypeOK
<1> QED
  BY <1>1, <1>2, <1>4, <1>5, <1>6, <1>7, <1>8, <1>9, <1>10, <1>12, <1>13, <1>14, <1>15, <1>16,
     <1>17 DEF Next, Launching, Syncing, Environment

\* The state of the dispatcher always has its type.
THEOREM TypeCorrect == Spec => []TypeOK
<1>1. Init => TypeOK
  <2> SUFFICES ASSUME Init PROVE TypeOK
    OBVIOUS
  <2>1. reg \in [RunId -> Run]
    BY NewRunType DEF Init, Kind
  <2>2. labels \in [Issue -> SUBSET Workflow]
    BY DEF Init, Workflow
  <2>3. thr \in [Thread -> ThreadState]
    BY DEF Init, ThreadState
  <2>4. claimer \in Claimer
    BY DEF Init, Claimer
  <2>5. proof \in [RunId -> {"none", "bad", "good"}] /\ worker \in [RunId -> {"none"}]
    BY DEF Init
  <2>6. faults \in 0..MaxFaults /\ crashes \in 0..MaxCrashes
    BY DEF Init
  <2> QED BY <2>1, <2>2, <2>3, <2>4, <2>5, <2>6 DEF Init, TypeOK
<1> QED BY <1>1, TypeOKStep, PTL DEF Spec

-----------------------------------------------------------------------------
(* Settled runs *)

\* The steps that write the registry: everything else leaves it alone.
LEMMA RegistrySteps ==
  ASSUME TypeOK, [Next]_vars
  PROVE  \/ UNCHANGED reg
         \/ \E r \in RunId, i \in Issue, k \in Kinds \ {"mutating"} : Claim(r, i, k)
         \/ \E r \in RunId, limit \in Limits, m \in BOOLEAN : RecordMandate(r, limit, m)
         \/ \E r \in RunId : Heartbeat(r)
         \/ \E p, c \in RunId : SpawnChild(p, c)
         \/ \E t \in Thread, r \in RunId, s \in Terminal : Settle(t, r, s)
         \/ \E t \in Thread, r \in RunId : TakeSync(t, r)
         \/ \E t \in Thread : (SyncRecord(t) \/ SyncFinish(t)) /\ thr[t].run \in RunId
         \/ Tick
<1>1. \A t \in Thread : thr[t].at # "idle" => thr[t].run \in RunId
  BY DEF TypeOK, ThreadState, Busy, Idle, At
<1>2. CASE Launching
  BY <1>2 DEF Launching, ClaimSwap, ClaimComment, ClaimFails, StartWorker, Work
<1>3. CASE Completing
  <2>1. "blocked" \in Terminal /\ "timed_out" \in Terminal
    BY DEF Terminal, Failing
  <2> QED BY <1>3, <2>1
        DEF Completing, SweepSnapshot, Submit, WorkerCompletes, FailLaunch, SweepComplete, Completes
<1>4. CASE Syncing
  <2>1. PICK t \in Thread : SyncStep(t) \/ SyncFails(t) \/ \E r \in RunId : Resync(t, r)
    BY <1>4 DEF Syncing
  <2>2. CASE SyncClaim(t)
    BY <1>1, <2>2 DEF SyncClaim
  <2>3. CASE SyncRecord(t) \/ SyncFinish(t)
    BY <1>1, <2>3 DEF SyncRecord, SyncFinish
  <2>4. CASE SyncSwap(t) \/ SyncSubmit(t) \/ SyncComment(t) \/ SyncFails(t)
    BY <2>4 DEF SyncSwap, SyncSubmit, SyncComment, SyncFails
  <2>5. CASE \E r \in RunId : Resync(t, r)
    BY <2>5 DEF Resync
  <2> QED BY <2>1, <2>2, <2>3, <2>4, <2>5 DEF SyncStep
<1>5. CASE Environment
  BY <1>5 DEF Environment, Crash, OperatorReady
<1> QED BY <1>2, <1>3, <1>4, <1>5 DEF Next, vars

\* What no step may take from a settled root run.
Kept(r) ==
  /\ reg'[r].status = reg[r].status /\ reg'[r].evidence = reg[r].evidence
  /\ reg'[r].parent = reg[r].parent /\ reg'[r].issue = reg[r].issue
  /\ reg'[r].kind \in {reg[r].kind, "mutating"}
  /\ reg[r].synced => reg'[r].synced

\* No step of any thread, no respawned child and no crash touches the
\* verdict of a root run that complete() has settled.
LEMMA SettledRootsKept ==
  ASSUME TypeOK, [Next]_vars, NEW r \in RunId, Root(r), Settled(r)
  PROVE  Kept(r)
<1> USE DEF Kept
<1>0. reg[r] \in Run /\ reg \in [RunId -> Run] /\ ~Active(r) /\ Present(r)
  BY DEF TypeOK, Settled, Active, Present, Terminal, Failing
<1>1. ASSUME NEW q \in RunId, NEW i \in Issue, NEW k \in Kinds \ {"mutating"}, Claim(q, i, k)
      PROVE  Kept(r)
  BY <1>0, <1>1 DEF Claim
<1>2. CASE UNCHANGED reg
  BY <1>0, <1>2
<1>3. ASSUME NEW q \in RunId, NEW limit \in Limits, NEW m \in BOOLEAN, RecordMandate(q, limit, m)
      PROVE  Kept(r)
  BY <1>0, <1>3 DEF RecordMandate, Run
<1>4. ASSUME NEW q \in RunId, Heartbeat(q)
      PROVE  Kept(r)
  BY <1>0, <1>4 DEF Heartbeat, Run
<1>5. ASSUME NEW p \in RunId, NEW c \in RunId, SpawnChild(p, c)
      PROVE  Kept(r)
  BY <1>0, <1>5 DEF SpawnChild, Root
<1>6. ASSUME NEW t \in Thread, NEW q \in RunId, NEW s, Settle(t, q, s)
      PROVE  Kept(r)
  BY <1>0, <1>6 DEF Settle
<1>7. ASSUME NEW t \in Thread, NEW q \in RunId, TakeSync(t, q)
      PROVE  Kept(r)
  BY <1>0, <1>7 DEF TakeSync, Run
<1>8. ASSUME NEW t \in Thread, SyncRecord(t) \/ SyncFinish(t)
      PROVE  Kept(r)
  BY <1>0, <1>8 DEF SyncRecord, SyncFinish, Run
<1>9. CASE Tick
  BY <1>0, <1>9 DEF Tick, Run
<1> QED BY <1>1, <1>2, <1>3, <1>4, <1>5, <1>6, <1>7, <1>8, <1>9, RegistrySteps

\* complete() settles a root run once (Dispatcher.complete, its terminal
\* guard under the lock): its status and evidence are final.
THEOREM SettledFinal == Spec => SettledIsFinal
<1>1. TypeOK /\ [Next]_vars => [\A r \in RunId : Root(r) /\ Settled(r) =>
        reg'[r].status = reg[r].status /\ reg'[r].evidence = reg[r].evidence]_vars
  BY SettledRootsKept DEF Kept
<1> QED BY <1>1, TypeCorrect, PTL DEF Spec, SettledIsFinal

-----------------------------------------------------------------------------
(* Claims *)

\* Only claim() makes an active root run; every other step leaves fewer or
\* the same, on the same issues.
LEMMA OnlyClaimClaims ==
  ASSUME TypeOK, [Next]_vars, NEW r \in RunId, ActiveRoot(r)'
  PROVE  \/ ActiveRoot(r) /\ reg'[r].issue = reg[r].issue
         \/ \E i \in Issue, k \in Kinds : Claim(r, i, k)
<1> DEFINE Owned == ActiveRoot(r) /\ reg'[r].issue = reg[r].issue
<1> USE DEF ActiveRoot, Active, Root
<1>0. reg[r] \in Run /\ reg \in [RunId -> Run] /\ Terminal \cap {"absent", "in_progress"} = {}
  BY DEF TypeOK, Terminal, Failing
<1>1. ASSUME NEW q \in RunId, NEW i \in Issue, NEW k \in Kinds \ {"mutating"}, Claim(q, i, k)
      PROVE  Owned \/ q = r
  BY <1>0, <1>1 DEF Claim
<1>2. UNCHANGED reg => Owned
  BY <1>0
<1>3. ASSUME NEW q \in RunId, NEW limit \in Limits, NEW m \in BOOLEAN, RecordMandate(q, limit, m)
      PROVE  Owned
  BY <1>0, <1>3 DEF RecordMandate, Run
<1>4. ASSUME NEW q \in RunId, Heartbeat(q)
      PROVE  Owned
  BY <1>0, <1>4 DEF Heartbeat, Run
<1>5. ASSUME NEW p \in RunId, NEW c \in RunId, SpawnChild(p, c)
      PROVE  Owned
  BY <1>0, <1>5 DEF SpawnChild, NewRun
<1>6. ASSUME NEW t \in Thread, NEW q \in RunId, NEW s \in Terminal, Settle(t, q, s)
      PROVE  Owned
  BY <1>0, <1>6, GateType DEF Settle
<1>7. ASSUME NEW t \in Thread, NEW q \in RunId, TakeSync(t, q)
      PROVE  Owned
  BY <1>0, <1>7 DEF TakeSync, Run
<1>8. ASSUME NEW t \in Thread, SyncRecord(t) \/ SyncFinish(t)
      PROVE  Owned
  BY <1>0, <1>8 DEF SyncRecord, SyncFinish, Run
<1>9. ASSUME Tick
      PROVE  Owned
  BY <1>0, <1>9 DEF Tick, Run
<1> QED BY <1>1, <1>2, <1>3, <1>4, <1>5, <1>6, <1>7, <1>8, <1>9, RegistrySteps

\* Dispatcher.claim() gives an issue to one run at a time.
LEMMA OneRunPerIssueStep == TypeOK /\ OneRunPerIssue /\ [Next]_vars => OneRunPerIssue'
<1> SUFFICES ASSUME TypeOK, OneRunPerIssue, [Next]_vars,
                    NEW r \in RunId, NEW s \in RunId,
                    ActiveRoot(r)', ActiveRoot(s)', reg'[r].issue = reg'[s].issue
             PROVE  r = s
  BY DEF OneRunPerIssue, ActiveRoot, Active, Root
<1>1. ASSUME NEW x \in RunId, NEW y \in RunId, NEW i \in Issue, NEW k \in Kinds, Claim(x, i, k),
             ActiveRoot(y)', reg'[x].issue = reg'[y].issue
      PROVE  x = y
  <2> SUFFICES ASSUME x # y PROVE FALSE
    OBVIOUS
  <2>1. reg'[y] = reg[y] /\ reg'[x].issue = i
    BY <1>1 DEF Claim, TypeOK, NewRun
  <2>2. Active(y)
    BY <1>1, <2>1 DEF ActiveRoot, Active
  <2> QED BY <1>1, <2>1, <2>2 DEF Claim, active_issue_ids
<1>2. CASE ActiveRoot(r) /\ reg'[r].issue = reg[r].issue
  <2>1. CASE ActiveRoot(s) /\ reg'[s].issue = reg[s].issue
    BY <1>2, <2>1 DEF OneRunPerIssue
  <2> QED BY <1>1, <2>1, OnlyClaimClaims
<1> QED BY <1>1, <1>2, OnlyClaimClaims

\* Whatever crashes, failed calls, sweeps, children and late syncs come in
\* between, claim() gives an issue to one run at a time.
THEOREM OneRunPerIssueHolds == Spec => []OneRunPerIssue
<1>1. Init => OneRunPerIssue
  BY NewRunType DEF Init, OneRunPerIssue, ActiveRoot, Active, NewRun
<1> QED BY <1>1, TypeCorrect, OneRunPerIssueStep, PTL DEF Spec

-----------------------------------------------------------------------------
(* The worker ceiling *)

\* Only finitely many issues ever have a run: claim() adds one at a time.
KnownIssues  == {reg[r].issue : r \in {x \in RunId : Present(x)}}
OwnedIssues  == {reg[r].issue : r \in {x \in RunId : ActiveRoot(x)}}
CeilingInv   == IsFiniteSet(KnownIssues) /\ Cardinality(OwnedIssues) <= MaxWorkers

\* A step adds at most one issue to those that have a run.
LEMMA OneIssueMore ==
  ASSUME TypeOK, [Next]_vars
  PROVE  \E i : KnownIssues' \subseteq KnownIssues \cup {i}
<1> USE DEF Present
<1>0. reg \in [RunId -> Run]
  BY DEF TypeOK
<1>s. ASSUME NEW i, \A r \in RunId : Present(r)' => reg'[r].issue \in KnownIssues \cup {i}
      PROVE  KnownIssues' \subseteq KnownIssues \cup {i}
  <2> DEFINE known == KnownIssues \cup {i}
  <2>1. \A r \in RunId : Present(r)' => reg'[r].issue \in known
    BY <1>s
  <2> HIDE DEF known
  <2>2. KnownIssues' \subseteq known
    BY <2>1 DEF KnownIssues
  <2> QED BY <2>2 DEF known
<1>1. ASSUME NEW q \in RunId, NEW i \in Issue, NEW k \in Kinds \ {"mutating"}, Claim(q, i, k)
      PROVE  \A r \in RunId : Present(r)' => reg'[r].issue \in KnownIssues \cup {i}
  BY <1>0, <1>1 DEF Claim, NewRun, KnownIssues
<1>2. ASSUME \A r \in RunId : Present(r)' => Present(r) /\ reg'[r].issue = reg[r].issue
      PROVE  \A r \in RunId : Present(r)' => reg'[r].issue \in KnownIssues
  BY <1>2 DEF KnownIssues
<1>3. ASSUME NEW q \in RunId, NEW limit \in Limits, NEW m \in BOOLEAN, RecordMandate(q, limit, m)
      PROVE  \A r \in RunId : Present(r)' => Present(r) /\ reg'[r].issue = reg[r].issue
  BY <1>0, <1>3 DEF RecordMandate, Run
<1>4. ASSUME NEW q \in RunId, Heartbeat(q)
      PROVE  \A r \in RunId : Present(r)' => Present(r) /\ reg'[r].issue = reg[r].issue
  BY <1>0, <1>4 DEF Heartbeat, Run
<1>5. ASSUME NEW p \in RunId, NEW c \in RunId, SpawnChild(p, c)
      PROVE  \A r \in RunId : Present(r)' => reg'[r].issue \in KnownIssues
  BY <1>0, <1>5 DEF SpawnChild, NewRun, KnownIssues
<1>6. ASSUME NEW t \in Thread, NEW q \in RunId, NEW s \in Terminal, Settle(t, q, s)
      PROVE  \A r \in RunId : Present(r)' => Present(r) /\ reg'[r].issue = reg[r].issue
  BY <1>0, <1>6 DEF Settle, Active, Run
<1>7. ASSUME NEW t \in Thread, NEW q \in RunId, TakeSync(t, q)
      PROVE  \A r \in RunId : Present(r)' => Present(r) /\ reg'[r].issue = reg[r].issue
  BY <1>0, <1>7 DEF TakeSync, Run
<1>8. ASSUME NEW t \in Thread, SyncRecord(t) \/ SyncFinish(t)
      PROVE  \A r \in RunId : Present(r)' => Present(r) /\ reg'[r].issue = reg[r].issue
  BY <1>0, <1>8 DEF SyncRecord, SyncFinish, Run
<1>9. ASSUME Tick
      PROVE  \A r \in RunId : Present(r)' => Present(r) /\ reg'[r].issue = reg[r].issue
  BY <1>0, <1>9 DEF Tick, Run
<1>10. UNCHANGED reg => \A r \in RunId : Present(r)' => Present(r) /\ reg'[r].issue = reg[r].issue
  OBVIOUS
<1>11. CASE \E q \in RunId, i \in Issue, k \in Kinds \ {"mutating"} : Claim(q, i, k)
  BY <1>1, <1>11, <1>s
<1>12. CASE \A r \in RunId : Present(r)' => reg'[r].issue \in KnownIssues
  BY <1>12, <1>s
<1>13. CASE \A r \in RunId : Present(r)' => Present(r) /\ reg'[r].issue = reg[r].issue
  BY <1>2, <1>12, <1>13
<1> QED
  BY <1>3, <1>4, <1>5, <1>6, <1>7, <1>8, <1>9, <1>10, <1>11, <1>12, <1>13, RegistrySteps

\* claim() checks the ceiling against every active issue, children's included,
\* and nothing else adds an issue: no step takes the dispatcher past it.
LEMMA CeilingStep == TypeOK /\ CeilingInv /\ [Next]_vars => CeilingInv'
<1> SUFFICES ASSUME TypeOK, CeilingInv, [Next]_vars PROVE CeilingInv'
  OBVIOUS
<1>1. PICK i : KnownIssues' \subseteq KnownIssues \cup {i}
  BY OneIssueMore
<1>2. IsFiniteSet(KnownIssues')
  BY <1>1, FS_AddElement, FS_Subset DEF CeilingInv
<1>3. active_issue_ids \subseteq KnownIssues /\ OwnedIssues \subseteq active_issue_ids
  BY DEF active_issue_ids, KnownIssues, OwnedIssues, ActiveRoot, Active, Present
<1>4. IsFiniteSet(active_issue_ids) /\ IsFiniteSet(OwnedIssues)
  BY <1>3, FS_Subset DEF CeilingInv
<1>5. Cardinality(OwnedIssues) \in Nat /\ Cardinality(OwnedIssues) <= Cardinality(active_issue_ids)
      /\ Cardinality(active_issue_ids) \in Nat
  BY <1>3, <1>4, FS_Subset, FS_CardinalityType
<1>6. Cardinality(OwnedIssues') <= MaxWorkers
  <2>1. CASE \E r \in RunId, j \in Issue, k \in Kinds : Claim(r, j, k)
    <3>1. PICK r \in RunId, j \in Issue, k \in Kinds : Claim(r, j, k)
      BY <2>1
    <3>2. OwnedIssues' \subseteq OwnedIssues \cup {j}
      <4>1. \A x \in RunId : x # r => reg'[x] = reg[x]
        BY <3>1 DEF Claim, TypeOK
      <4>2. reg'[r].issue = j
        BY <3>1 DEF Claim, TypeOK, NewRun
      <4> QED BY <4>1, <4>2 DEF OwnedIssues, ActiveRoot, Active, Root
    <3>3. IsFiniteSet(OwnedIssues \cup {j}) /\ Cardinality(OwnedIssues \cup {j}) <= Cardinality(OwnedIssues) + 1
      <4> DEFINE S == OwnedIssues
                 m == Cardinality(S)
      <4>1. IsFiniteSet(S) /\ m \in Nat
        BY <1>4, <1>5
      <4> HIDE DEF S
      <4>2. IsFiniteSet(S \cup {j}) /\ Cardinality(S \cup {j}) = IF j \in S THEN m ELSE m + 1
        BY <4>1, FS_AddElement
      <4> HIDE DEF m
      <4>3. Cardinality(S \cup {j}) <= m + 1
        BY <4>1, <4>2
      <4> QED BY <4>2, <4>3 DEF S, m
    <3>4. Cardinality(active_issue_ids) < MaxWorkers
      BY <3>1 DEF Claim
    <3>5. Cardinality(OwnedIssues \cup {j}) \in Nat
      BY <3>3, FS_CardinalityType
    <3>6. Cardinality(OwnedIssues') \in Nat /\ Cardinality(OwnedIssues') <= Cardinality(OwnedIssues \cup {j})
      BY <3>2, <3>3, FS_Subset, FS_CardinalityType
    <3> QED BY <1>5, <3>3, <3>4, <3>5, <3>6
  <2>2. CASE ~\E r \in RunId, j \in Issue, k \in Kinds : Claim(r, j, k)
    <3>1. \A r \in RunId : ActiveRoot(r)' => ActiveRoot(r) /\ reg'[r].issue = reg[r].issue
      BY <2>2, OnlyClaimClaims
    <3>2. OwnedIssues' \subseteq OwnedIssues
      BY <3>1 DEF OwnedIssues, ActiveRoot, Active, Root
    <3>3. Cardinality(OwnedIssues') \in Nat /\ Cardinality(OwnedIssues') <= Cardinality(OwnedIssues)
      BY <1>4, <3>2, FS_Subset, FS_CardinalityType
    <3> QED BY <1>5, <3>3 DEF CeilingInv
  <2> QED BY <2>1, <2>2
<1> QED BY <1>2, <1>6 DEF CeilingInv

\* max_parallel_workers bounds the issues owned by runs, although
\* spawn_child() never looks at it.
THEOREM WithinCeilingHolds == Spec => []WithinCeiling
<1>1. Init => CeilingInv
  <2> SUFFICES ASSUME Init PROVE CeilingInv
    OBVIOUS
  <2>1. KnownIssues = {} /\ OwnedIssues = {}
    BY DEF Init, KnownIssues, OwnedIssues, ActiveRoot, Active, Present, NewRun
  <2> QED BY <2>1, FS_EmptySet DEF CeilingInv
<1>2. CeilingInv => WithinCeiling
  BY DEF CeilingInv, OwnedIssues, WithinCeiling
<1> QED BY <1>1, <1>2, TypeCorrect, CeilingStep, PTL DEF Spec

-----------------------------------------------------------------------------
(* Reports and submissions *)

\* What a thread in _sync_github() has already done for its run.
Reporting(t) ==
  LET r == thr[t].run IN
  thr[t].at # "idle" =>
    /\ Root(r) /\ Settled(r)
    /\ thr[t].at = "swap" => reg[r].status # "succeeded"
    /\ thr[t].at \in {"submit", "record"} => reg[r].status = "succeeded"
    /\ thr[t].at = "record" => r \in submitted
    /\ thr[t].at \in {"comment", "finish"} /\ reg[r].status = "succeeded" => r \in submitted
    /\ thr[t].at = "finish" => r \in posted

\* A gated success has its evidence, unless the gate came too late for it.
Accounted(r) ==
  reg[r].status = "succeeded" /\ reg[r].kind # "plain" =>
    reg[r].evidence \/ (reg[r].kind = "mutating" /\ r \in unguarded)

\* What the durable records say of one run.
Recorded(r) ==
  /\ reg[r].synced => Root(r) /\ Settled(r) /\ r \in posted
                       /\ (reg[r].status = "succeeded" => r \in submitted)
  /\ r \in submitted => Root(r) /\ reg[r].status = "succeeded"
  /\ Accounted(r)

ReportInv == (\A t \in Thread : Reporting(t)) /\ (\A r \in RunId : Recorded(r))

\* Submissions and comments are never taken back, nor is a missed gate.
LEMMA ReportsGrow ==
  ASSUME TypeOK, [Next]_vars
  PROVE  submitted \subseteq submitted' /\ posted \subseteq posted' /\ unguarded \subseteq unguarded'
<1>1. CASE Launching
  BY <1>1 DEF Launching, Claim, ClaimSwap, ClaimComment, ClaimFails, RecordMandate, StartWorker,
              Work, Heartbeat, SpawnChild
<1>2. CASE Completing
  BY <1>2 DEF Completing, SweepSnapshot, Submit, WorkerCompletes, FailLaunch, SweepComplete
<1>3. CASE Syncing
  BY <1>3 DEF Syncing, SyncStep, SyncFails, Resync, SyncClaim, SyncSwap, SyncSubmit, SyncRecord,
              SyncComment, SyncFinish
<1>4. CASE Environment
  BY <1>4 DEF Environment, Crash, Tick, OperatorReady
<1> QED BY <1>1, <1>2, <1>3, <1>4 DEF Next, vars

\* The steps that move a thread.
LEMMA ThreadSteps ==
  ASSUME TypeOK, [Next]_vars, NEW t \in Thread, thr'[t].at # "idle"
  PROVE  \/ ~Tick /\ thr'[t] = thr[t]
         \/ Tick /\ thr'[t].at = thr[t].at /\ thr'[t].run = thr[t].run
         \/ \E r \in RunId, s \in Terminal : Settle(t, r, s) /\ Root(r) /\ thr'[t] = At("claim", r)
         \/ SyncClaim(t) /\ thr[t].run \in RunId
         \/ \E r \in RunId : Resync(t, r)
         \/ SyncSwap(t) \/ SyncSubmit(t) \/ SyncRecord(t) \/ SyncComment(t)
<1> DEFINE Same == \/ ~Tick /\ thr'[t] = thr[t]
                   \/ Tick /\ thr'[t].at = thr[t].at /\ thr'[t].run = thr[t].run
<1>0. thr \in [Thread -> ThreadState] /\ (thr[t].at # "idle" => thr[t].run \in RunId)
  BY DEF TypeOK, ThreadState, Busy, Idle, At
<1>1. thr'[t] = thr[t] => Same
  OBVIOUS
<1>2. CASE Launching
  BY <1>1, <1>2 DEF Launching, Claim, ClaimSwap, ClaimComment, ClaimFails, RecordMandate,
                    StartWorker, Work, Heartbeat, SpawnChild
<1>3. ASSUME NEW u \in Thread, NEW r \in RunId, NEW s \in Terminal, Settle(u, r, s)
      PROVE  Same \/ (Settle(t, r, s) /\ Root(r) /\ thr'[t] = At("claim", r))
  <2>1. CASE ~Root(r)
    BY <1>1, <1>3, <2>1 DEF Settle
  <2>2. CASE Root(r)
    BY <1>0, <1>3, <2>2 DEF Settle
  <2> QED BY <2>1, <2>2
<1>4. CASE Completing
  <2>1. "blocked" \in Terminal /\ "timed_out" \in Terminal
    BY DEF Terminal, Failing
  <2> QED BY <1>1, <1>3, <1>4, <2>1
        DEF Completing, SweepSnapshot, Submit, WorkerCompletes, FailLaunch, SweepComplete, Completes
<1>5. ASSUME NEW u \in Thread, u # t, SyncStep(u) \/ SyncFails(u) \/ \E r \in RunId : Resync(u, r)
      PROVE  Same
  BY <1>0, <1>5 DEF SyncStep, SyncFails, Resync, TakeSync, Goto, Return, SyncClaim, SyncSwap,
                    SyncSubmit, SyncRecord, SyncComment, SyncFinish
<1>6. ~SyncFails(t) /\ ~SyncFinish(t)
  BY <1>0 DEF SyncFails, SyncFinish, Return, Idle, At
<1>7. CASE Syncing
  <2>1. SyncClaim(t) => thr[t].run \in RunId
    BY <1>0 DEF SyncClaim
  <2> QED BY <1>5, <1>6, <1>7, <2>1 DEF Syncing, SyncStep
<1>8. CASE Crash
  BY <1>8 DEF Crash, Idle, At
<1>9. CASE Tick
  BY <1>9 DEF Tick
<1>10. CASE \E i \in Issue : OperatorReady(i)
  BY <1>1, <1>10 DEF OperatorReady
<1> QED BY <1>1, <1>2, <1>4, <1>7, <1>8, <1>9, <1>10 DEF Next, Environment, vars

\* _sync_github() keeps its books: what a thread is about to record is true.
LEMMA ReportingStep ==
  ASSUME TypeOK, ReportInv, [Next]_vars, NEW t \in Thread
  PROVE  Reporting(t)'
<1> SUFFICES ASSUME thr'[t].at # "idle" PROVE Reporting(t)'
  BY DEF Reporting
<1>r. PICK r : r = thr[t].run
  OBVIOUS
<1> USE <1>r
<1>0. thr \in [Thread -> ThreadState] /\ (thr[t].at # "idle" => thr[t] \in Busy /\ r \in RunId)
  BY DEF TypeOK, ThreadState, Busy, Idle, At
<1>1. thr[t].at # "idle" => Root(r) /\ Settled(r)
  BY DEF ReportInv, Reporting
<1>2. ASSUME NEW q \in RunId, Root(q), Settled(q)
      PROVE  Root(q)' /\ Settled(q)' /\ reg'[q].status = reg[q].status
  BY <1>2, SettledRootsKept DEF Kept, Root, Settled
<1>3. submitted \subseteq submitted' /\ posted \subseteq posted'
  BY ReportsGrow
<1>4. CASE thr'[t].at = thr[t].at /\ thr'[t].run = r
  BY <1>0, <1>1, <1>2, <1>3, <1>4 DEF ReportInv, Reporting, Root, Settled
<1>5. ASSUME NEW q \in RunId, NEW s \in Terminal, Settle(t, q, s), Root(q), thr'[t] = At("claim", q)
      PROVE  Reporting(t)'
  <2>1. reg'[q].status \in Terminal /\ reg'[q].parent = NoRun
    BY <1>5, GateType DEF Settle, TypeOK, Run, Root
  <2> QED BY <1>5, <2>1 DEF Reporting, At, Root, Settled
<1>6. ASSUME NEW q \in RunId, TakeSync(t, q), Root(q), Settled(q)
      PROVE  Reporting(t)'
  <2>1. thr'[t] = At(IF reg[q].status = "succeeded" THEN "submit" ELSE "swap", q)
    BY <1>0, <1>6 DEF TakeSync, Return, Idle, At
  <2>2. Root(q)' /\ Settled(q)' /\ reg'[q].status = reg[q].status
    BY <1>2, <1>6
  <2> QED BY <2>1, <2>2 DEF Reporting, At, Root, Settled
<1>7. CASE SyncClaim(t) /\ r \in RunId
  BY <1>1, <1>6, <1>7 DEF SyncClaim
<1>8. ASSUME NEW q \in RunId, Resync(t, q)
      PROVE  Reporting(t)'
  BY <1>6, <1>8 DEF Resync
<1>9. ASSUME NEW point \in Holding, Goto(t, point), thr[t].at # "idle"
      PROVE  thr'[t].at = point /\ thr'[t].run = r
  BY <1>0, <1>9 DEF Goto, Busy
<1>10. CASE SyncSwap(t)
  <2>1. thr'[t].at = "comment" /\ thr'[t].run = r
    BY <1>9, <1>10 DEF SyncSwap, Holding
  <2> QED BY <1>0, <1>1, <1>2, <1>10, <2>1 DEF SyncSwap, ReportInv, Reporting, Root, Settled
<1>11. CASE SyncSubmit(t)
  <2>1. thr'[t].at = "record" /\ thr'[t].run = r
    BY <1>9, <1>11 DEF SyncSubmit, Holding
  <2>2. r \in RunId /\ Root(r) /\ Settled(r) /\ reg[r].status = "succeeded"
    BY <1>0, <1>11 DEF SyncSubmit, ReportInv, Reporting
  <2>3. Root(r)' /\ Settled(r)' /\ reg'[r].status = "succeeded"
    BY <1>2, <2>2
  <2>4. r \in submitted'
    BY <1>11 DEF SyncSubmit
  <2> QED BY <2>1, <2>3, <2>4 DEF Reporting, Root, Settled
<1>12. CASE SyncRecord(t)
  <2>1. thr'[t].at = "comment" /\ thr'[t].run = r
    BY <1>9, <1>12 DEF SyncRecord, Holding
  <2>2. r \in RunId /\ Root(r) /\ Settled(r) /\ r \in submitted'
    BY <1>0, <1>1, <1>3, <1>12 DEF SyncRecord, ReportInv, Reporting, Recorded
  <2>3. Root(r)' /\ Settled(r)'
    BY <1>2, <2>2
  <2> QED BY <2>1, <2>2, <2>3 DEF Reporting, Root, Settled
<1>13. CASE SyncComment(t)
  <2>1. thr'[t].at = "finish" /\ thr'[t].run = r
    BY <1>9, <1>13 DEF SyncComment, Holding
  <2>2. r \in RunId /\ Root(r) /\ Settled(r) /\ r \in posted'
        /\ (reg[r].status = "succeeded" => r \in submitted')
    BY <1>0, <1>1, <1>3, <1>13 DEF SyncComment, ReportInv, Reporting
  <2>3. Root(r)' /\ Settled(r)' /\ reg'[r].status = reg[r].status
    BY <1>2, <2>2
  <2> QED BY <2>1, <2>2, <2>3 DEF Reporting, Root, Settled
<1> QED BY <1>4, <1>5, <1>7, <1>8, <1>10, <1>11, <1>12, <1>13, ThreadSteps

\* The evidence of a gated success, and where gh_synced comes from.
LEMMA RegistryRecords ==
  ASSUME TypeOK, ReportInv, [Next]_vars, NEW r \in RunId
  PROVE  /\ Accounted(r)'
         /\ reg'[r].synced => reg[r].synced \/ \E t \in Thread : SyncFinish(t) /\ thr[t].run = r
<1> DEFINE Goal ==
      /\ Accounted(r)'
      /\ reg'[r].synced => reg[r].synced \/ \E t \in Thread : SyncFinish(t) /\ thr[t].run = r
<1>0. reg[r] \in Run /\ reg \in [RunId -> Run]
      /\ Accounted(r) /\ (r \in unguarded => r \in unguarded')
  BY ReportsGrow DEF TypeOK, ReportInv, Recorded
<1>1. ASSUME NEW q \in RunId, NEW i \in Issue, NEW k \in Kinds \ {"mutating"}, Claim(q, i, k)
      PROVE  Goal
  BY <1>0, <1>1 DEF Claim, NewRun, Accounted
<1>2. UNCHANGED reg => Goal
  BY <1>0 DEF Accounted
<1>3. ASSUME NEW q \in RunId, NEW limit \in Limits, NEW m \in BOOLEAN, RecordMandate(q, limit, m)
      PROVE  Goal
  BY <1>0, <1>3 DEF RecordMandate, Run, Active, Accounted
<1>4. ASSUME NEW q \in RunId, Heartbeat(q)
      PROVE  Goal
  BY <1>0, <1>4 DEF Heartbeat, Run, Accounted
<1>5. ASSUME NEW p \in RunId, NEW c \in RunId, SpawnChild(p, c)
      PROVE  Goal
  BY <1>0, <1>5 DEF SpawnChild, NewRun, Accounted
<1>6. ASSUME NEW t \in Thread, NEW q \in RunId, NEW s \in Terminal, Settle(t, q, s)
      PROVE  Goal
  <2>1. CASE q # r
    BY <1>0, <1>6, <2>1 DEF Settle, Accounted
  <2>2. CASE q = r
    <3>1. PICK o \in Terminal, e \in BOOLEAN : Settlement(r, o, e)
      BY <1>6, <2>2, SettleWrites
    <3>2. reg'[r].synced = reg[r].synced /\ reg'[r].kind = reg[r].kind
          /\ reg'[r].status = o /\ reg'[r].evidence = e
      BY <1>0, <3>1 DEF Settlement, Run
    <3> QED BY <3>1, <3>2 DEF Settlement, Accounted
  <2> QED BY <2>1, <2>2
<1>7. ASSUME NEW t \in Thread, NEW q \in RunId, TakeSync(t, q)
      PROVE  Goal
  BY <1>0, <1>7 DEF TakeSync, Run, Accounted
<1>8. ASSUME NEW t \in Thread, SyncRecord(t) \/ SyncFinish(t), thr[t].run \in RunId
      PROVE  Goal
  <2>1. CASE thr[t].run # r
    BY <1>0, <1>8, <2>1 DEF SyncRecord, SyncFinish, Accounted
  <2>2. CASE thr[t].run = r
    <3>1. /\ reg'[r].status = reg[r].status /\ reg'[r].kind = reg[r].kind
          /\ reg'[r].evidence = reg[r].evidence
      BY <1>0, <1>8, <2>2 DEF SyncRecord, SyncFinish, Run
    <3>2. SyncRecord(t) => reg'[r].synced = reg[r].synced
      BY <1>0, <2>2 DEF SyncRecord, Run
    <3> QED BY <1>0, <1>8, <2>2, <3>1, <3>2 DEF Accounted
  <2> QED BY <2>1, <2>2
<1>9. ASSUME Tick
      PROVE  Goal
  BY <1>0, <1>9 DEF Tick, Run, Accounted
<1> QED BY <1>1, <1>2, <1>3, <1>4, <1>5, <1>6, <1>7, <1>8, <1>9, RegistrySteps

\* A submission is written by the thread that syncs the run, and by no other step.
LEMMA SubmissionSteps ==
  ASSUME TypeOK, [Next]_vars, NEW r \in submitted', r \notin submitted
  PROVE  \E t \in Thread : SyncSubmit(t) /\ thr[t].run = r
<1>1. ~UNCHANGED submitted
  OBVIOUS
<1>2. ~Launching
  BY <1>1 DEF Launching, Claim, ClaimSwap, ClaimComment, ClaimFails, RecordMandate, StartWorker,
              Work, Heartbeat, SpawnChild
<1>3. ~Completing
  BY <1>1 DEF Completing, SweepSnapshot, Submit, WorkerCompletes, FailLaunch, SweepComplete
<1>4. CASE Syncing
  BY <1>1, <1>4 DEF Syncing, SyncStep, SyncFails, Resync, SyncClaim, SyncSwap, SyncSubmit, SyncRecord,
              SyncComment, SyncFinish
<1>5. ~Environment
  BY <1>1 DEF Environment, Crash, Tick, OperatorReady
<1> QED BY <1>1, <1>2, <1>3, <1>4, <1>5 DEF Next, vars

\* What the registry and the session store say of a run stays true.
LEMMA RecordedStep ==
  ASSUME TypeOK, ReportInv, [Next]_vars, NEW r \in RunId
  PROVE  Recorded(r)'
<1>1. submitted \subseteq submitted' /\ posted \subseteq posted'
  BY ReportsGrow
<1>2. Root(r) /\ Settled(r) => Root(r)' /\ Settled(r)' /\ reg'[r].status = reg[r].status
  BY SettledRootsKept DEF Kept, Root, Settled
<1>3. Recorded(r)
  BY DEF ReportInv
<1>4. reg[r].status = "succeeded" => Settled(r)
  BY DEF Settled, Terminal
<1>5. ASSUME reg'[r].synced
      PROVE  Root(r)' /\ Settled(r)' /\ r \in posted' /\ (reg'[r].status = "succeeded" => r \in submitted')
  <2>1. CASE reg[r].synced
    BY <1>1, <1>2, <1>3, <2>1 DEF Recorded
  <2>2. ASSUME NEW t \in Thread, SyncFinish(t), thr[t].run = r
        PROVE  Root(r) /\ Settled(r) /\ r \in posted /\ (reg[r].status = "succeeded" => r \in submitted)
    BY <2>2 DEF SyncFinish, ReportInv, Reporting
  <2> QED BY <1>1, <1>2, <1>5, <2>1, <2>2, RegistryRecords
<1>6. ASSUME r \in submitted'
      PROVE  Root(r)' /\ reg'[r].status = "succeeded"
  <2>1. CASE r \in submitted
    BY <1>2, <1>3, <1>4, <2>1 DEF Recorded
  <2>2. ASSUME NEW t \in Thread, SyncSubmit(t), thr[t].run = r
        PROVE  Root(r) /\ Settled(r) /\ reg[r].status = "succeeded"
    BY <2>2 DEF SyncSubmit, ReportInv, Reporting
  <2> QED BY <1>2, <1>6, <2>1, <2>2, SubmissionSteps
<1> QED BY <1>5, <1>6, RegistryRecords DEF Recorded, Root, Settled

\* Every report _sync_github() makes, and every stage of making one, is true
\* in every reachable state.
LEMMA ReportInvHolds == Spec => []ReportInv
<1>1. Init => ReportInv
  BY DEF Init, ReportInv, Reporting, Recorded, Accounted, Idle, At, NewRun
<1>2. TypeOK /\ ReportInv /\ [Next]_vars => ReportInv'
  <2> SUFFICES ASSUME TypeOK, ReportInv, [Next]_vars PROVE ReportInv'
    OBVIOUS
  <2>1. \A t \in Thread : Reporting(t)'
    BY ReportingStep
  <2>2. \A r \in RunId : Recorded(r)'
    BY RecordedStep
  <2> QED BY <2>1, <2>2 DEF ReportInv
<1> QED BY <1>1, <1>2, TypeCorrect, PTL DEF Spec

\* A report is never a lie (_sync_github: gh_synced is written last) and only
\* accepted runs are submitted for review (_gate_commit, _submit_review).
THEOREM ReportsAreTrue == Spec => [](SyncedIsReported /\ SubmittedIsAccepted)
<1>1. TypeOK /\ ReportInv => SyncedIsReported /\ SubmittedIsAccepted
  BY DEF ReportInv, Recorded, Accounted, SyncedIsReported, SubmittedIsAccepted, TypeOK
<1> QED BY <1>1, TypeCorrect, ReportInvHolds, PTL

\* A run submitted for review had succeeded, and with the commit or the report
\* the evidence gate asks of it; the one exception is a run that submit()
\* settled in the middle of its launch, before it was known to be mutating.
THEOREM SubmittedIsAcceptedHolds == Spec => []SubmittedIsAccepted
BY ReportsAreTrue, PTL

-----------------------------------------------------------------------------
(* The sync claim *)

\* A holder has held its claim at least as long as the claim is old.
ClaimAgeInv ==
  \A t \in Thread : thr[t].at \in Holding => thr[t].held >= reg[thr[t].run].syncAge

\* A thread that holds a sync claim held it before, or takes a stale one now.
LEMMA HolderSteps ==
  ASSUME TypeOK, ReportInv, [Next]_vars, NEW t \in Thread, thr'[t].at \in Holding
  PROVE  \/ /\ thr[t].at \in Holding /\ thr'[t].run = thr[t].run
            /\ ~Tick => thr'[t].held = thr[t].held
            /\ Tick  => thr'[t].held = Older(thr[t].held, SyncLease + 1)
         \/ \E q \in RunId : /\ Root(q) /\ Settled(q) /\ gh_sync_claim_stale(q)
                              /\ thr'[t].run = q /\ thr'[t].held = 0
                              /\ reg' = [reg EXCEPT ![q].syncAge = 0] /\ ~reg[q].synced
                              /\ \A u \in Thread : u # t =>
                                   /\ thr'[u] = thr[u]
                                   /\ thr[u].run = q /\ thr[u].at \in Holding => overrun'
<1> DEFINE Took(q) == /\ Root(q) /\ Settled(q) /\ gh_sync_claim_stale(q)
                      /\ thr'[t].run = q /\ thr'[t].held = 0
                      /\ reg' = [reg EXCEPT ![q].syncAge = 0] /\ ~reg[q].synced
                      /\ \A u \in Thread : u # t =>
                           /\ thr'[u] = thr[u]
                           /\ thr[u].run = q /\ thr[u].at \in Holding => overrun'
<1>0. thr \in [Thread -> ThreadState] /\ (thr[t].at # "idle" => thr[t] \in Busy)
  BY DEF TypeOK, ThreadState, Busy, Idle, At
<1>1. thr'[t].at # "idle" /\ thr'[t].at # "claim"
  BY DEF Holding
<1>2. ASSUME NEW q \in RunId, TakeSync(t, q), Root(q), Settled(q)
      PROVE  Took(q)
  <2>1. ~(reg[q].synced \/ ~gh_sync_claim_stale(q))
    BY <1>0, <1>1, <1>2 DEF TakeSync, Return, Idle, At
  <2>2. overrun' = (overrun \/ \E u \in Thread \ {t} : thr[u].run = q /\ thr[u].at \in Holding)
    BY <1>2, <2>1, Zenon DEF TakeSync
  <2>3. \A u \in Thread : u # t /\ thr[u].run = q /\ thr[u].at \in Holding => overrun'
    BY <2>2, Zenon
  <2> QED BY <1>0, <1>2, <2>1, <2>3 DEF TakeSync, At
<1>3. CASE SyncClaim(t) /\ thr[t].run \in RunId
  BY <1>2, <1>3 DEF SyncClaim, ReportInv, Reporting
<1>4. CASE \E r \in RunId : Resync(t, r)
  BY <1>2, <1>4 DEF Resync
<1>5. CASE Tick
  BY <1>0, <1>5 DEF Tick
<1>6. CASE SyncSwap(t) \/ SyncSubmit(t) \/ SyncRecord(t) \/ SyncComment(t)
  <2>1. PICK point : Goto(t, point) /\ thr[t].at # "idle" /\ point \in Holding /\ point # thr[t].at
                     /\ thr[t].at \in Holding
    BY <1>6 DEF SyncSwap, SyncSubmit, SyncRecord, SyncComment, Holding
  <2>2. thr'[t].at = point /\ thr'[t].run = thr[t].run /\ thr'[t].held = thr[t].held
    BY <1>0, <2>1 DEF Goto, Busy
  <2>3. ASSUME Tick PROVE thr'[t].at = thr[t].at
    BY <2>3 DEF Tick
  <2> QED BY <2>1, <2>2, <2>3
<1>7. CASE ~Tick /\ thr'[t] = thr[t]
  BY <1>7
<1>8. ASSUME NEW r \in RunId, NEW s \in Terminal, Settle(t, r, s), thr'[t] = At("claim", r)
      PROVE  FALSE
  BY <1>1, <1>8 DEF At
<1> QED BY <1>1, <1>3, <1>4, <1>5, <1>6, <1>7, <1>8, ThreadSteps

\* No step but the clock makes the sync claim of a settled run older.
LEMMA ClaimAgeSteps ==
  ASSUME TypeOK, [Next]_vars, NEW r \in RunId, Root(r), Settled(r)
  PROVE  \/ reg'[r].syncAge = reg[r].syncAge
         \/ reg'[r].syncAge = 0
         \/ Tick /\ reg'[r].syncAge = Older(reg[r].syncAge, SyncLease + 1)
<1>0. reg[r] \in Run /\ reg \in [RunId -> Run] /\ ~Active(r) /\ Present(r)
  BY DEF TypeOK, Settled, Active, Present, Terminal, Failing
<1>1. ASSUME NEW q \in RunId, NEW i \in Issue, NEW k \in Kinds \ {"mutating"}, Claim(q, i, k)
      PROVE  reg'[r] = reg[r]
  BY <1>0, <1>1 DEF Claim
<1>2. ASSUME NEW q \in RunId, NEW limit \in Limits, NEW m \in BOOLEAN, RecordMandate(q, limit, m)
      PROVE  reg'[r].syncAge = reg[r].syncAge
  BY <1>0, <1>2 DEF RecordMandate, Run
<1>3. ASSUME NEW q \in RunId, Heartbeat(q)
      PROVE  reg'[r] = reg[r]
  BY <1>0, <1>3 DEF Heartbeat
<1>4. ASSUME NEW p \in RunId, NEW c \in RunId, SpawnChild(p, c)
      PROVE  reg'[r] = reg[r]
  BY <1>0, <1>4 DEF SpawnChild, Root
<1>5. ASSUME NEW t \in Thread, NEW q \in RunId, NEW s \in Terminal, Settle(t, q, s)
      PROVE  reg'[r] = reg[r]
  BY <1>0, <1>5 DEF Settle
<1>6. ASSUME NEW t \in Thread, NEW q \in RunId, TakeSync(t, q)
      PROVE  reg'[r].syncAge = reg[r].syncAge \/ reg'[r].syncAge = 0
  BY <1>0, <1>6 DEF TakeSync, Run
<1>7. ASSUME NEW t \in Thread, SyncRecord(t) \/ SyncFinish(t)
      PROVE  reg'[r].syncAge = reg[r].syncAge
  BY <1>0, <1>7 DEF SyncRecord, SyncFinish, Run
<1>8. ASSUME Tick
      PROVE  reg'[r].syncAge = Older(reg[r].syncAge, SyncLease + 1)
  BY <1>0, <1>8 DEF Tick, Run
<1> QED BY <1>1, <1>2, <1>3, <1>4, <1>5, <1>6, <1>7, <1>8, RegistrySteps

\* A thread in _sync_github() has held its sync claim at least as long as the
\* claim on the record is old, whoever renewed it meanwhile.
LEMMA ClaimAgeStep == TypeOK /\ ReportInv /\ ClaimAgeInv /\ [Next]_vars => ClaimAgeInv'
<1> SUFFICES ASSUME TypeOK, ReportInv, ClaimAgeInv, [Next]_vars,
                    NEW t \in Thread, thr'[t].at \in Holding
             PROVE  thr'[t].held >= reg'[thr'[t].run].syncAge
  BY DEF ClaimAgeInv
<1>0. reg \in [RunId -> Run] /\ thr \in [Thread -> ThreadState]
  BY DEF TypeOK
<1>1. CASE thr[t].at \in Holding /\ thr'[t].run = thr[t].run
           /\ (~Tick => thr'[t].held = thr[t].held)
           /\ (Tick => thr'[t].held = Older(thr[t].held, SyncLease + 1))
  <2>1. PICK r \in RunId : r = thr[t].run
    BY <1>0, <1>1 DEF ThreadState, Busy, Idle, At, Holding
  <2>2. Root(r) /\ Settled(r) /\ thr[t].held >= reg[r].syncAge
    BY <1>1, <2>1 DEF ReportInv, Reporting, ClaimAgeInv, Holding
  <2>3. thr[t].held \in 0..SyncLease + 1 /\ reg[r].syncAge \in 0..SyncLease + 1
    BY <1>0, <1>1, <2>1 DEF ThreadState, Busy, Idle, At, Holding, Run
  <2> QED BY <1>1, <2>1, <2>2, <2>3, ClaimAgeSteps DEF Older
<1>2. ASSUME NEW q \in RunId, thr'[t].run = q, thr'[t].held = 0, reg' = [reg EXCEPT ![q].syncAge = 0]
      PROVE  thr'[t].held >= reg'[thr'[t].run].syncAge
  BY <1>0, <1>2 DEF Run
<1> QED BY <1>1, <1>2, HolderSteps

\* No step lets a second thread into _sync_github() beside a fresh claim.
LEMMA ExclusionStep ==
  TypeOK /\ ReportInv /\ ClaimAgeInv /\ FreshClaimExcludes /\ [Next]_vars => FreshClaimExcludes'
<1> SUFFICES ASSUME TypeOK, ReportInv, ClaimAgeInv, FreshClaimExcludes, [Next]_vars,
                    NEW t \in Thread, NEW u \in Thread, t # u,
                    thr'[t].at \in Holding, thr'[u].at \in Holding, thr'[t].run = thr'[u].run
             PROVE  thr'[t].held > SyncLease \/ thr'[u].held > SyncLease
  BY DEF FreshClaimExcludes
<1> DEFINE Held(x) == thr[x].at \in Holding /\ thr'[x].run = thr[x].run
                      /\ (~Tick => thr'[x].held = thr[x].held)
                      /\ (Tick => thr'[x].held = Older(thr[x].held, SyncLease + 1))
           Took(x, q) == /\ gh_sync_claim_stale(q) /\ thr'[x].run = q
                         /\ \A y \in Thread : y # x => thr'[y] = thr[y]
<1>0. \A x \in Thread : thr[x].at \in Holding => thr[x].held \in 0..SyncLease + 1
  BY DEF TypeOK, ThreadState, Busy, Idle, At, Holding
<1>1. ASSUME NEW x \in Thread, thr'[x].at \in Holding
      PROVE  Held(x) \/ \E q \in RunId : Took(x, q)
  BY <1>1, HolderSteps
<1>2. CASE Held(t) /\ Held(u)
  <2>1. thr[t].held > SyncLease \/ thr[u].held > SyncLease
    BY <1>2 DEF FreshClaimExcludes
  <2> QED BY <1>0, <1>2, <2>1 DEF Older
<1>3. ASSUME NEW x \in Thread, NEW y \in Thread, x # y, NEW q \in RunId, Took(x, q),
             thr'[y].at \in Holding, thr'[y].run = q
      PROVE  thr'[y].held > SyncLease
  <2>1. thr[y].at \in Holding /\ thr[y].run = q /\ thr'[y].held = thr[y].held
    BY <1>3
  <2>2. thr[y].held >= reg[q].syncAge /\ reg[q].syncAge > SyncLease
    BY <1>3, <2>1 DEF ClaimAgeInv, gh_sync_claim_stale
  <2>3. reg[q].syncAge \in Nat
    BY DEF TypeOK, Run
  <2> QED BY <1>0, <2>1, <2>2, <2>3
<1> QED BY <1>1, <1>2, <1>3

\* A second thread gets past the claim of _sync_github() only when the first
\* has outstayed GH_SYNC_CLAIM_LEASE_SECONDS.
THEOREM FreshClaimExcludesHolds == Spec => []FreshClaimExcludes
<1>1. Init => ClaimAgeInv /\ FreshClaimExcludes
  BY DEF Init, ClaimAgeInv, FreshClaimExcludes, Holding, Idle, At
<1> QED BY <1>1, TypeCorrect, ReportInvHolds, ClaimAgeStep, ExclusionStep, PTL DEF Spec

-----------------------------------------------------------------------------
(* Labels *)

\* No call failed, no process died and no sync outlived its lease.
Calm == faults = 0 /\ crashes = 0 /\ ~overrun

\* _sync_github() has swapped the label of a run that did not succeed.
Moved(r) == reg[r].synced \/ \E t \in Thread : thr[t].run = r /\ thr[t].at \in {"comment", "finish"}

\* The runs whose issue is to say in-progress: a claim has got to its swap, and
\* no sync has swapped back.
Owns(r) ==
  /\ Present(r) /\ Root(r) /\ ~(claimer.at = "swap" /\ claimer.run = r)
  /\ Active(r) \/ reg[r].status = "succeeded" \/ ~Moved(r)

OneLabel   == \A i \in Issue : labels[i] \in {{"ready"}, {"in-progress"}, {"blocked"}}
OwnersShow == \A r \in RunId : Owns(r) => labels[reg[r].issue] = {"in-progress"}
OneOwner   == \A r, s \in RunId : Owns(r) /\ Owns(s) /\ reg[r].issue = reg[s].issue => r = s
ClaimOpen  ==
  /\ claimer.at # "idle" => ActiveRoot(claimer.run)
  /\ claimer.at = "swap" => labels[reg[claimer.run].issue] = {"ready"}
OneHolder  ==
  /\ \A t, u \in Thread : thr[t].at \in Holding /\ thr[u].at \in Holding
                          /\ thr[t].run = thr[u].run => t = u
  /\ \A t \in Thread : thr[t].at \in Holding => ~reg[thr[t].run].synced

LabelInv == OneLabel /\ OwnersShow /\ OneOwner /\ ClaimOpen /\ OneHolder

\* Faults, crashes and overruns are not forgotten.
LEMMA CalmSteps ==
  ASSUME TypeOK, [Next]_vars, Calm'
  PROVE  Calm /\ ~ClaimFails /\ ~Crash /\ \A t \in Thread : ~SyncFails(t)
<1>0. faults \in Nat /\ crashes \in Nat /\ overrun \in BOOLEAN
  BY DEF TypeOK
<1>1. ~ClaimFails /\ ~Crash /\ \A t \in Thread : ~SyncFails(t)
  BY <1>0 DEF Calm, ClaimFails, Crash, SyncFails, Fault
<1>2. CASE UNCHANGED <<faults, crashes, overrun>>
  BY <1>1, <1>2 DEF Calm
<1>3. ASSUME NEW t \in Thread, NEW r, TakeSync(t, r) PROVE overrun => overrun'
  BY <1>3 DEF TakeSync
<1>4. CASE \E t \in Thread : SyncClaim(t) \/ \E r \in RunId : Resync(t, r)
  BY <1>1, <1>3, <1>4 DEF Calm, SyncClaim, Resync
<1>5. CASE Launching
  BY <1>1, <1>2, <1>5 DEF Launching, Claim, ClaimSwap, ClaimComment, RecordMandate, StartWorker,
                         Work, Heartbeat, SpawnChild
<1>6. CASE Completing
  <2>1. ASSUME NEW t \in Thread, NEW r \in RunId, NEW s, Completes(t, r, s), UNCHANGED <<crashes, overrun>>
        PROVE  Calm
    BY <1>0, <2>1, SettleCost DEF Completes, Calm, TypeOK
  <2> QED BY <1>1, <1>2, <1>6, <2>1
        DEF Completing, SweepSnapshot, Submit, WorkerCompletes, FailLaunch, SweepComplete, Completes
<1>7. CASE Syncing
  BY <1>1, <1>2, <1>4, <1>7 DEF Syncing, SyncStep, SyncSwap, SyncSubmit, SyncRecord, SyncComment,
                               SyncFinish
<1>8. CASE Environment
  BY <1>1, <1>2, <1>8 DEF Environment, Tick, OperatorReady
<1> QED BY <1>2, <1>5, <1>6, <1>7, <1>8 DEF Next, vars

\* The steps that write a label.
LEMMA LabelSteps ==
  ASSUME TypeOK, [Next]_vars, Calm'
  PROVE  \/ UNCHANGED labels
         \/ ClaimSwap
         \/ \E t \in Thread : SyncSwap(t)
         \/ \E i \in Issue : OperatorReady(i)
<1>0. ~ClaimFails /\ ~Crash /\ \A t \in Thread : ~SyncFails(t)
  BY CalmSteps
<1>1. CASE Launching
  BY <1>0, <1>1 DEF Launching, Claim, ClaimComment, RecordMandate, StartWorker, Work, Heartbeat,
                   SpawnChild
<1>2. CASE Completing
  BY <1>2 DEF Completing, SweepSnapshot, Submit, WorkerCompletes, FailLaunch, SweepComplete
<1>3. CASE Syncing
  BY <1>0, <1>3 DEF Syncing, SyncStep, SyncClaim, Resync, SyncSubmit, SyncRecord, SyncComment,
                   SyncFinish
<1>4. CASE Environment
  BY <1>0, <1>4 DEF Environment, Tick
<1> QED BY <1>1, <1>2, <1>3, <1>4 DEF Next, vars

\* The steps that move the claim in progress.
LEMMA ClaimerSteps ==
  ASSUME TypeOK, [Next]_vars, Calm'
  PROVE  \/ claimer'.at = claimer.at /\ claimer'.run = claimer.run
         \/ claimer.at = "comment" /\ claimer'.at = "idle"
         \/ ClaimSwap /\ claimer'.at = "comment" /\ claimer'.run = claimer.run
         \/ \E r \in RunId, i \in Issue, k \in Kinds : Claim(r, i, k)
<1>0. ~ClaimFails /\ ~Crash /\ \A t \in Thread : ~SyncFails(t)
  BY CalmSteps
<1>1. CASE Launching
  <2>1. CASE ClaimSwap
    BY <2>1 DEF ClaimSwap
  <2>2. CASE ClaimComment
    BY <2>2 DEF ClaimComment, NoClaimer
  <2> QED BY <1>0, <1>1, <2>1, <2>2
        DEF Launching, RecordMandate, StartWorker, Work, Heartbeat, SpawnChild
<1>2. CASE Completing
  BY <1>2 DEF Completing, SweepSnapshot, Submit, WorkerCompletes, FailLaunch, SweepComplete
<1>3. CASE Syncing
  BY <1>0, <1>3 DEF Syncing, SyncStep, SyncClaim, Resync, SyncSwap, SyncSubmit, SyncRecord,
                   SyncComment, SyncFinish
<1>4. CASE Tick
  BY <1>4 DEF Tick
<1>5. CASE Environment
  BY <1>0, <1>4, <1>5 DEF Environment, OperatorReady
<1> QED BY <1>1, <1>2, <1>3, <1>5 DEF Next, vars

\* A root run comes from a claim, and keeps its issue.
LEMMA RootSteps ==
  ASSUME TypeOK, [Next]_vars, NEW r \in RunId, Present(r)', Root(r)'
  PROVE  \/ Present(r) /\ Root(r) /\ reg'[r].issue = reg[r].issue /\ (Active(r)' => Active(r))
         \/ \E i \in Issue, k \in Kinds : Claim(r, i, k)
<1> DEFINE Same == Present(r) /\ Root(r) /\ reg'[r].issue = reg[r].issue /\ (Active(r)' => Active(r))
<1> USE DEF Present, Root, Active
<1>0. reg[r] \in Run /\ reg \in [RunId -> Run] /\ Terminal \cap {"absent", "in_progress"} = {}
  BY DEF TypeOK, Terminal, Failing
<1>1. ASSUME NEW q \in RunId, NEW i \in Issue, NEW k \in Kinds \ {"mutating"}, Claim(q, i, k)
      PROVE  Same \/ q = r
  BY <1>0, <1>1 DEF Claim
<1>2. UNCHANGED reg => Same
  BY <1>0
<1>3. ASSUME NEW q \in RunId, NEW limit \in Limits, NEW m \in BOOLEAN, RecordMandate(q, limit, m)
      PROVE  Same
  BY <1>0, <1>3 DEF RecordMandate, Run
<1>4. ASSUME NEW q \in RunId, Heartbeat(q)
      PROVE  Same
  BY <1>0, <1>4 DEF Heartbeat, Run
<1>5. ASSUME NEW p \in RunId, NEW c \in RunId, SpawnChild(p, c)
      PROVE  Same
  BY <1>0, <1>5 DEF SpawnChild, NewRun
<1>6. ASSUME NEW t \in Thread, NEW q \in RunId, NEW s \in Terminal, Settle(t, q, s)
      PROVE  Same
  BY <1>0, <1>6, GateType DEF Settle
<1>7. ASSUME NEW t \in Thread, NEW q \in RunId, TakeSync(t, q)
      PROVE  Same
  BY <1>0, <1>7 DEF TakeSync, Run
<1>8. ASSUME NEW t \in Thread, SyncRecord(t) \/ SyncFinish(t)
      PROVE  Same
  BY <1>0, <1>8 DEF SyncRecord, SyncFinish, Run
<1>9. ASSUME Tick
      PROVE  Same
  BY <1>0, <1>9 DEF Tick, Run
<1> QED BY <1>1, <1>2, <1>3, <1>4, <1>5, <1>6, <1>7, <1>8, <1>9, RegistrySteps

\* While claim() holds the lock, every run keeps its status, parent and issue.
LEMMA LockedRegistry ==
  ASSUME TypeOK, [Next]_vars, ~LockFree, NEW r \in RunId
  PROVE  /\ reg'[r].status = reg[r].status /\ reg'[r].parent = reg[r].parent
         /\ reg'[r].issue = reg[r].issue
<1> DEFINE Same == /\ reg'[r].status = reg[r].status /\ reg'[r].parent = reg[r].parent
                   /\ reg'[r].issue = reg[r].issue
<1>0. reg[r] \in Run /\ reg \in [RunId -> Run]
  BY DEF TypeOK
<1>1. ASSUME NEW q \in RunId, NEW limit \in Limits, NEW m \in BOOLEAN, RecordMandate(q, limit, m)
      PROVE  Same
  BY <1>0, <1>1 DEF RecordMandate, Run
<1>2. ASSUME NEW t \in Thread, NEW q \in RunId, TakeSync(t, q)
      PROVE  Same
  BY <1>0, <1>2 DEF TakeSync, Run
<1>3. ASSUME Tick
      PROVE  Same
  BY <1>0, <1>3 DEF Tick, Run
<1> QED BY <1>1, <1>2, <1>3, RegistrySteps
      DEF Claim, Heartbeat, SpawnChild, Settle, SyncRecord, SyncFinish

\* What a sync has swapped stays swapped.
LEMMA MovedStays ==
  ASSUME TypeOK, [Next]_vars, Calm', NEW r \in RunId, Root(r), Settled(r), Moved(r)
  PROVE  Moved(r)'
<1>0. thr \in [Thread -> ThreadState] /\ reg \in [RunId -> Run]
  BY DEF TypeOK
<1>1. CASE reg[r].synced
  BY <1>1, SettledRootsKept DEF Kept, Moved
<1>2. CASE ~reg[r].synced
  <2>1. PICK t \in Thread : thr[t].run = r /\ thr[t].at \in {"comment", "finish"}
    BY <1>2 DEF Moved
  <2>2. thr'[t] = thr[t] => Moved(r)'
    BY <2>1 DEF Moved
  <2>3. ~ClaimFails /\ ~Crash /\ \A u \in Thread : ~SyncFails(u)
    BY CalmSteps
  <2>4. thr[t] \in Busy /\ thr[t] # Idle
    BY <1>0, <2>1 DEF ThreadState, Busy, Idle, At
  <2>5. CASE Launching
    BY <2>2, <2>3, <2>5 DEF Launching, Claim, ClaimSwap, ClaimComment, RecordMandate, StartWorker,
                           Work, Heartbeat, SpawnChild
  <2>6. ASSUME NEW u \in Thread, NEW q \in RunId, NEW s, Settle(u, q, s)
        PROVE  thr'[t] = thr[t]
    BY <1>0, <2>4, <2>6 DEF Settle
  <2>7. CASE Completing
    BY <2>2, <2>6, <2>7 DEF Completing, SweepSnapshot, Submit, WorkerCompletes, FailLaunch,
                           SweepComplete, Completes
  <2>8. ASSUME NEW u \in Thread, u # t, SyncStep(u) \/ \E q \in RunId : Resync(u, q)
        PROVE  thr'[t] = thr[t]
    BY <1>0, <2>8 DEF SyncStep, Resync, TakeSync, Goto, Return, SyncClaim, SyncSwap, SyncSubmit,
                      SyncRecord, SyncComment, SyncFinish
  <2>9. CASE SyncComment(t)
    BY <1>0, <2>1, <2>4, <2>9 DEF SyncComment, Goto, Moved, Busy
  <2>10. CASE SyncFinish(t)
    BY <1>0, <2>1, <2>10 DEF SyncFinish, Moved, Run
  <2>11. ~SyncClaim(t) /\ ~SyncSwap(t) /\ ~SyncSubmit(t) /\ ~SyncRecord(t) /\ \A q \in RunId : ~Resync(t, q)
    BY <2>1, <2>4 DEF SyncClaim, SyncSwap, SyncSubmit, SyncRecord, Resync
  <2>12. CASE Syncing
    BY <2>2, <2>3, <2>8, <2>9, <2>10, <2>11, <2>12 DEF Syncing, SyncStep
  <2>13. CASE Tick
    BY <2>1, <2>13 DEF Tick, Moved
  <2>14. CASE \E i \in Issue : OperatorReady(i)
    BY <2>2, <2>14 DEF OperatorReady
  <2> QED BY <2>2, <2>3, <2>5, <2>7, <2>12, <2>13, <2>14 DEF Next, Environment, vars
<1> QED BY <1>1, <1>2

\* A run becomes the owner of its issue's label when its claim swaps it.
LEMMA OwnerSteps ==
  ASSUME TypeOK, ReportInv, LabelInv, [Next]_vars, Calm', NEW r \in RunId, Owns(r)'
  PROVE  /\ reg'[r].issue = reg[r].issue
         /\ Owns(r) \/ (ClaimSwap /\ r = claimer.run)
<1>1. Present(r)' /\ Root(r)' /\ ~(claimer'.at = "swap" /\ claimer'.run = r)
  BY DEF Owns
<1>2. ~\E i \in Issue, k \in Kinds : Claim(r, i, k)
  BY <1>1 DEF Claim
<1>3. Present(r) /\ Root(r) /\ reg'[r].issue = reg[r].issue /\ (Active(r)' => Active(r))
  BY <1>1, <1>2, RootSteps
<1>4. Active(r) \/ Settled(r)
  BY <1>3 DEF TypeOK, Run, Present, Active, Settled
<1>5. CASE Active(r)
  <2>1. SUFFICES ASSUME claimer.at = "swap", claimer.run = r
                 PROVE  ClaimSwap
    BY <1>3, <1>5 DEF Owns
  <2>2. ~\E q \in RunId, i \in Issue, k \in Kinds : Claim(q, i, k)
    BY <2>1 DEF Claim, LockFree
  <2> QED BY <1>1, <2>1, <2>2, ClaimerSteps
<1>6. CASE Settled(r)
  <2>1. ~Active(r) /\ reg'[r].status = reg[r].status /\ ~Active(r)'
    BY <1>3, <1>6, SettledRootsKept DEF Kept, Active, Settled, Terminal, Failing
  <2>2. ~(claimer.at = "swap" /\ claimer.run = r)
    BY <2>1 DEF LabelInv, ClaimOpen, ActiveRoot
  <2>3. reg[r].status = "succeeded" \/ ~Moved(r)
    BY <1>3, <1>6, <2>1, MovedStays DEF Owns
  <2> QED BY <1>3, <2>2, <2>3 DEF Owns
<1> QED BY <1>3, <1>4, <1>5, <1>6

\* A thread about to swap back works for the owner of the label.
LEMMA SwapperOwns ==
  ASSUME TypeOK, ReportInv, LabelInv, NEW t \in Thread, thr[t].at = "swap"
  PROVE  /\ thr[t].run \in RunId /\ Owns(thr[t].run) /\ Settled(thr[t].run)
         /\ reg[thr[t].run].status # "succeeded"
<1>1. thr[t].run \in RunId
  BY DEF TypeOK, ThreadState, Busy, Idle, At
<1>2. PICK r \in RunId : r = thr[t].run
  BY <1>1
<1>3. Root(r) /\ Settled(r) /\ reg[r].status # "succeeded"
  BY <1>2 DEF ReportInv, Reporting
<1>4. Present(r) /\ ~Active(r)
  BY <1>3 DEF Settled, Present, Active, Terminal, Failing
<1>5. ~(claimer.at = "swap" /\ claimer.run = r)
  BY <1>4 DEF LabelInv, ClaimOpen, ActiveRoot
<1>6. ~Moved(r)
  BY <1>2 DEF LabelInv, OneHolder, Moved, Holding
<1> QED BY <1>2, <1>3, <1>4, <1>5, <1>6 DEF Owns

\* A sync's swap leaves the other issues alone.
LEMMA SwapElsewhere ==
  ASSUME TypeOK, NEW t \in Thread, SyncSwap(t), NEW i \in Issue, i # reg[thr[t].run].issue
  PROVE  labels'[i] = labels[i]
<1>1. labels \in [Issue -> SUBSET Workflow]
  BY DEF TypeOK
<1>2. \E l : labels' = [labels EXCEPT ![reg[thr[t].run].issue] = l]
  BY DEF SyncSwap, swap_label
<1> QED BY <1>1, <1>2

\* Without an overrun one thread at a time syncs a run, and none a synced one.
LEMMA OneHolderStep ==
  ASSUME TypeOK, ReportInv, LabelInv, [Next]_vars, Calm' PROVE OneHolder'
<1> DEFINE Held(x) == thr[x].at \in Holding /\ thr'[x].run = thr[x].run
           Took(x, q) == /\ thr'[x].run = q /\ ~reg[q].synced
                         /\ reg' = [reg EXCEPT ![q].syncAge = 0]
                         /\ \A u \in Thread : u # x => /\ thr'[u] = thr[u]
                                                      /\ ~(thr[u].run = q /\ thr[u].at \in Holding)
<1>1. ASSUME NEW x \in Thread, thr'[x].at \in Holding
      PROVE  Held(x) \/ \E q \in RunId : Took(x, q)
  BY <1>1, HolderSteps DEF Calm
<1>2. ASSUME NEW t \in Thread, NEW u \in Thread, thr'[t].at \in Holding, thr'[u].at \in Holding,
             thr'[t].run = thr'[u].run
      PROVE  t = u
  <2>1. CASE Held(t) /\ Held(u)
    BY <1>2, <2>1 DEF LabelInv, OneHolder
  <2>2. ASSUME NEW x \in Thread, NEW y \in Thread, x # y, NEW q \in RunId, Took(x, q)
        PROVE  ~(thr'[y].at \in Holding /\ thr'[y].run = q)
    BY <2>2
  <2>3. ASSUME NEW q \in RunId, Took(t, q) PROVE t = u
    BY <1>2, <2>2, <2>3
  <2>4. ASSUME NEW q \in RunId, Took(u, q) PROVE t = u
    BY <1>2, <2>2, <2>4
  <2> QED BY <1>1, <1>2, <2>1, <2>3, <2>4
<1>3. ASSUME NEW t \in Thread, thr'[t].at \in Holding PROVE ~reg'[thr'[t].run].synced
  <2>0. reg \in [RunId -> Run] /\ thr \in [Thread -> ThreadState]
    BY DEF TypeOK
  <2>1. CASE Held(t)
    <3>1. PICK r \in RunId : r = thr[t].run
      BY <2>0, <2>1 DEF ThreadState, Busy, Idle, At, Holding
    <3>2. ~reg[r].synced
      BY <2>1, <3>1 DEF LabelInv, OneHolder
    <3>3. ASSUME NEW u \in Thread, SyncFinish(u), thr[u].run = r PROVE FALSE
      <4>1. u = t
        BY <2>1, <3>1, <3>3 DEF SyncFinish, LabelInv, OneHolder, Holding
      <4>2. thr'[t] = Idle
        BY <2>0, <3>3, <4>1 DEF SyncFinish, Return
      <4> QED BY <1>3, <4>2 DEF Idle, At, Holding
    <3> QED BY <2>1, <3>1, <3>2, <3>3, RegistryRecords
  <2>2. ASSUME NEW q \in RunId, Took(t, q) PROVE ~reg'[thr'[t].run].synced
    BY <2>0, <2>2 DEF Run
  <2> QED BY <1>1, <1>3, <2>1, <2>2
<1> QED BY <1>2, <1>3 DEF OneHolder

\* While nothing fails, dies or overruns, every label has one owner at most.
LEMMA LabelStep == TypeOK /\ ReportInv /\ (Calm => LabelInv) /\ [Next]_vars => (Calm => LabelInv)'
<1> SUFFICES ASSUME TypeOK, ReportInv, Calm => LabelInv, [Next]_vars, Calm' PROVE LabelInv'
  BY DEF Calm
<1>0. /\ LabelInv /\ reg \in [RunId -> Run] /\ labels \in [Issue -> SUBSET Workflow]
      /\ claimer \in Claimer /\ (claimer.at # "idle" => claimer.run \in RunId)
  BY CalmSteps DEF TypeOK, Claimer, Claiming, NoClaimer
<1> USE DEF LabelInv
<1>1. CASE ClaimSwap
  <2>1. PICK q \in RunId : q = claimer.run
    BY <1>0, <1>1 DEF ClaimSwap
  <2>2. /\ labels[reg[q].issue] = {"ready"} /\ UNCHANGED reg /\ reg[q].issue \in Issue
        /\ labels' = [labels EXCEPT ![reg[q].issue] = {"in-progress"}]
    BY <1>0, <1>1, <2>1 DEF ClaimSwap, ClaimOpen, swap_label, Run
  <2>3. \A r \in RunId : Owns(r) => reg[r].issue # reg[q].issue
    BY <1>0, <2>2 DEF OwnersShow
  <2>4. OneLabel' /\ OwnersShow'
    BY <1>0, <2>1, <2>2, OwnerSteps DEF OneLabel, OwnersShow, Run
  <2>5. OneOwner'
    BY <1>0, <2>1, <2>2, <2>3, OwnerSteps DEF OneOwner
  <2>6. ClaimOpen'
    BY <1>0, <1>1, <2>2 DEF ClaimSwap, ClaimOpen, ActiveRoot, Active, Root
  <2> QED BY <1>0, <2>4, <2>5, <2>6, OneHolderStep
<1>2. CASE ~ClaimSwap
  <2>1. \A r \in RunId : Owns(r)' => Owns(r) /\ reg'[r].issue = reg[r].issue
    BY <1>0, <1>2, OwnerSteps
  <2>2. OneOwner'
    BY <1>0, <2>1 DEF OneOwner
  <2>3. ASSUME NEW r \in RunId, Owns(r)'
        PROVE  labels'[reg[r].issue] = labels[reg[r].issue]
    <3>1. labels[reg[r].issue] = {"in-progress"} /\ Owns(r)
      BY <1>0, <2>1, <2>3 DEF OwnersShow
    <3>2. ASSUME NEW t \in Thread, SyncSwap(t) PROVE reg[thr[t].run].issue # reg[r].issue
      <4>1. SUFFICES ASSUME reg[thr[t].run].issue = reg[r].issue PROVE FALSE
        OBVIOUS
      <4>2. thr[t].run = r /\ Settled(r) /\ reg[r].status # "succeeded"
        BY <1>0, <3>1, <3>2, <4>1, SwapperOwns DEF OneOwner, SyncSwap
      <4>3. thr'[t].run = r /\ thr'[t].at = "comment" /\ UNCHANGED reg
        BY <3>2, <4>2 DEF SyncSwap, Goto, TypeOK, ThreadState, Busy, Idle, At
      <4>4. Moved(r)'
        BY <4>3 DEF Moved
      <4> QED BY <2>3, <4>2, <4>3, <4>4 DEF Owns, Settled, Active, Terminal, Failing
    <3>3. ASSUME NEW t \in Thread, SyncSwap(t) PROVE labels'[reg[r].issue] = labels[reg[r].issue]
      <4>1. reg[r].issue \in Issue
        BY <1>0 DEF Run
      <4> QED BY <3>2, <3>3, <4>1, SwapElsewhere
    <3>4. CASE \E i \in Issue : OperatorReady(i)
      BY <1>0, <3>1, <3>4 DEF OperatorReady
    <3> QED BY <1>2, <3>3, <3>4, LabelSteps
  <2>4. OwnersShow'
    BY <1>0, <2>1, <2>3 DEF OwnersShow
  <2>5. OneLabel'
    <3>1. CASE \E t \in Thread : SyncSwap(t)
      <4>1. PICK t \in Thread : SyncSwap(t)
        BY <3>1
      <4>2. PICK r \in RunId : r = thr[t].run /\ labels[reg[r].issue] = {"in-progress"}
        BY <1>0, <4>1, SwapperOwns DEF OwnersShow, SyncSwap
      <4>3. target(r) \in {"ready", "blocked"}
        BY DEF target
      <4>4. labels' = [labels EXCEPT ![reg[r].issue] = {target(r)}]
        BY <4>1, <4>2 DEF SyncSwap, swap_label
      <4> QED BY <1>0, <4>3, <4>4 DEF OneLabel
    <3>2. CASE \E i \in Issue : OperatorReady(i)
      BY <1>0, <3>2 DEF OperatorReady, OneLabel
    <3> QED BY <1>0, <1>2, <3>1, <3>2, LabelSteps DEF OneLabel
  <2>6. ClaimOpen'
    <3>1. ASSUME NEW r \in RunId, NEW i \in Issue, NEW k \in Kinds, Claim(r, i, k)
          PROVE  ClaimOpen'
      <4>1. reg'[r] = NewRun(i, NoRun, 0, k, "in_progress") /\ claimer'.run = r
        BY <1>0, <3>1 DEF Claim
      <4>2. labels'[i] = {"ready"}
        BY <1>0, <3>1 DEF Claim, OneLabel
      <4> QED BY <4>1, <4>2 DEF ClaimOpen, ActiveRoot, Active, Root, NewRun
    <3>2. CASE claimer'.at = claimer.at /\ claimer'.run = claimer.run /\ claimer.at # "idle"
      <4>1. PICK q \in RunId : q = claimer.run
        BY <1>0, <3>2
      <4>2. ActiveRoot(q)' /\ reg'[q].issue = reg[q].issue
        BY <1>0, <3>2, <4>1, LockedRegistry DEF ClaimOpen, LockFree, ActiveRoot, Active, Root
      <4>3. ASSUME claimer.at = "swap" PROVE labels'[reg[q].issue] = {"ready"}
        <5>1. labels[reg[q].issue] = {"ready"}
          BY <1>0, <4>1, <4>3 DEF ClaimOpen
        <5>2. ASSUME NEW t \in Thread, SyncSwap(t) PROVE reg[thr[t].run].issue # reg[q].issue
          BY <1>0, <5>1, <5>2, SwapperOwns DEF OwnersShow, SyncSwap
        <5>3. ASSUME NEW t \in Thread, SyncSwap(t) PROVE labels'[reg[q].issue] = labels[reg[q].issue]
          <6>1. reg[q].issue \in Issue
            BY <1>0 DEF Run
          <6> QED BY <5>2, <5>3, <6>1, SwapElsewhere
        <5>4. CASE \E i \in Issue : OperatorReady(i)
          BY <1>0, <5>1, <5>4 DEF OperatorReady
        <5> QED BY <1>2, <5>1, <5>3, <5>4, LabelSteps
      <4> QED BY <3>2, <4>1, <4>2, <4>3 DEF ClaimOpen
    <3>3. CASE claimer'.at = "idle"
      BY <3>3 DEF ClaimOpen
    <3> QED BY <1>2, <3>1, <3>2, <3>3, ClaimerSteps
  <2> QED BY <1>0, <2>2, <2>4, <2>5, <2>6, OneHolderStep
<1> QED BY <1>1, <1>2

\* In a calm run of claim(), complete() and _sync_github() the label is the
\* state: one per issue, and in-progress while a run owns it.
THEOREM LabelsFollowRunsHolds == Spec => []LabelsFollowRuns
<1>1. Init => (Calm => LabelInv)
  BY DEF Init, LabelInv, OneLabel, OwnersShow, OneOwner, ClaimOpen, OneHolder, Owns, Present, NewRun,
         NoClaimer, Holding, Idle, At
<1>2. TypeOK /\ (Calm => LabelInv) => LabelsFollowRuns
  <2> SUFFICES ASSUME TypeOK, Calm, LabelInv PROVE LabelsFollowRuns
    BY DEF Calm, LabelsFollowRuns
  <2>1. ASSUME NEW i \in Issue PROVE Cardinality(labels[i]) = 1
    <3>1. PICK l : labels[i] = {l}
      BY DEF LabelInv, OneLabel
    <3> QED BY <3>1, FS_Singleton
  <2>2. ASSUME NEW r \in RunId, ActiveRoot(r), claimer.run # r
        PROVE  labels[reg[r].issue] = {"in-progress"}
    <3>1. Owns(r)
      BY <2>2 DEF Owns, ActiveRoot, Active, Present
    <3> QED BY <3>1 DEF LabelInv, OwnersShow
  <2> QED BY <2>1, <2>2 DEF LabelsFollowRuns
<1> QED BY <1>1, <1>2, LabelStep, TypeCorrect, ReportInvHolds, PTL DEF Spec

-----------------------------------------------------------------------------
(* Evidence *)

\* An active run stops being active by complete() alone.
LEMMA ActiveSettles ==
  ASSUME TypeOK, [Next]_vars, NEW r \in RunId, Active(r), ~Active(r)'
  PROVE  \E t \in Thread, s \in Terminal : Settle(t, r, s)
<1> USE DEF Active
<1>0. reg[r] \in Run /\ reg \in [RunId -> Run]
  BY DEF TypeOK
<1>1. ASSUME NEW q \in RunId, NEW i \in Issue, NEW k \in Kinds \ {"mutating"}, Claim(q, i, k)
      PROVE  FALSE
  BY <1>0, <1>1 DEF Claim, NewRun
<1>2. ~UNCHANGED reg
  BY <1>0
<1>3. ASSUME NEW q \in RunId, NEW limit \in Limits, NEW m \in BOOLEAN, RecordMandate(q, limit, m)
      PROVE  FALSE
  BY <1>0, <1>3 DEF RecordMandate, Run
<1>4. ASSUME NEW q \in RunId, Heartbeat(q)
      PROVE  FALSE
  BY <1>0, <1>4 DEF Heartbeat, Run
<1>5. ASSUME NEW p \in RunId, NEW c \in RunId, SpawnChild(p, c)
      PROVE  FALSE
  BY <1>0, <1>5 DEF SpawnChild, NewRun
<1>6. ASSUME NEW t \in Thread, NEW q \in RunId, NEW s \in Terminal, Settle(t, q, s)
      PROVE  q = r
  BY <1>0, <1>6 DEF Settle
<1>7. ASSUME NEW t \in Thread, NEW q \in RunId, TakeSync(t, q)
      PROVE  FALSE
  BY <1>0, <1>7 DEF TakeSync, Run
<1>8. ASSUME NEW t \in Thread, SyncRecord(t) \/ SyncFinish(t)
      PROVE  FALSE
  BY <1>0, <1>8 DEF SyncRecord, SyncFinish, Run
<1>9. ASSUME Tick
      PROVE  FALSE
  BY <1>0, <1>9 DEF Tick, Run
<1> QED BY <1>1, <1>2, <1>3, <1>4, <1>5, <1>6, <1>7, <1>8, <1>9, RegistrySteps

\* The evidence gate in complete(): a mutating run succeeds on a verified
\* commit only, also when the commit is recovered after a timeout.
THEOREM MutatingSuccessHolds == Spec => MutatingSuccessIsProven
<1>1. TypeOK /\ [Next]_vars =>
        [\A r \in RunId : Active(r) /\ reg[r].kind = "mutating" /\ reg'[r].status = "succeeded" =>
           proof[r] = "good" /\ reg'[r].evidence]_vars
  <2> SUFFICES ASSUME TypeOK, [Next]_vars, NEW r \in RunId,
                      Active(r), reg[r].kind = "mutating", reg'[r].status = "succeeded"
               PROVE  proof[r] = "good" /\ reg'[r].evidence
    OBVIOUS
  <2>1. PICK t \in Thread, s \in Terminal : Settle(t, r, s)
    BY ActiveSettles DEF Active
  <2>2. PICK o \in Terminal, e \in BOOLEAN : Settlement(r, o, e)
    BY <2>1, SettleWrites
  <2> QED BY <2>2 DEF Settlement, TypeOK, Run
<1> QED BY <1>1, TypeCorrect, PTL DEF Spec, MutatingSuccessIsProven

\* _recover_timeout_evidence(): complete() loses a landed, verifiable commit
\* to a timeout only in a step in which the recovery of the branch failed.
THEOREM LandedWorkHolds == Spec => LandedWorkIsKept
<1>1. TypeOK /\ [Next]_vars =>
        [\A r \in RunId : Active(r) /\ reg[r].kind = "mutating" /\ proof[r] = "good"
           /\ reg'[r].status = "timed_out" => faults' > faults]_vars
  <2> SUFFICES ASSUME TypeOK, [Next]_vars, NEW r \in RunId,
                      Active(r), reg[r].kind = "mutating", proof[r] = "good",
                      reg'[r].status = "timed_out"
               PROVE  faults' > faults
    OBVIOUS
  <2>1. PICK t \in Thread, s \in Terminal : Settle(t, r, s)
    BY ActiveSettles DEF Active
  <2>2. PICK offered \in Terminal, shown \in Presented(r) :
          /\ Recovered(r, s, offered)
          /\ reg' = [reg EXCEPT ![r].status = gate_commit(r, offered, shown),
                                ![r].evidence = gate_commit(r, offered, shown) = "succeeded" /\ shown = "good"]
    BY <2>1 DEF Settle
  <2>3. reg'[r].status = gate_commit(r, offered, shown)
    BY <2>2 DEF TypeOK, Run
  <2>4. offered = "timed_out"
    BY <2>3 DEF gate_commit
  <2>5. s = "timed_out" /\ Fault
    BY <2>2, <2>4 DEF Recovered
  <2> QED BY <2>5 DEF Fault, TypeOK
<1> QED BY <1>1, TypeCorrect, PTL DEF Spec, LandedWorkIsKept

-----------------------------------------------------------------------------
(* The contract *)

\* What the contract sees of one run.
SameView(r) == StageOf(r)' = StageOf(r) /\ AboutOf(r)' = AboutOf(r) /\ OutcomeOf(r)' = OutcomeOf(r)

\* Records that agree in these fields look the same to the contract.
LEMMA ViewFields ==
  ASSUME NEW r \in RunId, reg'[r].status = reg[r].status, reg'[r].parent = reg[r].parent,
         reg'[r].issue = reg[r].issue, reg'[r].synced = reg[r].synced
  PROVE  SameView(r)
BY DEF SameView, StageOf, AboutOf, OutcomeOf, Claimed, Present, Root, Active, Settled

\* A step that keeps every view and every submission is a stutter.
LEMMA SameViewStutters ==
  ASSUME \A r \in RunId : SameView(r), UNCHANGED submitted
  PROVE  UNCHANGED Contract!contractVars
BY DEF SameView, Contract!contractVars

\* A step that changes one run's view changes the contract's functions there.
LEMMA OneViewChanges ==
  ASSUME NEW q \in RunId, \A r \in RunId : r # q => SameView(r)
  PROVE  /\ [r \in RunId |-> StageOf(r)]' = [[r \in RunId |-> StageOf(r)] EXCEPT ![q] = StageOf(q)']
         /\ [r \in RunId |-> AboutOf(r)]' = [[r \in RunId |-> AboutOf(r)] EXCEPT ![q] = AboutOf(q)']
         /\ [r \in RunId |-> OutcomeOf(r)]' = [[r \in RunId |-> OutcomeOf(r)] EXCEPT ![q] = OutcomeOf(q)']
BY DEF SameView

\* claim() is the contract's Own.
LEMMA ClaimOwns ==
  ASSUME TypeOK, NEW q \in RunId, NEW i \in Issue, NEW k \in Kinds \ {"mutating"}, Claim(q, i, k)
  PROVE  Contract!Own(q, i)
<1>0. reg \in [RunId -> Run]
  BY DEF TypeOK
<1>1. \A r \in RunId : r # q => SameView(r)
  BY <1>0, ViewFields DEF Claim
<1>2. StageOf(q)' = "owner" /\ AboutOf(q)' = i /\ OutcomeOf(q)' = "none"
  BY <1>0 DEF Claim, NewRun, StageOf, AboutOf, OutcomeOf, Claimed, Present, Root, Active, Settled,
              Terminal, Failing
<1>3. StageOf(q) = "new" /\ OutcomeOf(q) = "none"
  BY DEF Claim, StageOf, OutcomeOf, Claimed
<1>4. \A s \in RunId : StageOf(s) = "owner" => AboutOf(s) # i
  BY DEF Claim, StageOf, AboutOf, Claimed, active_issue_ids
<1>5. UNCHANGED submitted
  BY DEF Claim
<1> QED BY <1>1, <1>2, <1>3, <1>4, <1>5, OneViewChanges DEF Contract!Own

\* complete() is the contract's SettleOnce, or concerns a child and changes
\* nothing the contract sees.
LEMMA SettleIsSettleOnce ==
  ASSUME TypeOK, ReportInv, NEW t \in Thread, NEW q \in RunId, NEW s \in Terminal, Settle(t, q, s),
         UNCHANGED submitted
  PROVE  Contract!ContractNext \/ UNCHANGED Contract!contractVars
<1>9. PICK o \in Terminal, e \in BOOLEAN : Settlement(q, o, e)
  BY SettleWrites
<1>0. reg \in [RunId -> Run] /\ reg[q] \in Run
  BY DEF TypeOK
<1>1. \A r \in RunId : r # q => SameView(r)
  BY <1>0, ViewFields DEF Settle
<1>2. /\ reg'[q].status = o /\ reg'[q].parent = reg[q].parent
      /\ reg'[q].issue = reg[q].issue /\ reg'[q].synced = reg[q].synced
  BY <1>0, <1>9 DEF Settlement, Run
<1>3. o # "in_progress" /\ o # "absent"
  BY DEF Terminal, Failing
<1>4. CASE ~Root(q)
  <2>1. SameView(q)
    BY <1>2, <1>4 DEF SameView, StageOf, AboutOf, OutcomeOf, Claimed, Root
  <2> QED BY <1>1, <2>1, SameViewStutters
<1>5. CASE Root(q)
  <2>1. Active(q) /\ ~Settled(q) /\ ~reg[q].synced
    BY DEF Settle, Active, Settled, Terminal, Failing, ReportInv, Recorded
  <2>2. StageOf(q) = "owner" /\ StageOf(q)' = "settled"
    BY <1>2, <1>3, <1>5, <2>1 DEF StageOf, Claimed, Present, Root, Active
  <2>3. AboutOf(q)' = AboutOf(q) /\ OutcomeOf(q)' = o
    BY <1>0, <1>2, <1>3, <1>5, <2>1 DEF AboutOf, OutcomeOf, Claimed, Present, Root, Active, Settled
  <2>4. Contract!SettleOnce(q, o)
    BY <1>1, <2>2, <2>3, OneViewChanges DEF Contract!SettleOnce
  <2> QED BY <1>0, <2>4 DEF Contract!ContractNext
<1> QED BY <1>4, <1>5

\* The last locked step of _sync_github() is the contract's Report, or the
\* run was reported already.
LEMMA FinishIsReport ==
  ASSUME TypeOK, ReportInv, NEW t \in Thread, SyncFinish(t)
  PROVE  Contract!ContractNext \/ UNCHANGED Contract!contractVars
<1>1. PICK q \in RunId : q = thr[t].run
  BY DEF SyncFinish, TypeOK, ThreadState, Busy, Idle, At
<1>2. Root(q) /\ Settled(q) /\ (reg[q].status = "succeeded" => q \in submitted)
  BY <1>1 DEF SyncFinish, ReportInv, Reporting
<1>3. reg \in [RunId -> Run] /\ reg[q] \in Run
  BY DEF TypeOK
<1>4. /\ reg'[q].status = reg[q].status /\ reg'[q].parent = reg[q].parent
      /\ reg'[q].issue = reg[q].issue /\ reg'[q].synced = TRUE
  BY <1>1, <1>3 DEF SyncFinish, Run
<1>5. \A r \in RunId : r # q => SameView(r)
  BY <1>1, <1>3, ViewFields DEF SyncFinish
<1>6. UNCHANGED submitted
  BY DEF SyncFinish
<1>7. CASE reg[q].synced
  <2>1. SameView(q)
    BY <1>4, <1>7, ViewFields
  <2> QED BY <1>5, <1>6, <2>1, SameViewStutters
<1>8. CASE ~reg[q].synced
  <2>1. Present(q) /\ ~Active(q)
    BY <1>2 DEF Present, Active, Settled, Terminal, Failing
  <2>2. StageOf(q) = "settled" /\ StageOf(q)' = "reported"
    BY <1>2, <1>4, <1>8, <2>1 DEF StageOf, Claimed, Present, Root, Active
  <2>3. AboutOf(q)' = AboutOf(q) /\ OutcomeOf(q)' = OutcomeOf(q) /\ OutcomeOf(q) = reg[q].status
    BY <1>2, <1>4, <2>1 DEF AboutOf, OutcomeOf, Claimed, Present, Root, Settled
  <2>4. Contract!Report(q)
    BY <1>2, <1>5, <1>6, <2>2, <2>3, OneViewChanges DEF Contract!Report
  <2> QED BY <2>4 DEF Contract!ContractNext
<1> QED BY <1>7, <1>8

\* The durable submission is the contract's Review.
LEMMA SubmitIsReview ==
  ASSUME TypeOK, ReportInv, NEW t \in Thread, SyncSubmit(t)
  PROVE  Contract!ContractNext
<1>1. PICK q \in RunId : q = thr[t].run
  BY DEF SyncSubmit, TypeOK, ThreadState, Busy, Idle, At
<1>2. Root(q) /\ Settled(q) /\ reg[q].status = "succeeded"
  BY <1>1 DEF SyncSubmit, ReportInv, Reporting
<1>3. StageOf(q) \in {"settled", "reported"} /\ OutcomeOf(q) = "succeeded"
  BY <1>2 DEF StageOf, OutcomeOf, Claimed, Present, Active
<1>4. UNCHANGED reg /\ submitted' = submitted \cup {q}
  BY <1>1 DEF SyncSubmit
<1>5. \A r \in RunId : SameView(r)
  BY <1>4, ViewFields
<1>6. Contract!Review(q)
  BY <1>3, <1>4, <1>5 DEF Contract!Review, Contract!Done, SameView
<1> QED BY <1>6 DEF Contract!ContractNext

\* The other steps show the contract nothing.
LEMMA OthersStutter ==
  ASSUME TypeOK, ReportInv, [Next]_vars, UNCHANGED submitted,
         \A q \in RunId, i \in Issue, k \in Kinds \ {"mutating"} : ~Claim(q, i, k),
         \A t \in Thread, q \in RunId, s \in Terminal : ~Settle(t, q, s),
         \A t \in Thread : ~SyncFinish(t)
  PROVE  UNCHANGED Contract!contractVars
<1> SUFFICES ASSUME NEW r \in RunId PROVE SameView(r)
  BY SameViewStutters
<1>0. reg[r] \in Run /\ reg \in [RunId -> Run]
  BY DEF TypeOK
<1> DEFINE Kept4 == /\ reg'[r].status = reg[r].status /\ reg'[r].parent = reg[r].parent
                    /\ reg'[r].issue = reg[r].issue /\ reg'[r].synced = reg[r].synced
<1>1. UNCHANGED reg => Kept4
  OBVIOUS
<1>2. ASSUME NEW q \in RunId, NEW limit \in Limits, NEW m \in BOOLEAN, RecordMandate(q, limit, m)
      PROVE  Kept4
  BY <1>0, <1>2 DEF RecordMandate, Run
<1>3. ASSUME NEW q \in RunId, Heartbeat(q)
      PROVE  Kept4
  BY <1>0, <1>3 DEF Heartbeat, Run
<1>4. ASSUME NEW p \in RunId, NEW c \in RunId, SpawnChild(p, c)
      PROVE  SameView(r)
  <2>1. CASE r # c
    BY <1>0, <1>4, <2>1, ViewFields DEF SpawnChild
  <2>2. CASE r = c
    <3>1. ~Claimed(r)
      BY <1>4, <2>2 DEF SpawnChild, Claimed, Root
    <3>2. ~Claimed(r)'
      BY <1>0, <1>4, <2>2 DEF SpawnChild, NewRun, Claimed, Root
    <3> QED BY <3>1, <3>2 DEF SameView, StageOf, AboutOf, OutcomeOf
  <2> QED BY <2>1, <2>2
<1>5. ASSUME NEW t \in Thread, NEW q \in RunId, TakeSync(t, q)
      PROVE  Kept4
  BY <1>0, <1>5 DEF TakeSync, Run
<1>6. ASSUME NEW t \in Thread, SyncRecord(t)
      PROVE  Kept4
  BY <1>0, <1>6 DEF SyncRecord, Run
<1>7. ASSUME Tick
      PROVE  Kept4
  BY <1>0, <1>7 DEF Tick, Run
<1>8. CASE Kept4
  BY <1>8, ViewFields
<1> QED BY <1>1, <1>2, <1>3, <1>4, <1>5, <1>6, <1>7, <1>8, RegistrySteps

\* Every step of the dispatcher is a step of the contract or a stutter.
LEMMA ContractStep ==
  TypeOK /\ ReportInv /\ [Next]_vars => [Contract!ContractNext]_(Contract!contractVars)
<1> SUFFICES ASSUME TypeOK, ReportInv, [Next]_vars
             PROVE  Contract!ContractNext \/ UNCHANGED Contract!contractVars
  OBVIOUS
<1>1. CASE \E t \in Thread : SyncSubmit(t)
  BY <1>1, SubmitIsReview
<1>2. CASE ~\E t \in Thread : SyncSubmit(t)
  <2>1. UNCHANGED submitted
    BY <1>2, ReportsGrow, SubmissionSteps
  <2>2. CASE \E q \in RunId, i \in Issue, k \in Kinds \ {"mutating"} : Claim(q, i, k)
    BY <2>2, ClaimOwns DEF Contract!ContractNext
  <2>3. CASE \E t \in Thread, q \in RunId, s \in Terminal : Settle(t, q, s)
    BY <2>1, <2>3, SettleIsSettleOnce
  <2>4. CASE \E t \in Thread : SyncFinish(t)
    BY <2>4, FinishIsReport
  <2> QED BY <2>1, <2>2, <2>3, <2>4, OthersStutter
<1> QED BY <1>1, <1>2

\* The dispatcher implements its contract: claim() is the only way to own an
\* issue, complete() settles once, submission and report come in order.
THEOREM DispatcherImplementsContract == Spec => ContractHolds
<1>1. Init => Contract!ContractInit
  <2> SUFFICES ASSUME Init PROVE Contract!ContractInit
    OBVIOUS
  <2>1. \A r \in RunId : ~Claimed(r)
    BY DEF Init, NewRun, Claimed, Present
  <2> QED BY <2>1 DEF Init, Contract!ContractInit, StageOf, AboutOf, OutcomeOf
<1> QED
  BY <1>1, TypeCorrect, ReportInvHolds, ContractStep, PTL DEF Spec, ContractHolds, Contract!ContractSpec
=============================================================================
