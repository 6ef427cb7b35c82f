----------------------------- MODULE Dispatcher -----------------------------
(***************************************************************************)
(* The dispatcher of scripts/dispatcher.py: one process, many threads, one *)
(* run registry, and GitHub issues whose workflow:* labels carry the       *)
(* workflow state.                                                         *)
(*                                                                         *)
(* Every step that holds Dispatcher._lock is one action; every GitHub call *)
(* made without the lock (and the GitHub calls claim() makes while holding *)
(* it) is a step of its own, so other threads run between any two of them. *)
(* A call takes between 0 and CallTimeout ticks, may fail, and a failed    *)
(* call may or may not have taken effect.                                  *)
(***************************************************************************)
EXTENDS Integers, FiniteSets

CONSTANTS
  RunId,       \* run identities
  NoRun,       \* the absent run
  Issue,       \* GitHub issues
  Thread,      \* threads that call complete() and resync_pending()
  Outcomes,    \* statuses a worker or an operator reports
  Kinds,       \* what runs are launched: plain, readonly, mutating
  Unset,       \* no delegation ceiling given
  Limits,      \* delegation depths a dispatch request approves
  DefaultDepth,\* Dispatcher.delegation_depth (Unset: no ceiling)
  MaxWorkers,  \* max_parallel_workers (Cardinality(Issue): no ceiling)
  RunLease,    \* lease_seconds of a run, in ticks
  SyncLease,   \* GH_SYNC_CLAIM_LEASE_SECONDS, in ticks
  CallTimeout, \* GH_CLI_TIMEOUT_SECONDS, in ticks
  MaxFaults,   \* bound: failed external calls
  MaxCrashes   \* bound: crashes of the process

Failing  == {"failed", "timed_out", "budget_exceeded", "blocked"}
Terminal == Failing \cup {"succeeded", "cancelled"}
Kind     == {"plain", "readonly", "mutating"}

ASSUME RunAssumption     == NoRun \notin RunId
ASSUME OutcomeAssumption == Outcomes \subseteq Terminal /\ Kinds \subseteq Kind
ASSUME LimitAssumption   == Unset \notin Nat /\ Limits \subseteq Nat \cup {Unset} /\ DefaultDepth \in Nat \cup {Unset}
ASSUME WorkerAssumption  == MaxWorkers \in Nat
ASSUME LeaseAssumption   == RunLease \in Nat /\ SyncLease \in Nat /\ CallTimeout \in Nat
ASSUME TimeoutAssumption == CallTimeout < SyncLease
ASSUME BoundAssumption   == MaxFaults \in Nat /\ MaxCrashes \in Nat

VARIABLES
  reg,       \* RunRegistry: the durable record of every run
  labels,    \* the workflow labels of every issue
  submitted, \* runs with a durable run.review_submitted event
  posted,    \* runs whose result comment is on the issue
  proof,     \* what the worker left behind: a commit or a structured report
  unguarded, \* runs flagged mutating only after they had settled
  worker,    \* where the launch of a run, then its worker thread, has got to
  claimer,   \* the thread inside claim(), which holds the lock
  thr,       \* the threads in complete() or resync_pending()
  sweep,     \* expired runs sweep_expired() has still to complete
  overrun,   \* a sync claim was taken over while its holder was still calling
  faults, crashes

vars == <<reg, labels, submitted, posted, proof, unguarded, worker, claimer, thr,
          sweep, overrun, faults, crashes>>

-----------------------------------------------------------------------------
(* The registry *)

\* syncAge is the age of gh_sync_claimed_at (None counts as stale), lifeAge
\* the time since the later of claimed_at and heartbeat_at; both stop
\* growing one tick past the lease they are compared with.
Run == [status: {"absent", "in_progress"} \cup Terminal, issue: Issue,
        parent: RunId \cup {NoRun}, depth: Nat, limit: Nat \cup {Unset},
        kind: Kind, evidence: BOOLEAN, recorded: BOOLEAN, synced: BOOLEAN,
        syncAge: 0..SyncLease + 1, lifeAge: 0..RunLease + 1]

NewRun(i, p, d, k, s) ==
  [status |-> s, issue |-> i, parent |-> p, depth |-> d, limit |-> Unset,
   kind |-> k, evidence |-> FALSE, recorded |-> FALSE, synced |-> FALSE,
   syncAge |-> SyncLease + 1, lifeAge |-> 0]

Present(r)  == reg[r].status # "absent"
Active(r)   == reg[r].status = "in_progress"
Settled(r)  == reg[r].status \in Terminal
Root(r)     == reg[r].parent = NoRun

\* Mutant: a run whose lease ran out no longer counts, though nobody swept it.
live_issue_ids == {reg[r].issue : r \in {x \in RunId : Active(x) /\ reg[x].lifeAge <= RunLease}}

active_issue_ids == {reg[r].issue : r \in {x \in RunId : Active(x)}}

\* Mutant: the lease ends one tick early.
gh_sync_claim_due(r) == reg[r].syncAge >= SyncLease

gh_sync_claim_stale(r) == reg[r].syncAge > SyncLease
is_expired(r)          == reg[r].lifeAge > RunLease

Older(age, cap) == IF age < cap THEN age + 1 ELSE cap

-----------------------------------------------------------------------------
(* Threads, the lock and failures *)

At(point, r) == [at |-> point, run |-> r, call |-> 0, held |-> 0]
Idle == At("idle", NoRun)

\* The points of _sync_github() at which its sync claim is held.
Holding == {"swap", "submit", "record", "comment", "finish"}

Busy        == [at: {"claim"} \cup Holding, run: RunId,
                call: 0..CallTimeout, held: 0..SyncLease + 1]
ThreadState == {Idle} \cup Busy

NoClaimer   == [at |-> "idle", run |-> NoRun, call |-> 0]
Claiming    == [at: {"swap", "comment"}, run: RunId, call: 0..CallTimeout]
Claimer     == {NoClaimer} \cup Claiming

LockFree == claimer.at = "idle"

\* The GitHub and session-store calls a thread can be waiting for.
InCall(t) == thr[t].at \in {"swap", "comment"}

Goto(t, point) == thr' = [thr EXCEPT ![t].at = point, ![t].call = 0]
Return(t)      == thr' = [thr EXCEPT ![t] = Idle]

Fault == faults < MaxFaults /\ faults' = faults + 1

Workflow == {"ready", "in-progress", "blocked"}

\* swap_label: gh accepts removing a label the issue does not carry.
swap_label(i, remove, add) == [labels EXCEPT ![i] = (@ \ {remove}) \cup {add}]

-----------------------------------------------------------------------------
(* claim() and the launch that follows it *)

\* Mutant: one worker more than the ceiling.
ClaimOneMore(r, i, k) ==
  /\ LockFree
  /\ ~Present(r)
  /\ i \notin active_issue_ids
  /\ Cardinality(active_issue_ids) <= MaxWorkers
  /\ "ready" \in labels[i]
  /\ reg' = [reg EXCEPT ![r] = NewRun(i, NoRun, 0, k, "in_progress")]
  /\ claimer' = [at |-> "swap", run |-> r, call |-> 0]
  /\ worker' = [worker EXCEPT ![r] = "claiming"]
  /\ UNCHANGED <<labels, submitted, posted, proof, unguarded, thr, sweep, overrun, faults, crashes>>

\* Checks, get_labels and registry.add, all under the lock.
Claim(r, i, k) ==
  /\ LockFree
  /\ ~Present(r)
  /\ i \notin active_issue_ids
  /\ Cardinality(active_issue_ids) < MaxWorkers
  /\ "ready" \in labels[i]
  /\ reg' = [reg EXCEPT ![r] = NewRun(i, NoRun, 0, k, "in_progress")]
  /\ claimer' = [at |-> "swap", run |-> r, call |-> 0]
  /\ worker' = [worker EXCEPT ![r] = "claiming"]
  /\ UNCHANGED <<labels, submitted, posted, proof, unguarded, thr, sweep, overrun, faults, crashes>>

ClaimSwap ==
  /\ claimer.at = "swap"
  /\ claimer' = [at |-> "comment", run |-> claimer.run, call |-> 0]
  /\ labels' = swap_label(reg[claimer.run].issue, "ready", "in-progress")
  /\ UNCHANGED <<reg, submitted, posted, proof, unguarded, worker, thr, sweep, overrun, faults, crashes>>

ClaimComment ==
  /\ claimer.at = "comment"
  /\ claimer' = NoClaimer
  /\ worker' = [worker EXCEPT ![claimer.run] = "claimed"]
  /\ UNCHANGED <<reg, labels, submitted, posted, proof, unguarded, thr, sweep, overrun, faults, crashes>>

\* A failed call leaves claim() by an exception: the lock is released, the
\* run stays in the registry as in_progress.
ClaimFails ==
  /\ claimer.at # "idle"
  /\ Fault
  /\ labels' \in {labels} \cup
       IF claimer.at = "swap"
       THEN {swap_label(reg[claimer.run].issue, "ready", "in-progress")} ELSE {}
  /\ claimer' = NoClaimer
  /\ worker' = [worker EXCEPT ![claimer.run] = "failed"]
  /\ UNCHANGED <<reg, submitted, posted, proof, unguarded, thr, sweep, overrun, crashes>>

\* The launcher writes the approved mandate onto the run after the claim,
\* whatever has become of the run since.
RecordMandate(r, limit, mutating) ==
  /\ worker[r] = "claimed"
  /\ reg' = [reg EXCEPT ![r].limit = limit,
                        ![r].kind = IF mutating THEN "mutating" ELSE @]
  /\ unguarded' = IF mutating /\ ~Active(r) THEN unguarded \cup {r} ELSE unguarded
  /\ worker' = [worker EXCEPT ![r] = "recorded"]
  /\ UNCHANGED <<labels, submitted, posted, proof, claimer, thr, sweep, overrun, faults, crashes>>

StartWorker(r) ==
  /\ worker[r] = "recorded"
  /\ worker' = [worker EXCEPT ![r] = "running"]
  /\ UNCHANGED <<reg, labels, submitted, posted, proof, unguarded, claimer, thr, sweep, overrun, faults, crashes>>

\* The worker commits, amends or reports; a subprocess may outlive its
\* launcher. What a plain run leaves behind is in its result alone (Presented).
Work(r, p) ==
  /\ worker[r] \in {"running", "orphaned"} /\ reg[r].kind # "plain"
  /\ proof' = [proof EXCEPT ![r] = p]
  /\ UNCHANGED <<reg, labels, submitted, posted, unguarded, worker, claimer, thr, sweep, overrun, faults, crashes>>

\* The heartbeater of a running worker; once the run has settled its
\* heartbeat is never read again.
Heartbeat(r) ==
  /\ LockFree
  /\ worker[r] = "running" /\ Active(r)
  /\ reg' = [reg EXCEPT ![r].lifeAge = 0]
  /\ UNCHANGED <<labels, submitted, posted, proof, unguarded, worker, claimer, thr, sweep, overrun, faults, crashes>>

-----------------------------------------------------------------------------
(* spawn_child() *)

depth_limit(p) == IF reg[p].limit # Unset THEN reg[p].limit ELSE DefaultDepth

\* The child's id is the parent's id and a number the caller picks: picking
\* one already used replaces that child's record.
SpawnChild(p, c) ==
  /\ LockFree
  /\ Present(p) /\ (Present(c) => reg[c].parent = p)
  /\ depth_limit(p) # Unset => reg[p].depth < depth_limit(p)
  /\ reg' = [reg EXCEPT ![c] =
       NewRun(reg[p].issue, p, reg[p].depth + 1, "plain", "in_progress")]
  /\ UNCHANGED <<labels, submitted, posted, proof, unguarded, worker, claimer, thr, sweep, overrun, faults, crashes>>

-----------------------------------------------------------------------------
(* complete() *)

\* Mutant: nobody looks at the branch of a timed-out run.
NeverRecovered(r, reported, offered) == offered = reported /\ UNCHANGED faults

\* What complete() offers the gate: for a timed-out run whose isolated branch
\* advanced a success, unless the recovery raises or cannot read the branch;
\* otherwise what was reported.
Recovered(r, reported, offered) ==
  IF reported = "timed_out" /\ reg[r].kind = "mutating" /\ proof[r] # "none"
  THEN \/ offered = "succeeded" /\ UNCHANGED faults
       \/ offered = reported /\ Fault
  ELSE offered = reported /\ UNCHANGED faults

\* The evidence a result carries; that of a plain run may bring an
\* observed_digest, which is then verified as a read-only run's is.
Presented(r) == IF reg[r].kind = "plain" THEN {"none", "bad", "good"} ELSE {proof[r]}

\* Mutant: the worker's word is taken.
gate_nothing(r, claimed, shown) == claimed

\* The evidence gate: a claimed success without verifiable evidence is blocked.
gate_commit(r, claimed, shown) ==
  IF claimed = "succeeded" /\ shown # "good" /\ (reg[r].kind = "plain" => shown # "none")
  THEN "blocked" ELSE claimed

\* Mutant: complete() settles a run that has settled already.
SettleAgain(t, r, reported) ==
  /\ LockFree /\ Present(r) /\ thr[t] = Idle
  /\ \E offered \in Terminal, shown \in Presented(r) :
       LET status == gate_commit(r, offered, shown) IN
       /\ Recovered(r, reported, offered)
       /\ reg' = [reg EXCEPT ![r].status = status,
                             ![r].evidence = status = "succeeded" /\ shown = "good"]
  /\ thr' = IF Root(r) THEN [thr EXCEPT ![t] = At("claim", r)] ELSE thr

\* The locked part: thread t then goes on to _sync_github() for a root run.
Settle(t, r, reported) ==
  /\ LockFree /\ Active(r) /\ thr[t] = Idle
  /\ \E offered \in Terminal, shown \in Presented(r) :
       LET status == gate_commit(r, offered, shown) IN
       /\ Recovered(r, reported, offered)
       /\ reg' = [reg EXCEPT ![r].status = status,
                             ![r].evidence = status = "succeeded" /\ shown = "good"]
  /\ thr' = IF Root(r) THEN [thr EXCEPT ![t] = At("claim", r)] ELSE thr

\* complete() on a run that has settled meanwhile raises and changes nothing.
Completes(t, r, reported) ==
  \/ Settle(t, r, reported)
  \/ ~Active(r) /\ UNCHANGED <<reg, thr, faults>>

\* WorkLauncher.submit(), called by the coordinator or the operator.
Submit(t, r, reported) ==
  /\ Settle(t, r, reported)
  /\ UNCHANGED <<labels, submitted, posted, proof, unguarded, worker, claimer, sweep, overrun, crashes>>

\* The worker thread reports; it loses if the run has settled meanwhile.
WorkerCompletes(t, r, reported) ==
  /\ worker[r] = "running" /\ LockFree
  /\ worker' = [worker EXCEPT ![r] = "done"]
  /\ Completes(t, r, reported)
  /\ UNCHANGED <<labels, submitted, posted, proof, unguarded, claimer, sweep, overrun, crashes>>

\* WorkLauncher._fail_launch(): any failure between the claim and the worker.
FailLaunch(t, r) ==
  /\ worker[r] \in {"claimed", "recorded", "failed"} /\ LockFree
  /\ worker' = [worker EXCEPT ![r] = "done"]
  /\ Completes(t, r, "blocked")
  /\ UNCHANGED <<labels, submitted, posted, proof, unguarded, claimer, sweep, overrun, crashes>>

\* Mutant: only runs whose worker this process started are swept.
SweepOwnWorkers ==
  /\ LockFree /\ sweep = {}
  /\ sweep' = {r \in RunId : Active(r) /\ is_expired(r) /\ worker[r] = "running"}
  /\ UNCHANGED <<reg, labels, submitted, posted, proof, unguarded, worker, claimer, thr, overrun, faults, crashes>>

\* sweep_expired(): the snapshot under the lock, then one complete() at a time.
SweepSnapshot ==
  /\ LockFree /\ sweep = {}
  /\ sweep' = {r \in RunId : Active(r) /\ is_expired(r)}
  /\ UNCHANGED <<reg, labels, submitted, posted, proof, unguarded, worker, claimer, thr, overrun, faults, crashes>>

SweepComplete(t, r) ==
  /\ r \in sweep /\ LockFree
  /\ sweep' = sweep \ {r}
  /\ Completes(t, r, "timed_out")
  /\ UNCHANGED <<labels, submitted, posted, proof, unguarded, worker, claimer, overrun, crashes>>

-----------------------------------------------------------------------------
(* _sync_github() and resync_pending() *)

\* Where the issue goes; a success stays where it is until review-sync.
target(r) == IF reg[r].status = "cancelled" THEN "ready" ELSE "blocked"

\* Mutant: a run that was synced meanwhile is synced again.
TakeSyncAgain(t, r) ==
  IF ~gh_sync_claim_stale(r)
  THEN Return(t) /\ UNCHANGED <<reg, overrun>>
  ELSE /\ reg' = [reg EXCEPT ![r].syncAge = 0]
       /\ thr' = [thr EXCEPT ![t] =
                    At(IF reg[r].status = "succeeded" THEN "submit" ELSE "swap", r)]
       /\ overrun' = (overrun \/ \E u \in Thread \ {t} : thr[u].run = r /\ thr[u].at \in Holding)

\* Take the sync claim for r, or give up: synced already, or claim still fresh.
TakeSync(t, r) ==
  IF reg[r].synced \/ ~gh_sync_claim_stale(r)
  THEN Return(t) /\ UNCHANGED <<reg, overrun>>
  ELSE /\ reg' = [reg EXCEPT ![r].syncAge = 0]
       /\ thr' = [thr EXCEPT ![t] =
                    At(IF reg[r].status = "succeeded" THEN "submit" ELSE "swap", r)]
       /\ overrun' = (overrun \/ \E u \in Thread \ {t} : thr[u].run = r /\ thr[u].at \in Holding)

SyncClaim(t) ==
  /\ thr[t].at = "claim" /\ LockFree
  /\ TakeSync(t, thr[t].run)
  /\ UNCHANGED <<labels, submitted, posted, proof, unguarded, worker, claimer, sweep, faults, crashes>>

\* Mutant: only runs whose label is still to be moved are resynced.
ResyncLabels(t, r) ==
  /\ thr[t] = Idle /\ LockFree
  /\ Root(r) /\ reg[r].status \in Terminal \ {"succeeded"} /\ ~reg[r].synced
  /\ gh_sync_claim_stale(r)
  /\ TakeSync(t, r)
  /\ UNCHANGED <<labels, submitted, posted, proof, unguarded, worker, claimer, sweep, faults, crashes>>

\* One run of resync_pending()'s pass.
Resync(t, r) ==
  /\ thr[t] = Idle /\ LockFree
  /\ Root(r) /\ Settled(r) /\ ~reg[r].synced
  /\ gh_sync_claim_stale(r)
  /\ TakeSync(t, r)
  /\ UNCHANGED <<labels, submitted, posted, proof, unguarded, worker, claimer, sweep, faults, crashes>>

SyncSwap(t) ==
  LET r == thr[t].run IN
  /\ thr[t].at = "swap"
  /\ labels' = swap_label(reg[r].issue, "in-progress", target(r))
  /\ Goto(t, "comment")
  /\ UNCHANGED <<reg, submitted, posted, proof, unguarded, worker, claimer, sweep, overrun, faults, crashes>>

\* submit_review() is idempotent: its id is a function of the run id.
SyncSubmit(t) ==
  /\ thr[t].at = "submit"
  /\ submitted' = submitted \cup {thr[t].run}
  /\ Goto(t, "record")
  /\ UNCHANGED <<reg, labels, posted, proof, unguarded, worker, claimer, sweep, overrun, faults, crashes>>

SyncRecord(t) ==
  /\ thr[t].at = "record" /\ LockFree
  /\ reg' = [reg EXCEPT ![thr[t].run].recorded = TRUE]
  /\ Goto(t, "comment")
  /\ UNCHANGED <<labels, submitted, posted, proof, unguarded, worker, claimer, sweep, overrun, faults, crashes>>

SyncComment(t) ==
  /\ thr[t].at = "comment"
  /\ posted' = posted \cup {thr[t].run}
  /\ Goto(t, "finish")
  /\ UNCHANGED <<reg, labels, submitted, proof, unguarded, worker, claimer, sweep, overrun, faults, crashes>>

SyncFinish(t) ==
  /\ thr[t].at = "finish" /\ LockFree
  /\ reg' = [reg EXCEPT ![thr[t].run].synced = TRUE]
  /\ Return(t)
  /\ UNCHANGED <<labels, submitted, posted, proof, unguarded, worker, claimer, sweep, overrun, faults, crashes>>

\* Mutant: a failed call is logged and the sync counts as done.
SyncFailsQuietly(t) ==
  /\ thr[t].at \in {"swap", "submit", "comment"}
  /\ Fault
  /\ Goto(t, "finish")
  /\ UNCHANGED <<reg, labels, submitted, posted, proof, unguarded, worker, claimer, sweep, overrun, crashes>>

\* A GitHub or session-store error ends the attempt; the claim is not given back.
SyncFails(t) ==
  LET r == thr[t].run IN
  /\ thr[t].at \in {"swap", "submit", "comment"}
  /\ Fault
  /\ \/ UNCHANGED <<labels, posted>>
     \/ /\ thr[t].at = "swap"
        /\ labels' = swap_label(reg[r].issue, "in-progress", target(r))
        /\ UNCHANGED posted
     \/ /\ thr[t].at = "comment"
        /\ posted' = posted \cup {r}
        /\ UNCHANGED labels
  /\ Return(t)
  /\ UNCHANGED <<reg, submitted, proof, unguarded, worker, claimer, sweep, overrun, crashes>>

-----------------------------------------------------------------------------
(* The environment *)

\* The operator sends an issue the dispatcher blocked back to ready.
OperatorReady(i) ==
  /\ labels[i] = {"blocked"}
  /\ labels' = [labels EXCEPT ![i] = {"ready"}]
  /\ UNCHANGED <<reg, submitted, posted, proof, unguarded, worker, claimer, thr, sweep, overrun, faults, crashes>>

\* The process dies: its threads and its sweep are gone, the registry file,
\* GitHub and the workers' branches stay. A restart reloads the registry.
Crash ==
  /\ crashes < MaxCrashes
  /\ crashes' = crashes + 1
  /\ thr' = [t \in Thread |-> Idle]
  /\ claimer' = NoClaimer
  /\ sweep' = {}
  /\ worker' = [r \in RunId |-> CASE worker[r] \in {"running", "orphaned"} -> "orphaned"
                                  [] worker[r] = "none" -> "none"
                                  [] OTHER -> "done"]
  /\ UNCHANGED <<reg, labels, submitted, posted, proof, unguarded, overrun, faults>>

\* Time passes, but no GitHub call outlives its timeout.
Tick ==
  /\ \A t \in Thread : InCall(t) => thr[t].call < CallTimeout
  /\ claimer.at # "idle" => claimer.call < CallTimeout
  /\ reg' = [r \in RunId |->
       [reg[r] EXCEPT !.syncAge = Older(@, SyncLease + 1),
                      !.lifeAge = IF Active(r) THEN Older(@, RunLease + 1) ELSE @]]
  /\ thr' = [t \in Thread |->
       [at   |-> thr[t].at, run |-> thr[t].run,
        call |-> IF InCall(t) THEN thr[t].call + 1 ELSE thr[t].call,
        held |-> IF thr[t].at \in Holding THEN Older(thr[t].held, SyncLease + 1) ELSE thr[t].held]]
  /\ claimer' = IF LockFree THEN claimer
                ELSE [at |-> claimer.at, run |-> claimer.run, call |-> claimer.call + 1]
  /\ UNCHANGED <<labels, submitted, posted, proof, unguarded, worker, sweep, overrun, faults, crashes>>

-----------------------------------------------------------------------------
Init ==
  /\ \E i \in Issue : reg = [r \in RunId |-> NewRun(i, NoRun, 0, "plain", "absent")]
  /\ labels = [i \in Issue |-> {"ready"}]
  /\ submitted = {} /\ posted = {}
  /\ proof = [r \in RunId |-> "none"] /\ unguarded = {}
  /\ worker = [r \in RunId |-> "none"]
  /\ claimer = NoClaimer
  /\ thr = [t \in Thread |-> Idle]
  /\ sweep = {}
  /\ overrun = FALSE
  /\ faults = 0 /\ crashes = 0

Launching ==
  \/ \E r \in RunId, i \in Issue, k \in Kinds \ {"mutating"} : Claim(r, i, k)
  \/ ClaimSwap \/ ClaimComment \/ ClaimFails
  \/ \E r \in RunId :
       \/ \E limit \in Limits, m \in BOOLEAN : (m => "mutating" \in Kinds) /\ RecordMandate(r, limit, m)
       \/ StartWorker(r)
       \/ \E p \in {"bad", "good"} : Work(r, p)
       \/ Heartbeat(r)
       \/ \E c \in RunId : SpawnChild(r, c)

Completing ==
  \/ SweepSnapshot
  \/ \E t \in Thread, r \in RunId :
       \/ \E s \in Outcomes : Submit(t, r, s) \/ WorkerCompletes(t, r, s)
       \/ FailLaunch(t, r) \/ SweepComplete(t, r)

SyncStep(t) ==
  SyncClaim(t) \/ SyncSwap(t) \/ SyncSubmit(t) \/ SyncRecord(t) \/ SyncComment(t) \/ SyncFinish(t)

Syncing ==
  \E t \in Thread : SyncStep(t) \/ SyncFails(t) \/ \E r \in RunId : Resync(t, r)

Environment == Crash \/ Tick \/ \E i \in Issue : OperatorReady(i)

Next == Launching \/ Completing \/ Syncing \/ Environment

Spec == Init /\ [][Next]_vars

\* GitHub and the session store may fail finitely often (Fault is bounded);
\* threads are scheduled, calls in progress go on, and time passes.
Fairness ==
  /\ \A t \in Thread : WF_vars(SyncStep(t))
  /\ \A r \in RunId : WF_vars(\E t \in Thread : SweepComplete(t, r))
  /\ WF_vars(ClaimSwap \/ ClaimComment)
  /\ WF_vars(Tick)

FairSpec == Spec /\ Fairness

\* Nothing in the repository schedules resync_pending() or sweep_expired():
\* the two liveness properties are about hosts that go on calling them.
HostResyncs == \A r \in RunId : WF_vars(\E t \in Thread : Resync(t, r))
HostSweeps  == WF_vars(SweepSnapshot)

-----------------------------------------------------------------------------
(* What must hold *)

TypeOK ==
  /\ reg \in [RunId -> Run]
  /\ labels \in [Issue -> SUBSET Workflow]
  /\ submitted \in SUBSET RunId /\ posted \in SUBSET RunId
  /\ proof \in [RunId -> {"none", "bad", "good"}] /\ unguarded \in SUBSET RunId
  /\ worker \in [RunId -> {"none", "claiming", "claimed", "recorded", "failed",
                           "running", "orphaned", "done"}]
  /\ claimer \in Claimer
  /\ thr \in [Thread -> ThreadState]
  /\ sweep \in SUBSET RunId
  /\ overrun \in BOOLEAN
  /\ faults \in 0..MaxFaults /\ crashes \in 0..MaxCrashes

ActiveRoot(r) == Active(r) /\ Root(r)

\* claim() gives an issue to one run at a time, whatever crashes, failed
\* calls, sweeps, children and late syncs come in between.
OneRunPerIssue ==
  \A r, s \in RunId : ActiveRoot(r) /\ ActiveRoot(s) /\ reg[r].issue = reg[s].issue => r = s

\* max_parallel_workers bounds the issues with a claimed run in progress:
\* children, which claim() counts and spawn_child() does not, can only make
\* it stricter. (Issues with children of settled parents are not bounded.)
WithinCeiling ==
  Cardinality({reg[r].issue : r \in {x \in RunId : ActiveRoot(x)}}) <= MaxWorkers

\* gh_synced is recorded only when everything it stands for is durable: the
\* result comment and, for a success, the submission review-sync acts on.
SyncedIsReported ==
  \A r \in RunId : reg[r].synced =>
    Root(r) /\ Settled(r) /\ r \in posted /\ (reg[r].status = "succeeded" => r \in submitted)

\* Only a run that settled as succeeded is ever submitted for review; a
\* read-only or mutating one with verified evidence, but for a run that
\* submit() settled before its launch recorded that it is mutating.
SubmittedIsAccepted ==
  \A r \in submitted :
    /\ reg[r].status = "succeeded"
    /\ reg[r].kind # "plain" => reg[r].evidence \/ (reg[r].kind = "mutating" /\ r \in unguarded)

\* The sync claim of _sync_github() is exclusive while it is fresh: a second
\* thread gets in only once the first has outstayed the lease.
FreshClaimExcludes ==
  \A t, u \in Thread :
    t # u /\ thr[t].at \in Holding /\ thr[u].at \in Holding /\ thr[t].run = thr[u].run
      => thr[t].held > SyncLease \/ thr[u].held > SyncLease

\* While no call fails, nothing crashes and no sync outlives its lease, an
\* issue carries one workflow label, and in-progress while a run owns it.
LabelsFollowRuns ==
  faults = 0 /\ crashes = 0 /\ ~overrun =>
    /\ \A i \in Issue : Cardinality(labels[i]) = 1
    /\ \A r \in RunId : ActiveRoot(r) /\ claimer.run # r => labels[reg[r].issue] = {"in-progress"}

\* complete() settles a root run once: its status and evidence never change
\* again, whichever of worker, sweep, operator and launcher come later.
SettledIsFinal ==
  [][\A r \in RunId : Root(r) /\ Settled(r) =>
       reg'[r].status = reg[r].status /\ reg'[r].evidence = reg[r].evidence]_vars

\* A mutating run becomes succeeded only on a commit the gate verified, also
\* when its result is recovered from the branch after a timeout.
MutatingSuccessIsProven ==
  [][\A r \in RunId : Active(r) /\ reg[r].kind = "mutating" /\ reg'[r].status = "succeeded" =>
       proof[r] = "good" /\ reg'[r].evidence]_vars

\* A mutating run whose commit is landed and verifiable is written off as
\* timed out only when the recovery of its branch itself failed: not by the
\* sweep, nor by a worker's or an operator's report, nor after a crash.
LandedWorkIsKept ==
  [][\A r \in RunId : Active(r) /\ reg[r].kind = "mutating" /\ proof[r] = "good"
       /\ reg'[r].status = "timed_out" => faults' > faults]_vars

\* If the host keeps calling resync_pending(), every settled root run is
\* eventually reported, although syncs fail, die with the process, or hang
\* with the claim in their hands.
SettledIsSynced ==
  HostResyncs => \A r \in RunId : (Root(r) /\ Settled(r)) ~> reg[r].synced

\* If the host keeps calling sweep_expired(), a run nobody works for any more
\* does not keep its issue: its lease runs out and the sweep settles it.
AbandonedRunSettles ==
  HostSweeps => \A r \in RunId : (Active(r) /\ worker[r] \in {"orphaned", "done"}) ~> ~Active(r)

-----------------------------------------------------------------------------
(* What the documentation says and the code does not do *)

\* ADR-018: the label is the state. The issue of a run that owns it, and
\* whose claim went through, carries in-progress.
LabelIsTheState ==
  \A r \in RunId : ActiveRoot(r) /\ worker[r] \in {"claimed", "recorded", "running"}
    => "in-progress" \in labels[reg[r].issue]

\* scripts/dispatcher.py, module docstring: whoever holds the sync claim is
\* the only one that reaches the GitHub calls.
OneSyncAtATime ==
  \A t, u \in Thread : t # u /\ thr[t].at \in Holding /\ thr[u].at \in Holding
    => thr[t].run # thr[u].run

\* The approved delegation depth of a dispatch request bounds every
\* descendant of the run that carries it.
DelegationWithinMandate ==
  \A r, s \in RunId : Present(s) /\ reg[r].limit # Unset /\ reg[s].parent # NoRun
    /\ (reg[s].parent = r \/ reg[reg[s].parent].parent = r)
    => reg[s].depth <= reg[r].limit
=============================================================================
