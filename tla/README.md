# cortxt: formal specification

cortxt dispatches bounded worker runs for GitHub issues. An operator approves an
issue, a launcher claims it for a run, a worker in its own git worktree does the
work, an evidence gate decides what the worker's word is worth, and the result
goes back to the issue as a comment and a `workflow:*` label. This directory
specifies that machinery in TLA+, checks it with TLC and proves its central
properties with TLAPS.

Paths below are relative to the repository.

## 1. Inventory

| Component | Code | State | Operations | Hard because | Correct when | Module |
|---|---|---|---|---|---|---|
| Dispatcher | `scripts/dispatcher.py` | run registry (a JSON file), the sync claim of every run, the workflow labels on GitHub | `claim`, `spawn_child`, `heartbeat`, `sweep_expired`, `complete`, `_sync_github`, `resync_pending` | worker threads, sweeps and operators settle the same run; GitHub calls run without the lock, fail, time out, and may have taken effect; the process dies | one run per issue, one settlement per run, nothing reported that is not true, everything settled eventually reported | `Dispatcher` |
| Work launcher | `scripts/work_launcher.py` | execution-map claims by run, worktrees | `create`, `resume`, `_launch`, `_fail_launch`, `submit`, `sweep_expired` | two claims (execution map, dispatcher) taken and released in steps that can each fail | a settled run holds no claim; no run is in progress without a worker | `LaunchGate` |
| Worker adapters | `scripts/worker_adapters.py` | threads, heartbeats, subprocesses | `dispatch_async`, `recover_expired_run_evidence` | the worker reports after the run has been settled by somebody else | a landed commit is not lost | `Dispatcher`, `LaunchGate` |
| Evidence gate | `scripts/commit_evidence.py`, `evidence_port.py`, `containment_scan.py` | none | verdict on a claimed success | evidence of one run presented for another | no success without evidence | verdict only |
| Execution map | `scripts/execution_map.py` | SQLite claims, resource rows, receipts, history | `preflight_validate`, `acquire`, `heartbeat`, `release`, `expire_leases`, `bind_engine_session` | leases, generations, transactions that roll back | exclusive keys, an expired lease given up | `ClaimStore` |
| Session store | `agent-platform/runtime/session_state.py`, `session_writer.py` | one append-only log per session, as a file | `create`, `append`, `load` | several processes load, append and save | a gap-free sequence, no event lost | `SessionLog`, `SessionWriter` |
| MCP run lifecycle | `agent-platform/cortxt_mcp/run_lifecycle.py` | sessions, worker threads | create, resume, submit, status | checks and actions in different reads of the log | one active run per issue; a run that ends says so | `RunLifecycle` |
| Mandates | `agent-platform/cortxt_mcp/mandate.py`, `nonce_store.py`, `revocation_store.py` | used nonces, spend, revocation snapshot | verify, consume, debit, refresh | restarts between durable writes; a file that changes while it is trusted | the budget kept; a revocation obeyed | `Mandate` |
| Review submission and sync | `agent-platform/daemon/review_submission.py`, `review_sync.py` | session log events, markers | `submit_review`, `sync_review_submissions` | a crash between the GitHub edit and its marker; rework of an issue | a submission reaches its issue; finished work is not reopened | `ReviewSync` |
| Daemon loop | `agent-platform/daemon/loop.py` and helpers | claims, streaks, STOP file | poll, claim, run, gate | claims and autonomy that outlive the process | no issue worked on twice; autonomy is earned | `DaemonLoop` |
| Supervisor | `agent-platform/supervisor/` | children's sessions and processes | spawn, wait, cancel, recover | children that end while being cancelled or recovered | success means both children succeeded; what is declared over is dead | `Supervisor` |
| Action host | `agent-platform/widget/action_host.py`, `widget_contract/` | none of its own: reads registry, sessions, labels | mark-ready, record-decision, recover, unblock, claim-run | reads at different moments, one write at the end | issues opened only over settled runs; a launch is what was confirmed | `ActionHost` |
| Dialogue | `agent-platform/widget/dialogue_service.py`, `runtime/dialogue_store.py`, `runtime/adapters/acp_adapter.py` | session logs, live connections, open turns | connect, send, cancel, end of the host | threads per request, worker and helper, agents that die, a disk that fails | one open turn, every turn ends, nothing wedged | `Dialogue` |
| Core store | `agent-platform/state/core_store.py` | one file per record | `append`, reads | several processes, a winner that withdraws | what was appended stays | `CoreStore` |
| Atlas sync | `scripts/atlas_sync.py` | maps on GitHub | `build_graph`, render, update | arbitrary relations between issues | a forest, every cycle reported | `AtlasGraph` |
| Events | `agent-platform/events/` | idempotency file | dispatch, register | concurrent deliveries | handled at most once | - |
| Ledger, work records | `agent-platform/state/` | none of their own | read, render | - | - | - |
| Learning | `agent-platform/learning/` | SQLite registry of candidates | promote, roll back | promotion against an older policy | only gated policies become active | - |
| Routing, budgets, credentials | `agent-platform/routing/`, `adapters/inference/`, `security/` | manifests, counters of one thread | route, charge | limits | no overspend | - |
| Reasoning, inference, harness | `agent-platform/reasoning/` ... | none of their own | numerical and prompt code | - | - | - |
| CLI, tooling | `agent-platform/cli/`, `scripts/*` | projections | rendering, HTTP, checks of the repository | - | - | - |

How they meet: the launcher calls the dispatcher under an execution-map claim;
the dispatcher's settlement calls the evidence gate (inside its lock) and, for a
success, review submission (outside); review submission appends to the session
log that review sync later reads to move the issue; the MCP server and the
supervisor write the same kind of session log; the action host reads registry and
sessions before it moves a label or has the launcher start a run; dispatcher,
host, review sync and people write the labels of the same issues.

`PROJECT.json` lists every component with its status and every hazard found, at
its line, with the property that guards it or the reason none does.

## 2. Modules and how they are composed

| Module | Extends | Abstract specification | Instance | Proofs |
|---|---|---|---|---|
| `Dispatcher` | | `DispatchContract`, by `DispatcherRefinement` | `MCDispatcher` | `Dispatcher_proofs` |
| `ClaimStore` | | `LockTable` | `MCServices` | `LaunchGate_proofs` |
| `LaunchGate` | `ClaimStore` | | `MCLaunchGate` | `LaunchGate_proofs` |
| `SessionLog` | | | in the next two | |
| `SessionWriter` | `SessionLog` | `AppendLog` | `MCServices` | `Services_proofs` |
| `RunLifecycle` | `SessionLog` | | `MCRunLifecycle` | `RunLifecycle_proofs` |
| `ReviewSync` | | | in the next | |
| `DaemonLoop` | `ReviewSync` | | `MCDaemonLoop` | `DaemonLoop_proofs` |
| `ActionHost` | `Dispatcher` | | `MCActionHost` | `ActionHost_proofs` |
| `Mandate`, `CoreStore` | | | `MCServices` | `Services_proofs` |
| `Supervisor` | | | `MCServices` | `Supervisor_proofs` |
| `Dialogue` | | | `MCServices` | `Dialogue_proofs` |
| `AtlasGraph` | | | `MCServices` | `Services_proofs` |

`LaunchGate` composes the launcher with the claim store, `RunLifecycle` the MCP
server with the session log, `DaemonLoop` the daemon with review sync, and
`ActionHost` the host with the dispatcher, whose actions it takes unchanged.

`MCServices` puts seven components that share no state into one run: the initial
state chooses a `focus`, and every step is a step of that component, the
variables of the others staying as they were. A behaviour of the bundle is
therefore a behaviour of one component beside idle ones, and each property
speaks of the variables of its own component. The project keeps to a dozen TLC
runs this way.

What may come next, in this order: the tree of planned nodes (`run_node`) of the
supervisor; the dependency graph and waves of `execution_map.py`; the inside of the
launcher's worktree set-up.

## 3. The dispatcher

### Modules

* `Dispatcher` - state machine of `scripts/dispatcher.py` with the parts of
  `work_launcher.py`, `worker_adapters.py` and `review_submission.py` that write
  the run registry or run in its threads.
* `DispatchContract` - what the dispatcher promises: a run owns an issue alone,
  settles once, is reviewed only if it succeeded, is reported only when what the
  report stands for exists.
* `DispatcherRefinement` - the mapping from the one to the other.
* `MCDispatcher` - TLC instances. `Dispatcher_proofs` - theorems.

### State and code

| Variable | Code |
|---|---|
| `reg` | `RunRegistry._runs` and its file. A record keeps the fields decisions depend on; `evidence` stands for `commit_evidence` / `readonly_report_evidence`, `recorded` for `review_submission_id`, `synced` for `gh_synced`, `limit` for `delegation_depth`, `kind` for `mutating` and the read-only runtime |
| `labels` | the `workflow:*` labels of the issues, on GitHub |
| `submitted`, `posted` | the `run.review_submitted` event in the session store, the result comment on the issue |
| `proof` | what the worker left: nothing, evidence the gate refuses, evidence it accepts |
| `worker` | how far the launch and then the worker of a run have got |
| `claimer` | the thread inside `claim()`, which keeps `_lock` during its GitHub calls |
| `thr` | threads in `_sync_github()`: the next step, the run, the time spent in the current call, the time since the claim was taken |
| `sweep` | the rest of the snapshot `sweep_expired()` works through |
| `overrun` | history: a sync claim was taken while its earlier holder was still at work |
| `unguarded` | history: runs that were settled before their launch recorded the mandate |
| `faults`, `crashes` | how many failures have happened (bounds) |

Every section of code under `_lock` is one action with `LockFree` as its guard;
`claim()` makes its GitHub calls inside the lock, so while `claimer` is busy no
other locked section runs. Every GitHub or session-store call without the lock is
an action of its own. A call lasts 0 to `CallTimeout` ticks (`Tick` does not
pass that), may raise (`ClaimFails`, `SyncFails`), and a call that raises may
have taken effect, which is what a `gh` timeout means.

`Settle` is the locked part of `complete()`: timeout recovery, containment and gate
verdict, the registry update. The recovery (`Recovered`) may raise or find nothing,
which leaves the timeout (lines 521-528) and counts as a fault. What a plain run
presents is open (`Presented`): with an observation digest in its envelope the
read-only gate looks at it too (lines 611-614). The callers are the operator or
coordinator (`Submit`), the worker thread (`WorkerCompletes`), the launcher
(`FailLaunch`) and the sweep (`SweepComplete`); those that lose the race get the
`RuntimeError` of line 465 and stop (`Completes`). A submission that comes before
`RecordMandate` settles the run by the gate of a plain one (section 14). `TakeSync` is the claim of
`_sync_github()`, reached from `complete()` (`SyncClaim`) or `resync_pending()`
(`Resync`); a failed attempt does not give the claim back.

`Crash` kills all threads; the registry, GitHub, the session store and the
workers' branches stay. A worker subprocess may outlive its dispatcher
(`orphaned`) and still commit.

Abstractions: time is counted in ticks and ages stop one tick past the lease they
are compared with (`None` for `gh_sync_claimed_at` is the oldest age);
`get_labels` and waiting for the lock take no time of their own, and a
`get_labels` that fails changes nothing and is not a step; one run of
`resync_pending()`'s pass is one step, since the snapshot's fields of a settled
run never change and the claim is checked again under the lock; the registry
updates the launcher makes without the lock are single steps; a dispatcher has a
review submitter, as `default_launcher` configures it; the
`CORTXT_NESTED_DISPATCH` guard is left out (it stops a worker from having a
dispatcher at all). Child runs are settled by `submit()` or the sweep, the two
callers the code has for them.

### Runs

| Run | Instance | Shows |
|---|---|---|
| `core` | 2 runs, 1 issue, 2 threads, lease 2, call 1, 1 fault | exclusive claims, final settlements, exclusive fresh sync claims, labels that follow the runs while no sync outlives its lease |
| `gate` | 1 run of each kind and outcome, 2 threads, lease 2, call 1, 2 faults, 1 crash | nothing is synced that is not submitted and reported; nothing unproven succeeds or is submitted; nothing landed is written off unless its recovery failed |
| `children` | 2 runs, 2 issues, 1 thread, lease 1, calls of no length, one level of children, ceiling 1, 1 fault | the issues with claimed runs stay within the ceiling, whatever children do; `DispatchContract` is implemented, successes and submissions included |
| `live` | 1 run, 2 threads, lease 2, call 1, 1 fault, 1 crash, fairness | if the host goes on resyncing, settled runs are reported; if it goes on sweeping, abandoned runs are settled |

Two runs are what exclusivity needs: one that owns and one that wants the issue
or has owned it. Two threads are what the sync claim needs: a holder and a
contender; a third would contend with either in the same way. `SyncLease = 2`
with `CallTimeout = 1` keeps the code's proportions in the respect that matters: a
call is shorter than the lease (20 s and 30 s), two calls are not. `RunLease` is 0 or 1: a run may expire at
any tick after its last heartbeat. One fault is enough to split a registry from
GitHub; the `gate` run has two, to fail the retry as well. `core` settles its runs as
cancelled only, because that is what gives an issue back to the next run; what
happens to a success is the matter of `gate`, `children` and `live`.
`WithinCeiling` counts claimed runs, which is what the code promises: `spawn_child()`
looks at no ceiling, and `claim()` counts the issues of children as well, so that they
can only keep other claims out. Runs, threads and
issues are symmetric; the liveness run does not use symmetry. Each property
of each passing run has a mutant of the code that breaks it.

### Fairness

`FairSpec` assumes that a thread in `_sync_github()` is scheduled, that a sweep that
has begun and the launcher's `claim()` go on, that time passes, and that calls fail
only finitely often (the bound on `faults`). The code justifies these, and weak
fairness is enough: each of these threads can take its step until it has.

It does not assume that anybody calls `resync_pending()` or `sweep_expired()`: no
module of the repository schedules either. They are documented as the recovery path of
the program that hosts the dispatcher, and what that program does is the hypothesis of the
two liveness properties: `SettledIsSynced` says `HostResyncs => ...`,
`AbandonedRunSettles` says `HostSweeps => ...`. Neither says anything of a
host that does not.

## 4. The claim store

`ClaimStore` is `SqliteClaimStore` of `scripts/execution_map.py`. A transaction
(`BEGIN IMMEDIATE` to `COMMIT`) is one action; one that raises is rolled back and
is no step. The read that `bind_engine_session()` makes before its transaction is
a step of its own (`BindCheck`, then `Bind`).

| Variable | Code |
|---|---|
| `claims` | the claims table: state, resource keys, generation, lease, engine session |
| `resources` | the resources table, from key to claim |
| `generation` | `meta.generation` |
| `binding` | calls of `bind_engine_session()` between read and transaction |
| `now` | the clock; a caller may pass an earlier reading of it |

The callers are arbitrary: any process, any set of keys, any expected generation,
right or wrong. `Admits` is what `acquire()` tests: leases that are over are
marked first, each mark moves the generation, and the caller's expectation is
compared after that. `RecoverByHand` is the SQL update the comment in `acquire()`
tells of, which changes the state of a claim and leaves its rows.

`LockTable` is what the store promises: all keys or none, exclusively, until
given up, and never back. `ClaimStore` implements it with
`held = keys of live claims`.

Run `services`, focus `claims`: 2 claims, 2 keys, 2 engine sessions, lease 1, time
to 2, generation to 3. Two claims meet, two keys overlap in part, and three
generations let a binding race with a release or a heartbeat. The theorems of
section 13 do without these bounds, and cover the keys and rows
(`ExclusiveKeysHold`, `RowsCovered`) that the refinement `StoreIsLockTable` implies
of the held keys.

Abstractions: ids are fresh (uuids), so a claim is made once; `run_id` and
`driver_id` are those of the claim, as every caller takes them from it; history
rows and `consume_receipt()` (one `INSERT` of a fresh id) are left out.

## 5. The launch gate

`LaunchGate` extends `ClaimStore` by the launches of `scripts/work_launcher.py`:
`_gate()` with `preflight_validate()` (`Begin`, `ReadActive`, `ReadGeneration`,
`AcquireClaim`, `Reread`), the dispatcher's claim and the set-up (`ClaimRun`,
`Setup`), `_fail_launch()` (`FailRun`, `FailRelease`), the worker thread
(`Heartbeat`, `WorkerEnds`), `submit()`, `sweep_expired()` and the release
that follows a settlement (`TerminalRelease`).

| Variable | Code |
|---|---|
| `ready` | the issues whose label is `workflow:ready` |
| `launch` | local state of `_launch()`: step, issue, clock reading, expected generation, attempts |
| `run`, `beat` | status and last proof of life of its run |
| `worker` | the thread of `dispatch_async()` |
| `toRelease` | threads between `complete()` and the release of the claim |
| `faults`, `crashes` | how many failures have happened (bounds) |

A launch makes at most one claim and one run, so claims stand for all three. Of a
claim's keys only the issue's is shared with other launches: the others contain the
run id, and `default_launcher()` configures no store or engine session.
`Dispatcher.claim()` and `complete()` are one step each, with every outcome of
their label swap; `Dispatcher` has their inside. Failures are a sync that
raises in a sweep (`sync`), an SQLite error in a release (`release`), and an exception
of the re-read after `acquire()`, which nothing catches (`reread`). An adapter always
returns: it has the run's lease as its timeout, and `dispatch_async()` sends heartbeats
until then. Left out: the launcher without a claim store, worktrees (a step of
`Setup` that may raise), the other inventories of the pre-flight (each only adds
reasons to refuse), and an operator's recovery of a claim, which would take the
claim away under a run.

| Run | Instance | Shows |
|---|---|---|
| `launch` | 2 launches, 1 issue, lease 1, receipt 1, 2 attempts, 1 fault of any kind, 1 crash | a run in progress holds its claim; one owner per issue; without failures every claim is given back |
| `leak` | 1 launch, 1 crash, 1 failed sync | the first disagreement of section 14 |

Two launches compete for one issue, and after the first is over the second can
still get it; two attempts are one retry. Time stops at 2, enough for a lease
to run out; the generation stops at 5, more than two claims can use (each
moves it twice).

`FairGateSpec` assumes that launch threads go on, that adapters
return (they have a timeout), and that whoever settled a run gets to its next
statement. It does not assume that anybody sweeps. `ClaimsAreFreed` is stated for
behaviours without failure and crash, because with them the code does leak claims: a
crash between `acquire()` and `Dispatcher.claim()` leaves a claim no sweep finds, a
failed release is not repeated, a re-read that raises leaves the claim it was to check,
and for the failed sync see section 14.

## 6. Sessions

`SessionLog` is the file of `agent-platform/runtime/session_state.py` as its
writers see it: `append()` loads the document, compares the sequence number the
caller expects (`CheckAppend`, or `ConflictAppend`), and replaces the file
(`SaveAppend`); a disk that refuses the new file leaves the old one (`FailAppend`).
Nothing locks the file between the two, which is the module's point;
a save is atomic because `os.replace()` is. `SessionWriter` extends it by the
lock per session of `session_writer.py`, `AppendLog` is what a log is for: events are
added at the end and stay.

| Variable | Code |
|---|---|
| `log` | the events of every session's file; empty where there is no file |
| `hand` | the append a thread is in: its session, the sequence number it expects, the document it loaded, its event |
| `holder` | who holds the lock of a session |

Run `services`, focus `sessions`: 2 threads, 2 sessions, 2 events, logs of up to 3,
a disk that may refuse any append, and a process that dies at any point. Two threads are what a lost append needs;
the theorems do without the bounds.

## 7. MCP runs

`RunLifecycle` is `agent-platform/cortxt_mcp/run_lifecycle.py` over `SessionLog`,
without the lock, since servers are processes of their own and
`run_lifecycle.py` calls `session_state` directly. A run has one session, so sessions
stand for runs.

| Variable | Code |
|---|---|
| `log`, `hand` | section 6; a server and the worker of a run are one writer each |
| `call` | where the tool call of a server is, between its reads and its appends |
| `worker`, `owner` | the daemon thread of a run, the server that started it |
| `acked`, `stranded` | history: acknowledged submissions; runs nobody is left to end, because the server died with their worker, the disk refused the worker's last append, or the thread could not be started |
| `calls`, `crashes`, `faults` | bounds |

`create_run` is `CreateScan`, `CreateSession`, `HeaderSaved`, `AppendRunning`,
`RunningSaved`, `StartWorker`; `resume_run` is `Resume`, `ResumeReturns`, `ResumeSaved`;
`submit_for_review` is `Submit`, `SubmitLoad`, `SubmitSaved`. A conflict or a disk
error (`AppendError`) ends a call (`CallConflict`). In the worker it is taken for a failed turn and tried once
more (`WorkerConflict`, `WorkerRetry`); the second one ends the thread
(`WorkerDies`). What a session says of its run is read off the log by the code's
own functions (`_last_run_status`, `_resolve_for_context`, `_active_run_for_issue`).
`get_run_status` only reads; the mandate check in front of each call is
section 9.

Run `lifecycle`: 2 servers, 3 runs of 1 issue, 1 key with 1 payload, 3 calls, 1 crash, 1
fault, one outcome of a turn (`failed`; the others end a turn in the same way).
Two servers that pass the scan together and a third run that must not follow; three calls
are a create, and a resume or submission that races with its worker, and one more.
`FairSpec` assumes that a worker thread goes on, an adapter having a timeout, and that a
server that has written `run.running` gets to its next statement, the start of that
thread; nothing of calls. `RunsEnd` says what then follows, with stranded runs as the
exceptions the code makes. Two payloads under one key would only meet the
refusal, which writes nothing.

## 8. Review sync and the daemon

`ReviewSync` is a pass of `agent-platform/daemon/review_sync.py`, call by call:
the marker file is read once, an issue's labels are viewed, edited in a later
call, and the marker file is rewritten as this pass knows it. `DaemonLoop` extends it by
`agent-platform/daemon/loop.py`, whose every iteration starts with a pass;
`daemon sync-review` runs passes beside it over the same file.

| Variable | Code |
|---|---|
| `labels` | the workflow labels of an issue; a closed issue counts as done |
| `submitted`, `marked` | submissions in the run store; `review_sync.json` |
| `pass` | a pass: its place, the markers and labels it read |
| `at`, `job`, `result` | where `run_forever()` is, its issue, what the engine's run came to |
| `claimed`, `streak` | `claimed.json` and `autonomy.json`, in memory and on disk |
| `supervised`, `stop` | `--unattended`, the STOP file |
| `applied`, `invoked`, `since`, `row`, `awaits` | history, for the properties; `awaits` says whether a clean run that had not earned autonomy waits for its review, or for one whose verdict was lost |

One iteration is `Poll`, `Sync` (the pass), then `Scan` or `Claim`, `Invoke` or
`NoWorktree`, `EngineEnds` or `EngineRaises`, `Gate`. `EngineRaises` is the
exception `run_once()` does not catch; it leaves before the run is recorded.
`GateFails` is an exception of the gate's own writes, before or after
`autonomy.json` is on disk: `run_forever()` swallows it and, unless writing the
status fails as well, goes on whatever the verdict was. A call
that fails may have taken effect (`CallFails`), a marker that cannot be written
stays in the memory of its pass (`MarkFails`), and a session or marker file that cannot
be read ends the whole pass (`PassAborts`). People move labels at any time
along `WorkflowMoves`.

Left out: the ranking of candidates (any may be first), the session budget (like
STOP, a reason to go down), the engine's work.

Run `daemon`: 2 issues of one class, two submissions of the first, threshold 1, one
fault or crash, one label move, two starts, a daemon and an operator's pass. Two
submissions of one issue are what rework is; two passes are what loses a
marker; two starts are a restart. One class suffices, since nothing relates
two. `FairSpec` assumes only that the loop goes on while it runs;
`SubmissionIsSynced` has `at = "down"` as its way out. Failures are finitely many, so a
session file that stays unreadable, and ends every pass at the same point, is not
in the model (section 14).

`ProceedIsEarned` is an invariant over all of this: as long as the daemon is up, no clean
run that had not earned autonomy waits for its review. `since` counts clean runs
from the last freeze that reached the disk.

## 9. Mandates

`Mandate` is `verify_mandate()` with `nonce_store.py` and `revocation_store.py`. The
order of the checks is the code's, because each leaves something behind:
the nonce is consumed whatever the later checks say, the spend is debited
whatever is decided after it, and even a refused call refreshes the snapshot.

| Variable | Code |
|---|---|
| `file` | `revocations.json`: whether it parses, its generation, its keys, its `stamp` (the code's mtime and size), the instant it was put there |
| `server`, `snapshot` | the process and the revocation snapshot it holds |
| `call` | a call between its nonce and its debit |
| `nonces`, `spent` | `used_nonces.json`, `budget_spent.json` |
| `accepted`, `losses` | history: the cost of accepted calls; how often each register was read as empty |
| `clock` | the clock |

The operator may publish any file (`Publish`); the server may stop after any
durable write. A register that is missing, unreadable or corrupt reads as the empty one
(`_read_json`), which the next write then makes the register; a write that fails
refuses the call (`WriteFails`). One server at a time: `nonce_store.py:19-22` says that several are not
supported. Signatures, tools, data classes and scope are `fits`, `bound` and
`Refuse`: each is a test of the envelope alone.

Run `services`, focus `mandates`: one key, one mandate of 2 units in two envelopes,
costs 1 and 2, refresh 1, freshness 1, three instants, two files, one loss of each
register. Two costs make a
sum above the cap; a second file is a revocation, its removal or an unreadable
file. The theorems do without the bounds.

## 10. Supervisor and core store

`Supervisor` is `run_m2()` of `agent-platform/supervisor/coordinator.py` with
`cancel_root()` and `recover()`, and the two appends of a child
(`coding_loop_cli.run_child`). Processes share nothing but the logs, so one append is one
step; what happens inside is section 6. Nothing keeps `cancel_root()` or `recover()`
from running beside a live `run_m2()`, so they may start at any time; whichever dies
takes no further step. A kill may leave its child alive, and a probe may not be able to
read a start time and so take a live child for dead; neither is noticed by the
callers (`Kill`, `TakenForDead`). A spawn that fails on the start time leaves a process
nobody knows (`ChildSpawnFails`).

| Variable | Code |
|---|---|
| `stored` | the events of the root's and the children's sessions |
| `proc` | the children's processes; they outlive their parent |
| `misjudged` | history: children a kill left alive or a probe took for dead |
| `run` | where `run_m2()` is, its child, the document it read |
| `cancel`, `recovery` | the same for the other two, with the children left to visit |

`run_m1()` runs its children in the same way without the handoff; `run_node()`, budget
arithmetic and handoff files are left out. Focus `supervisor` of run `services`: a
root and its two children, which is all `run_m2()` has, and one misjudged child. Run `join_result` is the
same instance by itself (section 14).

`CoreStore` is `append()` of `agent-platform/state/core_store.py`: a file per identity,
created exclusively, written, synchronised and, if that fails, withdrawn by its
creator; the losers read it, in vain while it is partial or gone.
`record` is the files, `op` the call of every process, `appended` and `answered` are
histories of what callers were told. Focus `core_store`: 3 processes, 2 identities, 2
payloads, one failure: a winner that withdraws, one that follows it, and a
reader of the first.

## 11. The action host

`ActionHost` extends `Dispatcher` by the operator's actions of
`agent-platform/widget/action_host.py`, with the run authority and the ports of
`widget_contract/`. The host shares no lock with the dispatcher: each read
of a request, the registry, the sessions, the issue, is a step, and the label swap
is one more.

| Variable | Code |
|---|---|
| `request` | a request's thread: the operation, its place, the registry it read, the mandate it confirmed |
| `brief` | the mandate an issue states; `Eligible` stands for what `dispatch_request.py` decides of it |
| `mcp` | a run of the MCP tools on the issue, which no registry knows |
| `reviewed` | submissions that review sync has applied |
| `launched` | history: what a run was launched with |

`mark-ready`, `record-decision`, `recover` and `unblock` are `StartTransition` to
`SwapLabel`, the last two through `ReadRegistry` and `ReadSessions`; `claim-run` is
`BindClaimRun`, `Resume`, `Launches`. `correlate_run_summaries` and
`compute_run_freshness` are the code's decisions over what was read, in its order.
How old a heartbeat is stays open, so every run in progress may look
fresh, stale or stranded.

Run `actions`: 2 runs of 1 issue, 1 sync thread, 2 requests, 3 briefs of which
2 are eligible, and engines that report success, which the gate settles as succeeded or
blocked. Two requests race with each other, two runs are one that is
over and one that follows. A brief that is eligible but not the confirmed one, and one that is
not eligible, are the two ways a launch could go wrong. The dispatcher goes without clock,
crashes and failed calls, which section 3 has; its sync may be as late as it
likes. Run `recover_label` is the same instance with one request (section 14).

## 12. Dialogue and atlas

`Dialogue` is `agent-platform/widget/dialogue_service.py` over
`runtime/dialogue_store.py` and `runtime/adapters/acp_adapter.py`. An action is the
section of a thread under the service's lock, or one call of the store, whose lock
makes its check and its append one.

| Variable | Code |
|---|---|
| `bound`, `turns`, `outcome` | a session's log as the store folds it |
| `conn`, `open`, `pend`, `seen` | `_Session`: connection, open turn, pending live events, request ids |
| `request` | the thread of a request in `connect`, `send_turn` or `cancel_turn` |
| `worker`, `verdict` | `_TurnWorker` and its helper thread; what the prompt ended with |
| `agent`, `prompt` | connections, and the prompt in flight on each |
| `owner`, `excused` | history, for the properties |

A request keeps what it read (`ConnectReads` ... `Register`; `SendChecks`,
`StartTurn`, `RecordTurn`), a worker prompts, flushes, drains and finishes
(`_prompt_on_helper` ... `Forget`), and a store error ends the turn by another way
(`_store_failure`, `LastFinish`). The turn becomes the session's open one in one locked
section (`RecordTurn`) and its thread is started in the next (`StartWorker`), which may
fail. An `OSError` that is no `DialogueStoreError`, or a helper thread that does not
start (`HelperFails`), ends the worker where it is (`Dies`). `Ended` is what the end of a connection does to the
prompt in flight. `Restart` is the end of the host, orderly or not, and its next start. Left out:
event contents and paging, `create_session` (an empty session nobody knows yet), and
the writer lock, which allows one host per directory.

Focus `dialogue` of run `services`: 1 session, 2 request threads, 2 connections, 1
request id, 2 turns, 1 live event, 1 live agent allowed, 1 trouble, one kind of answer (what an
answer says is data, the other ends of a prompt being losses and errors). Two threads
make two connects, or a send and a cancel, meet; the second turn is the one that might
inherit what the first left. `DialogueFairness` assumes that a request that has stored
its turn goes on to start the worker, that workers go on, and that prompts end, because the
connection ends them at their time limit. Nothing is assumed of requests.

`AtlasGraph` is `build_graph()` of `scripts/atlas_sync.py`: `Resolve` is
containment (`resolve_containment`, `find_containment_cycle_members`) and blockers,
the rest is the depth-first search of `find_prereq_cycle_members()`. Python walks a
set in an order of its own, so the search takes nodes and blockers in any order.
Focus `atlas`: 3 issues, a map and one elsewhere, any relation among them; a map may be
a parent, as any issue may, and blocks nothing. The two kinds of
relation never meet in the code, so one of them at a time is arbitrary. Three issues
are a cycle and a node beside it, two cycles that share a member, and a cycle with
a chord.

### The run of the seven

Run `services` explores the seven components of `MCServices` one beside the other
(`focus`), 1.4 million states in all. Only the dialogue service promises that
something happens, so `ServicesSpec` has its fairness and no other.

| Focus | Properties |
|---|---|
| `claims` | `StoreIsLockTable`, `EngineSessionBoundOnce` |
| `sessions` | `ImplementsAppendLog` |
| `core_store` | `AppendedIsFrozen` |
| `dialogue` | `OneOpenTurn`, `NeverWedged`, `DrainedBeforeFinished`, `TurnsEnd` |
| `mandates` | `SpendWithinCap`, `RevocationReaches` |
| `supervisor` | `SucceededIsJoined`, `DeclaredOverIsDead` |
| `atlas` | `ContainmentIsForest`, `CyclesAreReported` |

## 13. What is proved

`Dispatcher_proofs`, for every set of runs, issues and threads, every lease, timeout,
ceiling, depth and bound that satisfies the assumptions `Dispatcher` names (of
these only `CallTimeout < SyncLease`, the order lines 94 and 95 of
`dispatcher.py` fix, says something about the code):

* `TypeCorrect`: `TypeOK` is inductive. Two case lemmas come with it:
  `RegistrySteps` and `ThreadSteps` split `[Next]_vars` into the few ways a step
  can change `reg` or `thr`, and every later proof goes through them.
* `SettledFinal`, `OneRunPerIssueHolds`: from `TypeOK` and the fact that only
  `Settle` changes an active run and only `Claim` makes an active root.
* `WithinCeilingHolds`: `WithinCeiling` counts claimed (root) runs and is not inductive.
  `CeilingInv` adds that the issues that ever had a run are finite (a step adds
  at most one to them), without which cardinalities say nothing; `Claim` then
  compares `MaxWorkers` with a set that includes the issues of all active roots,
  and finite-set theorems give the step.
* `ReportsAreTrue`: `ReportInv` says what holds at each point of
  `_sync_github()` (a thread about to finish has posted; one that posts for a
  success has submitted) beside what holds of each record.
* `FreshClaimExcludesHolds`: `ClaimAgeInv` says a holder has held at least as
  long as the claim on its run is old, so whoever finds it stale finds the
  holder past the lease.
* `MutatingSuccessHolds`, `LandedWorkHolds`: every step that ends an active run
  is `Settle`, and the gate and the recovery decide what it ends as. What landed is
  written off as a timeout only in a step that counts a fault, the recovery's own.
* `LabelsFollowRunsHolds`: as long as no call failed, nobody crashed and no call
  outlasted its lease (`Calm`, the hypothesis of the property itself), `LabelInv` is
  inductive. It says who may move the labels of an issue now: a claim past its
  swap, or a sync that has not yet swapped back, is the one owner of the issue and
  shows `in-progress`; a claim before its swap still finds `ready`; a run's sync has one
  holder; and an issue always has exactly one of the three labels.
* `SubmittedIsAcceptedHolds`: from `ReportInv` too; whoever submits read a run that
  had settled as succeeded, and a status stays. A read-only or mutating run that
  succeeded has its evidence, but for those that `unguarded` names.
* `DispatcherImplementsContract`: initial states map to initial states, every
  step to `Own`, `SettleOnce`, `Review`, `Report` or a stutter.

`LaunchGate_proofs`, first of the claim store alone, for every set of keys and
sessions, every finite set of claims and every bound:

* `StoreTypeCorrect`, `RowsCovered`, `ExclusiveKeysHold`,
  `EngineSessionBoundOnceHolds`, all from `StoreInv`. `ExclusiveKeys` alone is not
  inductive: a new claim is compared with rows, not with claims, so
  `RowsCoverLiveClaims` has to be part of it, and exclusion follows because a
  key has one row. Single binding needs `GenerationInv` (no claim's generation
  is ahead of the store's) and `BindingInv` (a caller between its two halves
  holds a generation no newer than the claim's, and if it is the claim's
  own, nobody has bound it since), because it is the generation test that
  protects a check made outside the transaction.
* `StoreImplementsLockTable`: an `Acquire` maps to `Grant`, a release or recovery
  to `GiveUp`, everything else, marking leases included, to a stutter.

then of the launcher on top of it, for any number of launches, faults and crashes:

* `GateTypeCorrect`, `RunHoldsClaimHolds`, `OneOwnerPerIssueHolds`, all from
  `GateInv`, which is `StoreInv`, types and `LaunchInv`. `LaunchInv` says at each
  step of a launch what it has: nothing in pre-flight, a live claim on its issue
  and no run while it is checked, and a run that is settled wherever
  somebody is about to release. Two owners of one issue would both have its
  key, which `ExclusiveKeys` forbids.

`Services_proofs`, for any number of sessions, threads, processes and failures, logs of
any length and any relations between issues:

* `LockInvariant`: `LockInv` says that whoever appends holds the lock of its
  session, and that what it loaded is still the log; mutual exclusion alone would
  not say the second.
* `WriterNeverConflicts` and `WriterIsAppendOnly` follow: a save is then an
  `Add` of `AppendLog`, every other step a stutter.
* `AppendedIsFrozenHolds`, of the core store: from `SoleWriter`, a record that is
  being written has one writer and no one was told that it is appended, so that
  the withdrawal of a record takes back nothing that was promised.
* `SpendWithinCapHolds`, of the mandates, for every cap, cost and interval: from
  `DebitedFirst`, the accepted costs never exceed the debited ones and one cap for each
  loss of the register of the spend.
* `RevocationReachesHolds`: from `SnapshotFollows`, which ties the snapshot to the
  file by its stamp, so that a snapshot looked at since the file was published
  is that file or is marked invalid.
* `ContainmentIsForestHolds`, of `build_graph()`, for any finite set of issues: a walk
  upwards from an issue on a cycle can always be taken one step further without
  leaving `Cardinality(Work)` issues (`WalkOn`, a pigeonhole), so that whoever is above
  himself is found to be and loses his parent.
* `CyclesAreReportedHolds`: `SearchInv` says that the gray nodes are the stack, each
  of which reaches those above it, that a blocker which was looked at is finished or next on the
  stack unless the node that names it was reported, and that every part of what is finished
  and not reported has a source, a member that no other blocks on. The last
  takes the place of an induction over the order in which nodes finish: a graph whose
  every part has a source has no cycle (`SourcesEndCycles`). What reaches what is
  stated by closed sets, so that nothing about paths is needed here.

`RunLifecycle_proofs`, for any number of servers, runs, calls and crashes:

* `HeaderIsStable`: without a lock a save may put back an old document, so
  `HeaderInv` speaks of the documents in hand as well: what a writer loaded has the
  creation in its first place, and is either only that, in the hands of the
  creator, or has `run.created` behind it.
* `EndedRunIsNotRunningHolds`: `EndInv` says that only the server that created a run
  writes `run.created` and `run.running`, and that every other append is one that
  closes a turn or follows one. So while the log says running, the run's worker
  is the only writer left, meets no conflict and has yet to end it; what the disk does
  to its last append, a thread that does not start and the server's death are
  what `stranded` records.
* `ActiveRunsBoundedHolds`: the runs of an issue that are active, or may still
  become so, each have the server that creates or runs them as their owner, and no
  server owns two (`OneInv`), because a server looks for an active run first. It is
  proved for finitely many servers, without which a cardinality says nothing,
  and for outcomes that end a turn (`Outcome \subseteq Terminal`), which is what
  the engines under `runtime/adapters` return.

`Supervisor_proofs`, for every behaviour of the root and its two children:

* `DeclaredOverIsDeadHolds`: `SupervisorInv` adds that whoever is named in the
  root's log was spawned (`NamedOK`), that `cancel_root()` and `recover()` visit only those
  and mark what is dead or misjudged (`VisitsOK`), and that the coordinator spawns a child
  once (`RunOK`), without which a dead child could be alive again.
* `SucceededIsJoinedHolds`: `JoinInv` says that the log the coordinator judges is an earlier
  state of the child's, which an append lets stand (`AppendGrows`: the first terminal event
  stays the first), that the second child is spawned only on a success of the first with its
  result there, and that what is joined won. That a log with a terminal event has a first
  one is part of the invariant, so that no induction over a log is needed.

`DaemonLoop_proofs`, for any number of passes, issues, submissions and classes, and
through any failures, crashes, restarts and label moves:

* `MarkedWasAppliedHolds`, `DoneIsKeptHolds`: `SyncInv` says that what a pass takes
  for applied, from the log or from its own edit, was applied, and that an edit
  goes ahead only when what the pass saw was not done (that nobody else reopens
  a done issue is an assumption, `WorkflowMoves`).
* `DispatchedOnceHolds`: `LoopInv` says that an issue that had an engine is claimed
  on disk, that the file is within what a running daemon knows, and that an issue
  waiting for its engine is claimed and had none.
* `ProceedIsEarnedHolds`: the other half of `LoopInv`. No streak, in memory or on disk, is
  above the clean runs since the last freeze that was saved, so that what the gate takes for
  earned is, after any restart.

`ActionHost_proofs`, for any requests, edits of the mandates, runs and threads:

* `OpenedOverSettledRunsHolds`, `LaunchIsConfirmedHolds`: a request decides on a
  registry and a mandate it read some steps ago. `HostInv` says what of it is still
  true: a run that was settled in the copy is settled now (`Lasts`, of every step of the
  dispatcher, is the lemma under it), so that an issue released in the copy is released
  now, and what a launch was confirmed for is what it launches.

`Dialogue_proofs`, for any sessions, request threads, connections, turns, live events and
troubles:

* `DialogueTypeCorrect`, `OneOpenTurnHolds`, `NeverWedgedHolds`,
  `DrainedBeforeFinishedHolds`, all from `DialogueInv`. A turn is in one log, so that
  what a worker does to its session it does to the session of its turn
  (`TurnsOK`); one thread is to start a turn's worker (`RequestsOK`); `open_turn_id`
  names a turn of the session whose worker is about to be launched, has yet to clear
  it or died by an error nobody catches (`OpenOK`, which is more than `NeverWedged`: a
  worker that gives up or unregisters has already cleared it); a turn is prompted once, so that after the answer that completes
  it no connection sends for it (`PromptOK`), and the last drain finds every
  event of it in its own session (`PendOK`).

No invariant a run checks is only model-checked. The liveness properties
`SettledIsSynced`, `AbandonedRunSettles`, `ClaimsAreFreed`, `RunsEnd`,
`SubmissionIsSynced` and `TurnsEnd` are beyond the prover.

## 14. Where code and documentation differ

Shown by a run:

1. `TerminalClaimIsReleased` (run `leak`; docstring of `dispatch_async()`, "never left
   held past the point its Run went terminal"): a process dies with a run in progress, and
   its successor's sweep settles that run. The dispatcher's sweep takes any
   `RuntimeError` of a settlement for a lost race, a failed GitHub sync included, so
   the launcher's sweep does not release that run's claim. Once its lease is over
   that one claim refuses every launch, of any issue: `acquire()` marks it, the
   mark moves the generation, the caller's expectation fails, and the rollback
   takes the mark back (`execution_map.py:408-410`).
2. `RunReturns` (run `join_result`; docstring of `run_m2()`): a child appends its terminal
   event before its result, the coordinator stops waiting at the first, and
   `next()` over a document without a result raises (`coordinator.py:280`). A timeout
   of child 2 ends in an unbound variable at line 349.
3. `OneWorkflowLabel` (run `recover_label`; ADR-018:20): a run has settled but its label
   sync has not happened, recover moves the issue to `ready`, and the late sync then adds
   `blocked`.

Stated in a module, false of the code, without a run of their own:

| Property | Says | The code |
|---|---|---|
| `Dispatcher!OneSyncAtATime` | docstring of `dispatcher.py` | two calls of up to 20 s under one lease of 30 s |
| `Dispatcher!LabelIsTheState` | ADR-018 | the late sync of an old run takes `in-progress` from the issue's next run |
| `Dispatcher!DelegationWithinMandate` | `dispatcher.py:173` | a child does not inherit the approved depth |
| `RunLifecycle!ResumedAsDocumented` | `run_lifecycle.py:60-63`: only blocked, failed and timed-out runs are resumed | a run whose last turn succeeded is resumed after its submission |
| `RunLifecycle!AckedSubmissionStays` | ADR-036: safe within a process | two servers, or a server and a worker, load and save without a lock |
| `ReviewSync!AppliedOnce` | `review_sync.py:63`: once | a marker that is lost or overwritten applies a submission again, after rework even against the reviewer |
| `DaemonLoop!StreakIsConsecutive` | `autonomy.py:4`: consecutive | an exception or crash of an engine leaves the streak as it was |
| `Dialogue!OneConnectionPerSession` | `dialogue_service.py:3-4` | the check (435-441) and the registration (502-506) are two locked sections with a spawn between them |
| `CoreStore!AnsweredIsStored` | docstring at `core_store.py:449-451` | a winner whose fsync fails withdraws a record another process has reported as a re-delivery |
| `AtlasGraph!EveryMemberIsReported` | `atlas.md:129`, `test_atlas_sync.py:220` | a chord into a finished part of the search is passed over |

What does hold instead: `FreshClaimExcludes` (exclusion until the lease is over),
`LabelsFollowRuns` (labels follow the runs as long as no sync outlives its
lease), `ClaimsAreFreed` (while nothing fails), `HeaderStable`, `MarkedWasApplied`,
`ProceedIsEarned`, `OneOpenTurn`, `AppendedIsFrozen`, `CyclesAreReported`.

In the models, and excepted by the properties that name it:

* `dispatcher.py:205-211`, a mutating run may not be recorded as succeeded without verified
  evidence, and the docstring at 535: the launcher records `mutating` after the claim
  (`work_launcher.py:910`), and a `submit()` in between settles the run by the gate of a
  plain one; the record is written on the settled run afterwards
  (`SubmittedIsAccepted`, `unguarded`).
* The re-read of the issue after `acquire()` (`work_launcher.py:258`) is outside any
  `try`: an exception leaves the claim with no run (`ClaimsAreFreed` counts it as a
  failure).
* `run_lifecycle.py:634-636`: a disk that refuses the last turn and its retry, or a
  thread that cannot be started at 638, leaves the run saying `running` with its
  server alive, and its issue blocked (`stranded`).
* `loop.py:326-330`: an exception while the gate's outcome is saved is swallowed by
  `run_forever()` (351-353). A pause verdict is lost with it, and the loop takes the
  next issue (`awaits = "lost"`); a freeze that was not saved is forgotten by a restart,
  which brings the old streak back (`since`).
* `nonce_store.py:47-53`: a register that is missing, unreadable or corrupt reads as
  empty, and the next call saves it so. The spend starts again, and nonces may be used
  again, although the docstring at 70 promises that this never is an error that
  lets a nonce through (`losses`). The reset is permanent.
* `process_spawner.py:145-189` may return `False` with the process alive, which
  `coordinator.py:166` and 382 ignore: the child is declared over. A start time that
  cannot be read (112) makes a live child look dead: `recover()` calls it lost, and a
  kill does nothing and reports success (`misjudged`).
* `dialogue_service.py:652-657` and 678-683 catch `DialogueStoreError`, while
  `session_state.py` (66, 77 and 141, which no handler turns into a `SessionError`) may raise an `OSError`: the worker
  dies, `open_turn_id` stays, and every later turn is refused with
  `turn_in_progress` until the host restarts. A thread that does not start (554, 615) does the same.
  The docstring at 643-646 says that such a failure is surfaced
  (`NeverWedged`, `"died"`).

Seen while modelling:

* ADR-018:20, one label at a time: `claim()` writes the registry before the label,
  and a failed swap followed by the launcher's clean-up, which removes
  `in-progress` and adds `blocked`, leaves `ready` and `blocked` together.
* `docs/architecture/dispatch-contract.md:133`, a retry never overwrites prior run
  evidence: `spawn_child()` does not test whether its number is taken, and
  replaces a settled record.
* ADR-039:111, each exclusive resource is unique across active claims:
  `bind_engine_session()` adds no resource row, so two live claims may bind one
  engine session.
* ADR-039:136, hold covers set-up and execution: the launcher does not look at the
  run again after claiming it, so a run swept during a long set-up, its claim
  released, still gets its worker.
* ADR-039:145, after expiry the claim becomes `expired_pending_reconciliation`:
  nothing calls `expire_leases()`, and in `acquire()` the mark survives only when the
  caller guessed the generation the marks lead to.
* Supervisor: a child whose wait times out runs on, unattended. `cancel_root()` reads
  the root's log once, so a child spawned later escapes it, and the root may be
  `cancelled` and then `succeeded`; `run_tree` shows the last terminal event, the
  coordinator acts on the first. `recover()` reattaches without waiting, and
  calls a child lost that finished between the read of its log and
  `is_alive()`. `run_m1()` writes the root's terminal event twice on a timeout.
* Review sync: a session file that cannot be read ends every pass at the same point
  (`review_sync.py:46`), so that no submission behind it is applied while it stays so. The
  failures of the model are passing ones.
* Action host: a run that is claimed after a recover or unblock has read the registry is
  not seen, and the label swap takes its `in-progress` away. The submission of an old run, applied late by review sync, moves the issue of a run
  that has been claimed since. Two confirmations of one mark-ready both
  report success.
* Atlas: `sync_repo()` replaces the whole body of a map by one built from a listing
  read at the start, and so undoes an edit made since (`atlas.md:96`); an
  `update_issue_body` that fails ends the pass for the maps behind it; a crash
  between update and comment loses the comment.

## 15. Not modelled

* Events (`agent-platform/events/`): tests alone call its dispatch, so the code does
  not say which deliveries are concurrent.
* Learning: nothing promotes or rolls back outside tests; every operation of the registry is
  one SQLite transaction.
* `resume(isolate=True, mutating=False)`, the launch of a run that is not mutating and yet
  has a branch of its own: the recovery of `Dispatcher` looks at mutating runs only.
* Two daemons on one state directory, which nothing in the code excludes.
* `run_node()` and `run_m1()` of the supervisor, run tree, budget and handoff:
  the same spawning and waiting as `run_m2()`, projections of logs, additions, file
  copies.
* The audit log, ledger and work records: written or rendered, read by nothing that
  decides.
* The launcher's worktree set-up, the dependency graph and waves of
  `execution_map.py`, git behind the evidence gate, the adapters' wire
  protocols and subprocess handling.
* Routing, budgets, credentials; `reasoning/`, inference, harness, context store,
  portability: sequential code over the data of one call.
* CLI, widget rendering and HTTP, label invariant, inventory, session inbox, webhook
  surface, profiles, repository tooling: projections, parsing and formatting.
* Several dispatchers on one registry file, and several servers on one nonce file:
  excluded by the code's own contracts (`dispatcher.py`, ADR-018, `nonce_store.py`).
* A crash inside the registry's write: the file is rewritten in place, and one that is
  torn cannot be read by the next start. `Dispatcher` takes the write as one step.
