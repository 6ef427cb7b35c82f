---------------------------- MODULE RunLifecycle ----------------------------
(***************************************************************************)
(* cortxt_mcp/run_lifecycle.py: runs that MCP servers create, resume and   *)
(* submit for review, over the session log.                                *)
(*                                                                         *)
(* A run has one session, so sessions stand for runs.  A server works on   *)
(* one call at a time; the worker thread of a run it created goes on       *)
(* beside it and appends under the run's name.  Mandate.tla has the check  *)
(* a call passes before it gets here.                                      *)
(***************************************************************************)
EXTENDS SessionLog, FiniteSets

CONSTANTS
  Server,      \* server processes, one per client connection
  Issue, Key, Payload,
  Outcome,     \* statuses an engine adapter reports
  NoIssue,
  MaxCalls,    \* bound: tool calls that get past their checks
  MaxCrashes,  \* bound: server crashes
  MaxFaults    \* bound: failures of the disk or of a thread's start

Terminal  == {"succeeded", "failed", "timed_out", "budget_exceeded", "blocked", "cancelled"}
RESUMABLE == {"blocked", "failed", "timed_out"}

Created(i)      == [type |-> "session.created", issue |-> i]
RunCreated      == [type |-> "run.created"]
Running         == [type |-> "run.running"]
Turn(st, sid)   == [type |-> "run.engine_turn", status |-> st, session_id |-> sid]
Submitted(k, p) == [type |-> "run.review_submitted", key |-> k, payload |-> p]

ASSUME LifecycleAssumption ==
  /\ Writer = Server \cup Session /\ Server \cap Session = {}
  /\ Event = {Created(i) : i \in Issue} \cup {RunCreated, Running}
             \cup {Turn(st, sid) : st \in Outcome \cup {"failed"}, sid \in BOOLEAN}
             \cup {Submitted(k, p) : k \in Key, p \in Payload}
  /\ Outcome \subseteq STRING /\ Outcome \cap {"created", "running", "review_submitted"} = {}
  /\ NoIssue \notin Issue /\ MaxCalls \in Nat /\ MaxCrashes \in Nat /\ MaxFaults \in Nat

VARIABLES
  call,       \* the call every server is in
  worker,     \* the worker thread of every run
  owner,      \* the server that created the run
  acked,      \* history: every acknowledged submission and its run
  stranded,   \* history: runs nobody can end: their server died with their worker
              \* or before it started one, or nothing could be started or saved
  calls, crashes, faults

vars == <<logVars, call, worker, owner, acked, stranded, calls, crashes, faults>>

Idle == [at |-> "idle", run |-> NoSession, issue |-> NoIssue, event |-> NoEvent]

-----------------------------------------------------------------------------
(* What a session says of its run *)

Of(doc, types) == {n \in DOMAIN doc : doc[n].type \in types}

LastOf(doc, types) == doc[CHOOSE n \in Of(doc, types) : \A m \in Of(doc, types) : m <= n]

_last_run_status(doc) ==
  LET kinds == {"run.running", "run.engine_turn", "run.review_submitted"} IN
  IF Of(doc, kinds) = {} THEN "created"
  ELSE LET e == LastOf(doc, kinds) IN
       CASE e.type = "run.running"          -> "running"
         [] e.type = "run.engine_turn"      -> e.status
         [] e.type = "run.review_submitted" -> "review_submitted"

Status(r) == _last_run_status(log[r])

\* The engine session the last turn left.
HasEngineSession(doc) ==
  Of(doc, {"run.engine_turn"}) # {} /\ LastOf(doc, {"run.engine_turn"}).session_id

\* Mutant: any session resolves.
ResolveAny(r) == Exists(r)

\* A run without run.created has no scope fingerprint: run_not_found.
_resolve_for_context(r) == Of(log[r], {"run.created"}) # {}

ActiveStatus(st) == st \notin Terminal /\ st # "review_submitted"

ActiveRuns(i) == {r \in Session : Exists(r) /\ log[r][1].issue = i /\ ActiveStatus(Status(r))}

\* Mutant: only a run that says "running" holds its issue.
RunningForIssue(i) == {r \in ActiveRuns(i) : Status(r) = "running"} # {}

_active_run_for_issue(i) == ActiveRuns(i) # {}

Resumable(r) ==
  LET st == Status(r) IN
  /\ st # "running" /\ (st \in Terminal => st \in RESUMABLE)
  /\ HasEngineSession(log[r]) \/ st = "created"

-----------------------------------------------------------------------------
(* create_run *)

Calls == calls < MaxCalls /\ calls' = calls + 1
Fails == faults < MaxFaults /\ faults' = faults + 1

\* The scan; a run that is active ends the call with claim_conflict.
CreateScan(s, i) ==
  /\ call[s] = Idle /\ ~_active_run_for_issue(i) /\ Calls
  /\ call' = [call EXCEPT ![s].at = "create", ![s].issue = i]
  /\ UNCHANGED <<logVars, worker, owner, acked, stranded, crashes, faults>>

CreateSession(s, r) ==
  /\ call[s].at = "create"
  /\ create(r, Created(call[s].issue))
  /\ BeginAppend(s, r, 0, RunCreated)
  /\ call' = [call EXCEPT ![s].at = "header", ![s].run = r]
  /\ owner' = [owner EXCEPT ![r] = s]
  /\ UNCHANGED <<worker, acked, stranded, calls, crashes, faults>>

HeaderSaved(s) ==
  /\ call[s].at = "header" /\ SaveAppend(s)
  /\ call' = [call EXCEPT ![s].at = "saved"]
  /\ UNCHANGED <<worker, owner, acked, stranded, calls, crashes, faults>>

AppendRunning(s) ==
  /\ call[s].at = "saved" /\ BeginAppend(s, call[s].run, 1, Running)
  /\ call' = [call EXCEPT ![s].at = "running"]
  /\ UNCHANGED <<log, worker, owner, acked, stranded, calls, crashes, faults>>

\* The run is running on disk before its worker starts ...
RunningSaved(s) ==
  /\ call[s].at = "running" /\ SaveAppend(s)
  /\ call' = [call EXCEPT ![s].at = "start"]
  /\ UNCHANGED <<worker, owner, acked, stranded, calls, crashes, faults>>

\* ... and says so for good when there is no thread to be had.
StartWorker(s) ==
  LET r == call[s].run IN
  /\ call[s].at = "start" /\ call' = [call EXCEPT ![s] = Idle]
  /\ \/ worker' = [worker EXCEPT ![r] = "invoke"] /\ UNCHANGED <<stranded, faults>>
     \/ Fails /\ stranded' = stranded \cup {r} /\ UNCHANGED worker
  /\ UNCHANGED <<logVars, owner, acked, calls, crashes>>

-----------------------------------------------------------------------------
(* The worker thread *)

\* SessionError, or an OSError of the disk.
AppendError(w) == \/ ConflictAppend(w) /\ UNCHANGED faults
                  \/ FailAppend(w) /\ Fails

\* _append_engine_turn loads the session first.
AppendTurn(w, r, e) == BeginAppend(w, r, latest_sequence(log[r]), e) /\ UNCHANGED log

\* Mutant: an exception of the adapter escapes from the thread.
WorkerReturnsOrRaises(r) ==
  /\ worker[r] = "invoke"
  /\ \/ \E st \in Outcome, sid \in BOOLEAN :
          AppendTurn(r, r, Turn(st, sid)) /\ worker' = [worker EXCEPT ![r] = "result"]
     \/ worker' = [worker EXCEPT ![r] = "over"] /\ UNCHANGED logVars
  /\ UNCHANGED <<call, owner, acked, stranded, calls, crashes, faults>>

\* The engine answers ("result") or the adapter raises ("error").
WorkerReturns(r) ==
  /\ worker[r] = "invoke"
  /\ \/ \E st \in Outcome, sid \in BOOLEAN :
          AppendTurn(r, r, Turn(st, sid)) /\ worker' = [worker EXCEPT ![r] = "result"]
     \/ AppendTurn(r, r, Turn("failed", FALSE)) /\ worker' = [worker EXCEPT ![r] = "error"]
  /\ UNCHANGED <<call, owner, acked, stranded, calls, crashes, faults>>

WorkerSaved(r) ==
  /\ SaveAppend(r)
  /\ worker' = [worker EXCEPT ![r] = "over"]
  /\ UNCHANGED <<call, owner, acked, stranded, calls, crashes, faults>>

\* An error while the result is appended is taken for a failed turn ...
WorkerConflict(r) ==
  /\ worker[r] = "result" /\ AppendError(r)
  /\ worker' = [worker EXCEPT ![r] = "retry"]
  /\ UNCHANGED <<call, owner, acked, stranded, calls, crashes>>

WorkerRetry(r) ==
  /\ worker[r] = "retry" /\ AppendTurn(r, r, Turn("failed", FALSE))
  /\ worker' = [worker EXCEPT ![r] = "error"]
  /\ UNCHANGED <<call, owner, acked, stranded, calls, crashes, faults>>

\* ... and one while that is appended ends the thread.
WorkerDies(r) ==
  /\ worker[r] = "error" /\ worker' = [worker EXCEPT ![r] = "over"]
  /\ \/ ConflictAppend(r) /\ UNCHANGED <<stranded, faults>>
     \/ FailAppend(r) /\ Fails /\ stranded' = stranded \cup {r}
  /\ UNCHANGED <<call, owner, acked, calls, crashes>>

-----------------------------------------------------------------------------
(* resume_run and submit_for_review *)

Resume(s, r) ==
  /\ call[s] = Idle /\ _resolve_for_context(r) /\ Resumable(r) /\ Calls
  /\ call' = [call EXCEPT ![s].at = "invoke", ![s].run = r]
  /\ UNCHANGED <<logVars, worker, owner, acked, stranded, crashes, faults>>

ResumeReturns(s) ==
  /\ call[s].at = "invoke"
  /\ \/ \E st \in Outcome, sid \in BOOLEAN : AppendTurn(s, call[s].run, Turn(st, sid))
     \/ AppendTurn(s, call[s].run, Turn("failed", FALSE))
  /\ call' = [call EXCEPT ![s].at = "turn"]
  /\ UNCHANGED <<worker, owner, acked, stranded, calls, crashes, faults>>

ResumeSaved(s) ==
  /\ call[s].at = "turn" /\ SaveAppend(s)
  /\ call' = [call EXCEPT ![s] = Idle]
  /\ UNCHANGED <<worker, owner, acked, stranded, calls, crashes, faults>>

_find_review_submission(doc, k) == {n \in Of(doc, {"run.review_submitted"}) : doc[n].key = k}

\* A key that is in the session returns the earlier submission or, for another
\* payload, idempotency_conflict: neither writes.
Submit(s, r, k, p) ==
  /\ call[s] = Idle /\ _resolve_for_context(r)
  /\ _find_review_submission(log[r], k) = {} /\ Calls
  /\ call' = [call EXCEPT ![s].at = "found", ![s].run = r, ![s].event = Submitted(k, p)]
  /\ UNCHANGED <<logVars, worker, owner, acked, stranded, crashes, faults>>

\* The session is loaded again, and the key not looked for again.
SubmitLoad(s) ==
  /\ call[s].at = "found" /\ AppendTurn(s, call[s].run, call[s].event)
  /\ call' = [call EXCEPT ![s].at = "submit"]
  /\ UNCHANGED <<worker, owner, acked, stranded, calls, crashes, faults>>

SubmitSaved(s) ==
  /\ call[s].at = "submit" /\ SaveAppend(s)
  /\ call' = [call EXCEPT ![s] = Idle]
  /\ acked' = acked \cup {[run |-> call[s].run, event |-> call[s].event]}
  /\ UNCHANGED <<worker, owner, stranded, calls, crashes, faults>>

\* An error of the session store ends any call with an error, that of create()
\* included.
CallConflict(s) ==
  /\ \/ AppendError(s)
     \/ call[s].at = "create" /\ Fails /\ UNCHANGED logVars
  /\ call' = [call EXCEPT ![s] = Idle]
  /\ UNCHANGED <<worker, owner, acked, stranded, calls, crashes>>

Check(w) ==
  /\ CheckAppend(w)
  /\ UNCHANGED <<call, worker, owner, acked, stranded, calls, crashes, faults>>

-----------------------------------------------------------------------------
(* The process *)

Owned(s) == {r \in Session : owner[r] = s /\ worker[r] # "none"}

Starting(s, r) == call[s].at = "start" /\ call[s].run = r

\* Worker threads are daemon threads: they die with their server.
Crash(s) ==
  /\ crashes < MaxCrashes /\ crashes' = crashes + 1
  /\ call' = [call EXCEPT ![s] = Idle]
  /\ hand' = [w \in Writer |-> IF w = s \/ w \in Owned(s) THEN Free ELSE hand[w]]
  /\ worker' = [r \in Session |-> IF r \in Owned(s) THEN "over" ELSE worker[r]]
  /\ stranded' = stranded \cup {r \in Owned(s) : worker[r] # "over"}
                           \cup {r \in Session : Starting(s, r)}
  /\ UNCHANGED <<log, owner, acked, calls, faults>>

Init ==
  /\ LogInit
  /\ call = [s \in Server |-> Idle]
  /\ worker = [r \in Session |-> "none"]
  /\ owner = [r \in Session |-> NoSession]
  /\ acked = {} /\ stranded = {} /\ calls = 0 /\ crashes = 0 /\ faults = 0

WorkerStep(r) == WorkerReturns(r) \/ WorkerSaved(r) \/ WorkerConflict(r) \/ WorkerRetry(r)
                 \/ WorkerDies(r) \/ Check(r)

ServerStep(s) ==
  \/ HeaderSaved(s) \/ AppendRunning(s) \/ RunningSaved(s) \/ StartWorker(s)
  \/ ResumeReturns(s) \/ ResumeSaved(s) \/ SubmitLoad(s) \/ SubmitSaved(s) \/ CallConflict(s) \/ Check(s) \/ Crash(s)
  \/ \E i \in Issue : CreateScan(s, i)
  \/ \E r \in Session : \/ CreateSession(s, r) \/ Resume(s, r)
                        \/ \E k \in Key, p \in Payload : Submit(s, r, k, p)

Next == (\E s \in Server : ServerStep(s)) \/ (\E r \in Session : WorkerStep(r))

Spec == Init /\ [][Next]_vars

\* A thread that can go on does; calls need not come.
FairSpec == Spec /\ (\A r \in Session : WF_vars(WorkerStep(r)))
                 /\ (\A s \in Server : WF_vars(StartWorker(s)))

-----------------------------------------------------------------------------
(* Properties *)

\* Every variable has the values its comment promises.
TypeOK ==
  /\ log \in [Session -> Seq(Event)] /\ hand \in [Writer -> Hand]
  /\ call \in [Server -> [at: {"idle", "create", "header", "saved", "running", "start", "invoke",
                                "turn", "found", "submit"},
                           run: Session \cup {NoSession}, issue: Issue \cup {NoIssue},
                           event: Event \cup {NoEvent}]]
  /\ worker \in [Session -> {"none", "invoke", "result", "retry", "error", "over"}]
  /\ owner \in [Session -> Server \cup {NoSession}]
  /\ acked \subseteq [run: Session, event: Event] /\ stranded \subseteq Session
  /\ calls \in 0..MaxCalls /\ crashes \in 0..MaxCrashes /\ faults \in 0..MaxFaults

\* Whatever appends race on a session, its first two events are its creation
\* and run.created, with the scope the mandates of later calls are held to.
HeaderStable ==
  \A r \in Session : Exists(r) => /\ log[r][1] \in {Created(i) : i \in Issue}
                                  /\ Len(log[r]) > 1 => log[r][2] = RunCreated

\* An issue has at most one active run per server process: with one server the
\* scan of create_run is a claim, though nothing locks the store.
ActiveRunsBounded ==
  \A i \in Issue : Cardinality(ActiveRuns(i)) <= Cardinality(Server)

\* Nobody works on a run that says "running" only between the two statements of
\* its creation, and when it was stranded.  Neither a turn that is lost to another
\* append, nor one that two conflicts keep out, nor a result that the disk refuses
\* once leaves an ended run that blocks its issue.
EndedRunIsNotRunning ==
  \A r \in Session : Status(r) = "running" /\ worker[r] \in {"none", "over"} =>
    r \in stranded \/ \E s \in Server : Starting(s, r)

\* A run stops saying "running", or was stranded.
RunsEnd == \A r \in Session : Status(r) = "running" ~> (Status(r) # "running" \/ r \in stranded)

\* Q12, run_lifecycle.py:63: a run is resumed fresh or after a turn that was
\* blocked, failed or timed out.
ResumedAsDocumented ==
  [][\A s \in Server : call[s].at = "idle" /\ call'[s].at = "invoke" =>
       LET doc == log[call'[s].run] IN
       Of(doc, {"run.engine_turn"}) # {} =>
         LastOf(doc, {"run.engine_turn"}).status \in RESUMABLE]_vars

\* ADR 036: the store is safe within one process.  A submission that was
\* acknowledged stays in its session.
AckedSubmissionStays ==
  \A a \in acked : \E n \in DOMAIN log[a.run] : log[a.run][n] = a.event

=============================================================================
