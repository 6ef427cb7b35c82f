-------------------------- MODULE ActionHost_proofs --------------------------
(***************************************************************************)
(* Theorems about ActionHost, for any operators' requests, edits of the    *)
(* mandates, runs and threads: what a request read may be out of date when *)
(* it is used, and what it decides on stays true.                          *)
(***************************************************************************)
EXTENDS ActionHost, Dispatcher_proofs

USE OutcomeAssumption, LeaseAssumption, BriefAssumption

-----------------------------------------------------------------------------
(* The registry under the host *)

Status == {"absent", "in_progress"} \cup Terminal

\* complete() and claim() are the only steps that write a status: a run that is
\* in the registry stays there, and one that settled stays settled.
Lasts(r) == (Present(r) => Present(r)') /\ (Settled(r) => Settled(r)')

LEMMA StatusKept ==
  ASSUME NEW r \in RunId, reg'[r].status = reg[r].status
  PROVE  Lasts(r)
BY DEF Lasts, Present, Settled

\* What the steps of _sync_github() write is no status.
LEMMA FieldKept ==
  ASSUME NEW y \in Run
  PROVE  /\ [y EXCEPT !.syncAge = 0] \in Run /\ [y EXCEPT !.syncAge = 0].status = y.status
         /\ [y EXCEPT !.recorded = TRUE] \in Run /\ [y EXCEPT !.recorded = TRUE].status = y.status
         /\ [y EXCEPT !.synced = TRUE] \in Run /\ [y EXCEPT !.synced = TRUE].status = y.status
<1>1. [y EXCEPT !.syncAge = 0] \in Run /\ [y EXCEPT !.syncAge = 0].status = y.status
  BY DEF Run
<1>2. [y EXCEPT !.recorded = TRUE] \in Run /\ [y EXCEPT !.recorded = TRUE].status = y.status
  BY DEF Run
<1>3. [y EXCEPT !.synced = TRUE] \in Run /\ [y EXCEPT !.synced = TRUE].status = y.status
  BY DEF Run
<1> QED BY <1>1, <1>2, <1>3

\* A write that leaves the status of its run alone.
LEMMA FieldWritten ==
  ASSUME reg \in [RunId -> Run], NEW x, NEW y, reg' = [reg EXCEPT ![x] = y],
         x \in RunId => y \in Run /\ y.status = reg[x].status
  PROVE  reg' \in [RunId -> Run] /\ \A r \in RunId : reg'[r].status = reg[r].status
<1>1. ASSUME NEW r \in RunId PROVE reg'[r] \in Run /\ reg'[r].status = reg[r].status
  OBVIOUS
<1> QED BY <1>1

LEMMA HostRegistry ==
  ASSUME reg \in [RunId -> Run], HostNext,
         \A q \in Request : request[q].at = "launch" => request[q].issue \in Issue
  PROVE  reg' \in [RunId -> Run] /\ \A r \in RunId : Lasts(r)
<1> DEFINE Good == reg' \in [RunId -> Run] /\ \A r \in RunId : Lasts(r)
<1>1. CASE UNCHANGED reg
  BY <1>1, StatusKept
<1>2. ASSUME NEW r \in RunId, NEW i \in Issue, NEW k \in Kinds, Claim(r, i, k) PROVE Good
  <2>1. /\ reg' = [reg EXCEPT ![r] = NewRun(i, NoRun, 0, k, "in_progress")] /\ ~Present(r)
        /\ NewRun(i, NoRun, 0, k, "in_progress") \in Run
    <3>1. NewRun(i, NoRun, 0, k, "in_progress") \in Run
      BY NewRunType
    <3> QED BY <1>2, <3>1 DEF Claim
  <2>2. Lasts(r)
    BY <2>1 DEF Lasts, Present, Settled, Terminal, Failing
  <2>3. \A x \in RunId \ {r} : Lasts(x)
    BY <2>1, StatusKept
  <2> QED BY <2>1, <2>2, <2>3
<1>3. ASSUME NEW t \in Thread, NEW r \in RunId, NEW s \in Outcomes, Submit(t, r, s) PROVE Good
  <2>0. PICK offered \in Terminal, shown \in Presented(r) :
          LET v == gate_commit(r, offered, shown) IN
          reg' = [reg EXCEPT ![r].status = v, ![r].evidence = v = "succeeded" /\ shown = "good"]
    BY <1>3 DEF Submit, Settle
  <2> DEFINE status == gate_commit(r, offered, shown)
             e == status = "succeeded" /\ shown = "good"
  <2>1. status \in Terminal /\ Active(r)
    <3>1. status \in Terminal
      BY GateType
    <3> QED BY <1>3, <3>1 DEF Submit, Settle
  <2>2. e \in BOOLEAN
    OBVIOUS
  <2>3. reg' = [reg EXCEPT ![r] = [reg[r] EXCEPT !.status = status, !.evidence = e]]
    BY <2>0
  <2> HIDE DEF status, e
  <2>4. [reg[r] EXCEPT !.status = status] \in Run
    BY <2>1 DEF Run
  <2>5. [reg[r] EXCEPT !.status = status, !.evidence = e] \in Run
    BY <2>2, <2>4 DEF Run
  <2>6. [reg[r] EXCEPT !.status = status, !.evidence = e].status = status
    BY DEF Run
  <2>7. reg' \in [RunId -> Run] /\ reg'[r].status = status /\ \A x \in RunId \ {r} : reg'[x] = reg[x]
    BY <2>3, <2>5, <2>6
  <2>8. Lasts(r)
    BY <2>1, <2>7 DEF Lasts, Present, Settled, Active, Terminal, Failing
  <2>9. \A x \in RunId \ {r} : Lasts(x)
    BY <2>7, StatusKept
  <2> QED BY <2>7, <2>8, <2>9
<1>4. ASSUME NEW t \in Thread, SyncStep(t) PROVE Good
  <2>1. reg' \in [RunId -> Run] /\ \A r \in RunId : reg'[r].status = reg[r].status
    <3> DEFINE x == thr[t].run
    <3>1. CASE SyncClaim(t)
      <4>1. UNCHANGED reg \/ reg' = [reg EXCEPT ![x] = [reg[x] EXCEPT !.syncAge = 0]]
        BY <3>1 DEF SyncClaim, TakeSync
      <4> HIDE DEF x
      <4> QED BY <4>1, FieldKept, FieldWritten
    <3>2. CASE SyncRecord(t)
      <4>1. reg' = [reg EXCEPT ![x] = [reg[x] EXCEPT !.recorded = TRUE]]
        BY <3>2 DEF SyncRecord
      <4> HIDE DEF x
      <4> QED BY <4>1, FieldKept, FieldWritten
    <3>3. CASE SyncFinish(t)
      <4>1. reg' = [reg EXCEPT ![x] = [reg[x] EXCEPT !.synced = TRUE]]
        BY <3>3 DEF SyncFinish
      <4> HIDE DEF x
      <4> QED BY <4>1, FieldKept, FieldWritten
    <3> QED BY <1>4, <3>1, <3>2, <3>3 DEF SyncStep, SyncSwap, SyncSubmit, SyncComment
  <2> QED BY <2>1, StatusKept
<1>5. CASE DispatcherStep
  BY <1>1, <1>2, <1>3, <1>4, <1>5 DEF DispatcherStep, ClaimSwap, ClaimComment, OperatorReady
<1>6. ASSUME NEW q \in Request, HostStep(q) PROVE Good
  <2>1. ASSUME NEW r \in RunId, NEW k \in Kinds, Launches(q, r, k) PROVE Good
    <3>1. UNCHANGED reg \/ (Claim(r, request[q].issue, k) /\ request[q].issue \in Issue)
      BY <2>1 DEF Launches, vars
    <3> QED BY <1>1, <1>2, <3>1
  <2>2. CASE UNCHANGED reg
    BY <1>1, <2>2
  <2> QED BY <1>6, <2>1, <2>2 DEF HostStep, StartTransition, BindClaimRun, ReadRegistry,
            ReadSessions, PostReason, SwapLabel, Resume, vars
<1>7. CASE \/ \E i \in Issue : MCPRuns(i) \/ Reopen(i) \/ \E b \in Brief : EditBrief(i, b)
           \/ \E r \in RunId : ReviewSyncs(r)
  BY <1>1, <1>7 DEF MCPRuns, Reopen, EditBrief, ReviewSyncs, vars
<1> QED BY <1>5, <1>6, <1>7 DEF HostNext

-----------------------------------------------------------------------------
(* Requests *)

Transition == [at: {"registry", "sessions", "comment", "write"}, op: DOMAIN From, issue: Issue,
               registry: {<<>>} \cup [RunId -> Status]]
Launch     == [at: {"resume", "launch"}, issue: Issue, confirmed: Brief, mandate: Brief \cup {NoBrief}]

Gated(q) == request[q].op \in {"recover", "unblock"}

Known(q) == {r \in RunId : request[q].registry[r] # "absent"}

\* A gated transition that is still to ask for the sessions has read the
\* registry; one that is about to write found all its runs settled.
RequestOK(q) ==
  /\ request[q] \in {NoRequest} \cup Transition \cup Launch
  /\ request[q].at = "sessions" =>
       /\ request[q].registry \in [RunId -> Status]
       /\ \A r \in RunId : request[q].registry[r] \in Terminal => Settled(r)
  /\ request[q].at \in {"comment", "write"} /\ Gated(q) =>
       Known(q) # {} /\ \A r \in Known(q) : Settled(r)
  /\ request[q].at = "launch" =>
       request[q].mandate = request[q].confirmed /\ request[q].mandate \in Eligible

LaunchOK(r) ==
  launched[r] # NoLaunch =>
    launched[r].mandate = launched[r].confirmed /\ launched[r].mandate \in Eligible

HostInv ==
  /\ reg \in [RunId -> Run] /\ DOMAIN request = Request /\ DOMAIN launched = RunId
  /\ \A q \in Request : RequestOK(q)
  /\ \A r \in RunId : LaunchOK(r)

\* What run_holds_issue() takes for released is over in the registry it read:
\* a submission of a run it read as running makes a conflict.
LEMMA ReleasedIsSettled ==
  ASSUME NEW i, NEW registry \in [RunId -> Status],
         NEW freshness \in compute_run_freshness(correlate_run_summaries(i, registry)),
         Released(correlate_run_summaries(i, registry), freshness)
  PROVE  /\ \E r \in RunId : registry[r] # "absent"
         /\ \A r \in RunId : registry[r] # "absent" => registry[r] \in Terminal
<1> DEFINE runs == correlate_run_summaries(i, registry)
           Of(r) == [status |-> Merged(registry[r], r \in submitted), dispatched |-> registry[r] # "absent"]
<1>1. \A r \in RunId : registry[r] # "absent" => Of(r) \in runs
  BY DEF correlate_run_summaries
<1>2. freshness = "terminal" /\ \A s \in runs : s.dispatched
  BY DEF Released
<1>3. runs # {} /\ \A s \in runs : s.status # "conflict" /\ s.status # "in_progress"
  BY <1>2 DEF compute_run_freshness
<1>4. ASSUME NEW r \in RunId, registry[r] # "absent" PROVE registry[r] \in Terminal
  <2>1. Merged(registry[r], r \in submitted) \notin {"conflict", "in_progress"}
    BY <1>1, <1>3, <1>4
  <2>2. registry[r] # "in_progress"
    BY <2>1, Zenon DEF Merged
  <2> QED BY <1>4, <2>2 DEF Status
<1>5. \E r \in RunId : registry[r] # "absent"
  <2>1. PICK s \in runs : s.dispatched
    BY <1>2, <1>3
  <2>2. CASE s \in {[status |-> mcp[i], dispatched |-> FALSE]}
    BY <2>1, <2>2
  <2>3. CASE \E r \in RunId : s = Of(r)
    <3>1. PICK r \in RunId : s = Of(r)
      BY <2>3
    <3>2. Of(r).dispatched = (registry[r] # "absent")
      OBVIOUS
    <3> QED BY <2>1, <3>1, <3>2
  <2> QED BY <2>2, <2>3 DEF correlate_run_summaries
<1> QED BY <1>4, <1>5

\* Whatever the dispatcher does meanwhile, what a request knows stays true.
LEMMA RequestLasts ==
  ASSUME HostInv, NEW q \in Request, request'[q] = request[q], \A r \in RunId : Lasts(r)
  PROVE  RequestOK(q)'
<1>1. RequestOK(q)
  BY DEF HostInv
<1>2. \A r \in RunId : Settled(r) => Settled(r)'
  BY DEF Lasts
<1>3. /\ (request[q].at = "sessions")' <=> request[q].at = "sessions"
      /\ Gated(q)' <=> Gated(q)
      /\ Known(q)' = Known(q)
  BY DEF Gated, Known
<1> QED BY <1>1, <1>2, <1>3 DEF RequestOK, Known

LEMMA RequestStep ==
  ASSUME HostInv, NEW q \in Request, HostStep(q), \A r \in RunId : Lasts(r)
  PROVE  RequestOK(q)' /\ DOMAIN request' = Request /\ \A p \in Request \ {q} : request'[p] = request[p]
<1>0. DOMAIN request = Request /\ RequestOK(q) /\ reg \in [RunId -> Run]
  BY DEF HostInv
<1> DEFINE Others == DOMAIN request' = Request /\ \A p \in Request \ {q} : request'[p] = request[p]
<1>1. ASSUME Answers(q) PROVE RequestOK(q)' /\ Others
  <2>1. request'[q] = NoRequest /\ Others
    BY <1>0, <1>1 DEF Answers
  <2> QED BY <2>1 DEF RequestOK, NoRequest
<1>2. ASSUME NEW op \in DOMAIN From, NEW i \in Issue, StartTransition(q, op, i)
      PROVE  RequestOK(q)' /\ Others
  <2> DEFINE x == [at |-> IF op \in {"recover", "unblock"} THEN "registry" ELSE "write",
                   op |-> op, issue |-> i, registry |-> <<>>]
  <2>1. request'[q] = x /\ Others
    BY <1>0, <1>2 DEF StartTransition
  <2>2. x \in Transition
    BY DEF Transition
  <2> QED BY <2>1, <2>2 DEF RequestOK, Gated
<1>3. ASSUME ReadRegistry(q) PROVE RequestOK(q)' /\ Others
  <2> DEFINE i == request[q].issue
  <2>1. /\ request[q].at = "registry" /\ UNCHANGED reg
        /\ request' = [request EXCEPT ![q].at = "sessions", ![q].registry = RegistryOf(i)]
    BY <1>3 DEF ReadRegistry, vars
  <2>2. RegistryOf(i) \in [RunId -> Status]
    BY <1>0 DEF RegistryOf, Status, Run
  <2>3. request[q] \in Transition
    BY <1>0, <2>1 DEF RequestOK, NoRequest, Launch
  <2>4. request'[q] \in Transition /\ request'[q].at = "sessions" /\ request'[q].registry = RegistryOf(i)
        /\ Others
    BY <1>0, <2>1, <2>2, <2>3 DEF Transition
  <2>5. \A r \in RunId : RegistryOf(i)[r] \in Terminal => Settled(r)
    BY DEF RegistryOf, Settled, Terminal, Failing
  <2>6. \A r \in RunId : Settled(r)' <=> Settled(r)
    BY <2>1 DEF Settled
  <2> QED BY <2>2, <2>4, <2>5, <2>6 DEF RequestOK
<1>4. ASSUME NEW point \in {"comment", "write"}, Advances(q, point), request[q] \in Transition,
             Gated(q) => Known(q) # {} /\ \A r \in Known(q) : Settled(r)
      PROVE  RequestOK(q)' /\ Others
  <2>1. request' = [request EXCEPT ![q].at = point]
    BY <1>4 DEF Advances
  <2>2. /\ request'[q] \in Transition /\ request'[q].at = point /\ request'[q].op = request[q].op
        /\ request'[q].registry = request[q].registry /\ Others
    BY <1>0, <1>4, <2>1 DEF Transition
  <2>3. Known(q)' = Known(q) /\ (Gated(q)' <=> Gated(q))
    BY <2>2 DEF Known, Gated
  <2>4. \A r \in RunId : Settled(r) => Settled(r)'
    BY DEF Lasts
  <2> QED BY <1>4, <2>2, <2>3, <2>4 DEF RequestOK, Known
<1>5. ASSUME ReadSessions(q) PROVE RequestOK(q)' /\ Others
  <2> DEFINE runs == correlate_run_summaries(request[q].issue, request[q].registry)
  <2>1. request[q].at = "sessions"
    BY <1>5 DEF ReadSessions
  <2>2. /\ request[q] \in Transition /\ request[q].registry \in [RunId -> Status]
        /\ \A r \in RunId : request[q].registry[r] \in Terminal => Settled(r)
    BY <1>0, <2>1 DEF RequestOK, NoRequest, Launch
  <2>3. ASSUME NEW freshness \in compute_run_freshness(runs), Released(runs, freshness)
        PROVE  Known(q) # {} /\ \A r \in Known(q) : Settled(r)
    BY <2>2, <2>3, ReleasedIsSettled DEF Known
  <2>4. \/ Answers(q)
        \/ \E point \in {"comment", "write"} : Advances(q, point)
             /\ \E freshness \in compute_run_freshness(runs) : Released(runs, freshness)
    BY <1>5 DEF ReadSessions
  <2> QED BY <1>1, <1>4, <2>2, <2>3, <2>4
<1>6. ASSUME PostReason(q) PROVE RequestOK(q)' /\ Others
  <2>1. request[q].at = "comment" /\ (Advances(q, "write") \/ Answers(q))
    BY <1>6 DEF PostReason
  <2>2. request[q] \in Transition /\ (Gated(q) => Known(q) # {} /\ \A r \in Known(q) : Settled(r))
    BY <1>0, <2>1 DEF RequestOK, NoRequest, Launch
  <2> QED BY <1>1, <1>4, <2>1, <2>2
<1>7. ASSUME NEW i \in Issue, NEW seen \in Brief, BindClaimRun(q, i, seen)
      PROVE  RequestOK(q)' /\ Others
  <2> DEFINE x == [at |-> "resume", issue |-> i, confirmed |-> seen, mandate |-> NoBrief]
  <2>1. request'[q] = x /\ Others
    BY <1>0, <1>7 DEF BindClaimRun
  <2>2. x \in Launch
    BY DEF Launch
  <2> QED BY <2>1, <2>2 DEF RequestOK
<1>8. ASSUME Resume(q) PROVE RequestOK(q)' /\ Others
  <2> DEFINE read == brief[request[q].issue]
  <2>1. SUFFICES ASSUME read \in Eligible, read = request[q].confirmed,
                        request' = [request EXCEPT ![q].at = "launch", ![q].mandate = read]
                 PROVE  RequestOK(q)' /\ Others
    BY <1>1, <1>8 DEF Resume
  <2>2. request[q] \in Launch
    BY <1>0, <1>8 DEF Resume, RequestOK, NoRequest, Transition
  <2>3. read \in Brief
    BY <2>1
  <2> HIDE DEF read
  <2>4. /\ request'[q] \in Launch /\ request'[q].at = "launch" /\ request'[q].mandate = read
        /\ request'[q].confirmed = request[q].confirmed /\ Others
    BY <1>0, <2>1, <2>2, <2>3 DEF Launch
  <2> QED BY <2>1, <2>4 DEF RequestOK
<1>9. ASSUME SwapLabel(q) \/ \E r \in RunId, k \in Kinds : Launches(q, r, k) PROVE Answers(q)
  BY <1>9 DEF SwapLabel, Launches
<1> QED BY <1>1, <1>2, <1>3, <1>5, <1>6, <1>7, <1>8, <1>9 DEF HostStep

LEMMA HostInvInit == HostInit => HostInv
<1> SUFFICES ASSUME HostInit PROVE HostInv
  OBVIOUS
<1>1. reg \in [RunId -> Run]
  BY NewRunType DEF HostInit, Init, Kind
<1>2. /\ DOMAIN request = Request /\ DOMAIN launched = RunId
      /\ \A q \in Request : request[q] = NoRequest
      /\ \A r \in RunId : launched[r] = NoLaunch
  BY DEF HostInit
<1> QED BY <1>1, <1>2 DEF HostInv, RequestOK, LaunchOK, NoRequest

LEMMA HostInvStep == HostInv /\ [HostNext]_hostAndDispatcherVars => HostInv'
<1> SUFFICES ASSUME HostInv, [HostNext]_hostAndDispatcherVars PROVE HostInv'
  OBVIOUS
<1>1. CASE UNCHANGED hostAndDispatcherVars
  <2>1. reg' = reg /\ request' = request /\ launched' = launched
    BY <1>1 DEF hostAndDispatcherVars, vars, hostVars
  <2>2. \A r \in RunId : Lasts(r)
    BY <2>1, StatusKept
  <2> QED BY <2>1, <2>2, RequestLasts DEF HostInv, LaunchOK
<1>2. CASE HostNext
  <2>1. reg' \in [RunId -> Run] /\ \A r \in RunId : Lasts(r)
    <3>1. \A q \in Request : request[q].at = "launch" => request[q].issue \in Issue
      BY DEF HostInv, RequestOK, NoRequest, Transition, Launch
    <3> QED BY <1>2, <3>1, HostRegistry DEF HostInv
  <2>2. CASE UNCHANGED <<request, launched>>
    BY <2>1, <2>2, RequestLasts DEF HostInv, LaunchOK
  <2>3. ASSUME NEW q \in Request, HostStep(q) PROVE HostInv'
    <3>1. /\ RequestOK(q)' /\ DOMAIN request' = Request
          /\ \A p \in Request \ {q} : request'[p] = request[p]
      BY <2>1, <2>3, RequestStep
    <3>2. \A p \in Request : RequestOK(p)'
      BY <2>1, <3>1, RequestLasts
    <3>3. DOMAIN launched' = RunId /\ \A r \in RunId : LaunchOK(r)'
      <4>1. CASE UNCHANGED launched
        BY <4>1 DEF HostInv, LaunchOK
      <4>2. ASSUME NEW r \in RunId, NEW k \in Kinds, Launches(q, r, k), ~UNCHANGED launched
            PROVE  DOMAIN launched' = RunId /\ \A x \in RunId : LaunchOK(x)'
        <5>1. /\ request[q].at = "launch"
              /\ launched' = [launched EXCEPT ![r] =
                   [mandate |-> request[q].mandate, confirmed |-> request[q].confirmed]]
          BY <4>2 DEF Launches
        <5>2. request[q].mandate = request[q].confirmed /\ request[q].mandate \in Eligible
          BY <5>1 DEF HostInv, RequestOK
        <5> QED BY <5>1, <5>2 DEF HostInv, LaunchOK
      <4> QED BY <2>3, <4>1, <4>2 DEF HostStep, StartTransition, ReadRegistry, ReadSessions,
                 PostReason, SwapLabel, BindClaimRun, Resume
    <3> QED BY <2>1, <3>1, <3>2, <3>3 DEF HostInv
  <2> QED BY <1>2, <2>2, <2>3 DEF HostNext, MCPRuns, Reopen, EditBrief, ReviewSyncs, hostVars
<1> QED BY <1>1, <1>2

LEMMA HostInvHolds == HostSpec => []HostInv
<1> QED BY HostInvInit, HostInvStep, PTL DEF HostSpec

\* recover and unblock write only over runs that have settled: what the registry
\* said when it was read, the sessions confirmed later, and complete() never
\* takes a settled run back.
THEOREM OpenedOverSettledRunsHolds == HostSpec => []OpenedOverSettledRuns
<1>1. HostInv => OpenedOverSettledRuns
  BY DEF HostInv, RequestOK, Gated, Known, OpenedOverSettledRuns
<1> QED BY <1>1, HostInvHolds, PTL

\* claim-run launches the mandate that was confirmed, or nothing.
THEOREM LaunchIsConfirmedHolds == HostSpec => []LaunchIsConfirmed
<1>1. HostInv => LaunchIsConfirmed
  BY DEF HostInv, LaunchOK, LaunchIsConfirmed
<1> QED BY <1>1, HostInvHolds, PTL

=============================================================================
