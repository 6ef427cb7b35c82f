----------------------------- MODULE ActionHost ------------------------------
(***************************************************************************)
(* The operator's actions of widget/action_host.py over the dispatcher:    *)
(* mark-ready, record-decision, recover and unblock, each a label swap     *)
(* after reads of its own, and claim-run, bound to the mandate that the    *)
(* operator confirmed.                                                     *)
(*                                                                         *)
(* The HTTP server gives every request a thread; it shares no lock with    *)
(* the dispatcher, whose steps come between any two reads of a request.    *)
(* The session store is what review_submission.py and the MCP tools put    *)
(* there.  How old a heartbeat is stays open: every run in progress may    *)
(* look fresh, stale or stranded.                                          *)
(***************************************************************************)
EXTENDS Dispatcher

CONSTANTS
  Request,    \* requests the host works on at a time
  Brief,      \* mandates an issue may state, told apart by their digests
  Eligible,   \* those whose dispatch request is eligible
  NoBrief

ASSUME BriefAssumption == Eligible \subseteq Brief /\ NoBrief \notin Brief

VARIABLES
  brief,      \* the mandate every issue states now
  mcp,        \* a run of the MCP tools on the issue, which no dispatcher knows
  reviewed,   \* runs whose submission review-sync has applied
  launched,   \* what a run was launched with, and what was confirmed
  request     \* the requests

hostVars == <<brief, mcp, reviewed, launched, request>>
hostAndDispatcherVars == <<vars, hostVars>>

NoRequest == [at |-> "idle"]

NoLaunch == [mandate |-> NoBrief, confirmed |-> NoBrief]

Answers(q) == request' = [request EXCEPT ![q] = NoRequest]

Advances(q, point) == request' = [request EXCEPT ![q].at = point]

-----------------------------------------------------------------------------
(* widget_contract/run_authority.py and next_action.py *)

\* What the registry said when the request read it.
RegistryOf(i) == [r \in RunId |-> IF Present(r) /\ reg[r].issue = i THEN reg[r].status ELSE "absent"]

\* Two stores that disagree make a conflict; succeeded and review_submitted are
\* one run at two moments.
Merged(status, inReview) ==
  IF inReview
    THEN IF status \in {"succeeded", "absent"} THEN "review_submitted" ELSE "conflict"
    ELSE status

correlate_run_summaries(i, registry) ==
  {[status |-> Merged(registry[r], r \in submitted), dispatched |-> registry[r] # "absent"] :
     r \in {x \in RunId : registry[x] # "absent" \/ (x \in submitted /\ reg[x].issue = i)}}
  \cup IF mcp[i] = "none" THEN {} ELSE {[status |-> mcp[i], dispatched |-> FALSE]}

compute_run_freshness(runs) ==
  CASE \E s \in runs : s.status = "conflict" -> {"indeterminate"}
    [] \A s \in runs : s.status # "conflict" /\ s.status # "in_progress" ->
         {IF runs = {} THEN "fresh" ELSE "terminal"}
    [] OTHER -> {"fresh", "stale", "stranded_running"}

\* Mutant: a run without a heartbeat counts as released.
ReleasedOrStranded(runs, freshness) ==
  \/ freshness = "terminal" /\ \A s \in runs : s.dispatched
  \/ freshness = "stranded_running"

\* run_holds_issue() is False: the dispatcher itself says that every run is over.
Released(runs, freshness) == freshness = "terminal" /\ \A s \in runs : s.dispatched

-----------------------------------------------------------------------------
(* The label transitions *)

From == [mark_ready |-> "inbox", record_decision |-> "review",
         recover |-> "in-progress", unblock |-> "blocked"]

To(op) == IF op = "record_decision" THEN "done" ELSE "ready"

\* The label is read again; recover and unblock then ask the run authority.
StartTransition(q, op, i) ==
  /\ request[q] = NoRequest /\ labels[i] = {From[op]}
  /\ request' = [request EXCEPT ![q] =
       [at |-> IF op \in {"recover", "unblock"} THEN "registry" ELSE "write",
        op |-> op, issue |-> i, registry |-> <<>>]]
  /\ UNCHANGED <<vars, brief, mcp, reviewed, launched>>

\* _run_active(): the registry first, ...
ReadRegistry(q) ==
  /\ request[q].at = "registry"
  /\ request' = [request EXCEPT ![q].at = "sessions", ![q].registry = RegistryOf(request[q].issue)]
  /\ UNCHANGED <<vars, brief, mcp, reviewed, launched>>

\* ... then the sessions; anything but a released issue is denied.
ReadSessions(q) ==
  LET runs == correlate_run_summaries(request[q].issue, request[q].registry) IN
  /\ request[q].at = "sessions"
  /\ \E freshness \in compute_run_freshness(runs) :
       IF Released(runs, freshness)
         THEN Advances(q, IF request[q].op = "unblock" THEN "comment" ELSE "write")
         ELSE Answers(q)
  /\ UNCHANGED <<vars, brief, mcp, reviewed, launched>>

\* gh_blocked_to_ready: the stated reason is posted first, or the call ends here.
PostReason(q) ==
  /\ request[q].at = "comment" /\ (Advances(q, "write") \/ Answers(q))
  /\ UNCHANGED <<vars, brief, mcp, reviewed, launched>>

\* The swap, or a failed call that may have taken effect.
SwapLabel(q) ==
  LET op == request[q].op IN
  /\ request[q].at = "write" /\ Answers(q)
  /\ \/ labels' = swap_label(request[q].issue, From[op], To(op))
     \/ UNCHANGED labels
  /\ UNCHANGED <<reg, submitted, posted, proof, unguarded, worker, claimer, thr, sweep, overrun, faults,
                 crashes, brief, mcp, reviewed, launched>>

-----------------------------------------------------------------------------
(* claim-run *)

\* _bind_claim_run(): the operator confirmed `seen`, and the issue states it still.
BindClaimRun(q, i, seen) ==
  /\ request[q] = NoRequest /\ seen = brief[i] /\ brief[i] \in Eligible
  /\ request' = [request EXCEPT ![q] =
       [at |-> "resume", issue |-> i, confirmed |-> seen, mandate |-> NoBrief]]
  /\ UNCHANGED <<vars, brief, mcp, reviewed, launched>>

\* Mutant: the request that is launched is not compared with the confirmed one.
ResumeUnbound(q) ==
  LET read == brief[request[q].issue] IN
  /\ request[q].at = "resume"
  /\ IF read \in Eligible
       THEN request' = [request EXCEPT ![q].at = "launch", ![q].mandate = read]
       ELSE Answers(q)
  /\ UNCHANGED <<vars, brief, mcp, reviewed, launched>>

\* gh_claim_run_resume(): read once more, bound once more, and launched as read.
Resume(q) ==
  LET read == brief[request[q].issue] IN
  /\ request[q].at = "resume"
  /\ IF read \in Eligible /\ read = request[q].confirmed
       THEN request' = [request EXCEPT ![q].at = "launch", ![q].mandate = read]
       ELSE Answers(q)
  /\ UNCHANGED <<vars, brief, mcp, reviewed, launched>>

\* launcher.resume(), as far as the dispatcher's claim, or its refusal.
Launches(q, r, k) ==
  /\ request[q].at = "launch" /\ Answers(q)
  /\ \/ /\ Claim(r, request[q].issue, k)
        /\ launched' = [launched EXCEPT ![r] =
             [mandate |-> request[q].mandate, confirmed |-> request[q].confirmed]]
     \/ UNCHANGED <<vars, launched>>
  /\ UNCHANGED <<brief, mcp, reviewed>>

-----------------------------------------------------------------------------
(* Everybody else *)

EditBrief(i, b) ==
  /\ brief[i] # b /\ brief' = [brief EXCEPT ![i] = b]
  /\ UNCHANGED <<vars, mcp, reviewed, launched, request>>

\* RunLifecycle.tla: create_run, and its engine turn.
MCPRuns(i) ==
  /\ mcp[i] # "succeeded"
  /\ mcp' = [mcp EXCEPT ![i] = IF @ = "none" THEN "in_progress" ELSE "succeeded"]
  /\ UNCHANGED <<vars, brief, reviewed, launched, request>>

\* ReviewSync.tla, a pass in one step: the labels it saw are removed.
ReviewSyncs(r) ==
  LET i == reg[r].issue IN
  /\ r \in submitted \ reviewed /\ labels[i] \cap {"review", "done"} = {}
  /\ labels' = [labels EXCEPT ![i] = {"review"}] /\ reviewed' = reviewed \cup {r}
  /\ UNCHANGED <<reg, submitted, posted, proof, unguarded, worker, claimer, thr, sweep, overrun, faults,
                 crashes, brief, mcp, launched, request>>

\* A finished issue is taken up again, by hand.
Reopen(i) ==
  /\ labels[i] = {"done"} /\ labels' = [labels EXCEPT ![i] = {"inbox"}]
  /\ UNCHANGED <<reg, submitted, posted, proof, unguarded, worker, claimer, thr, sweep, overrun, faults,
                 crashes, hostVars>>

-----------------------------------------------------------------------------
HostInit ==
  /\ Init
  /\ brief \in [Issue -> Brief] /\ mcp = [i \in Issue |-> "none"] /\ reviewed = {}
  /\ launched = [r \in RunId |-> NoLaunch] /\ request = [q \in Request |-> NoRequest]

HostStep(q) ==
  \/ \E i \in Issue :
       \/ \E op \in DOMAIN From : StartTransition(q, op, i)
       \/ \E seen \in Brief : BindClaimRun(q, i, seen)
  \/ ReadRegistry(q) \/ ReadSessions(q) \/ PostReason(q) \/ SwapLabel(q)
  \/ Resume(q) \/ \E r \in RunId, k \in Kinds : Launches(q, r, k)

\* The dispatcher without its clock, crashes and failed calls: a thread may wait
\* at its GitHub call for as long as it likes, and so may a claim.
DispatcherStep ==
  \/ \E r \in RunId, i \in Issue, k \in Kinds : Claim(r, i, k)
  \/ ClaimSwap \/ ClaimComment
  \/ \E t \in Thread : SyncStep(t) \/ \E r \in RunId, s \in Outcomes : Submit(t, r, s)
  \/ \E i \in Issue : OperatorReady(i)

HostNext ==
  \/ DispatcherStep /\ UNCHANGED hostVars
  \/ \E q \in Request : HostStep(q)
  \/ \E i \in Issue : MCPRuns(i) \/ Reopen(i) \/ \E b \in Brief : EditBrief(i, b)
  \/ \E r \in RunId : ReviewSyncs(r)

HostSpec == HostInit /\ [][HostNext]_hostAndDispatcherVars

-----------------------------------------------------------------------------
(* Properties *)

\* Recover and unblock open the issue only over runs that are over: when one of
\* them is about to write, there is a run that the registry it read knew, and
\* every such run has settled, whatever the two stores said of it in between.
OpenedOverSettledRuns ==
  \A q \in Request :
    request[q].at \in {"comment", "write"} /\ request[q].op \in {"recover", "unblock"} =>
      LET known == {r \in RunId : request[q].registry[r] # "absent"} IN
      known # {} /\ \A r \in known : Settled(r)

\* A run launched from the host has the mandate its operator confirmed, and an
\* eligible one, however the issue is edited while the request is on its way.
LaunchIsConfirmed ==
  \A r \in RunId : launched[r] # NoLaunch =>
    launched[r].mandate = launched[r].confirmed /\ launched[r].mandate \in Eligible

\* The transitions are exact swaps: an issue never carries two workflow labels.
OneWorkflowLabel == \A i \in Issue : Cardinality(labels[i]) = 1

=============================================================================
