----------------------------- MODULE ReviewSync -----------------------------
(***************************************************************************)
(* daemon/review_sync.py: a pass applies the review submissions in the run *)
(* store to the workflow labels on GitHub and marks what it applied.       *)
(*                                                                         *)
(* The daemon's loop and an operator's `daemon sync-review` run passes over *)
(* the same marker file.  A pass reads it once and rewrites it as a whole; *)
(* each GitHub call is a step of its own, between which people, the        *)
(* dispatcher and other passes move labels.                                *)
(***************************************************************************)
EXTENDS Integers, FiniteSets

CONSTANTS
  Syncer,        \* processes that run passes
  Issue,
  LastSubmission,  \* submissions are 1..LastSubmission, in the order of the store
  IssueOf,       \* the issue a submission's session was created for
  MaxFaults,     \* bound: calls and writes that fail
  MaxMoves       \* bound: label moves by others

Submission == 1..LastSubmission

ASSUME SyncAssumption ==
  /\ LastSubmission \in Nat \ {0} /\ IssueOf \in [Submission -> Issue]
  /\ MaxFaults \in Nat /\ MaxMoves \in Nat

Label == {"ready", "in_progress", "blocked", "review", "done"}

VARIABLES
  labels,     \* workflow labels of every issue; a closed issue counts as done
  submitted,  \* review submissions in the run store
  marked,     \* review_sync.json
  pass,       \* the pass every process is in
  applied,    \* history: how often a submission's edit took effect
  faults, moves

syncVars == <<labels, submitted, marked, pass, applied, faults, moves>>

NoPass == [at |-> "idle", next |-> 1, markers |-> {}, seen |-> {}]

Item(p) == IssueOf[pass[p].next]

Fault == faults < MaxFaults /\ faults' = faults + 1

\* A pass goes on with the next submission, or ends.
Advance(p, markers) ==
  pass' = [pass EXCEPT ![p] = IF @.next = LastSubmission THEN NoPass
                              ELSE [at |-> "item", next |-> @.next + 1,
                                    markers |-> markers, seen |-> {}]]

StartPass(p) ==
  /\ pass[p] = NoPass
  /\ pass' = [pass EXCEPT ![p].at = "item", ![p].markers = marked]
  /\ UNCHANGED <<labels, submitted, marked, applied, faults, moves>>

\* Not there yet, or already_synced.
Skip(p) ==
  /\ pass[p].at = "item"
  /\ pass[p].next \notin submitted \/ pass[p].next \in pass[p].markers
  /\ Advance(p, pass[p].markers)
  /\ UNCHANGED <<labels, submitted, marked, applied, faults, moves>>

Due(p) == /\ pass[p].at = "item" /\ pass[p].next \in submitted \ pass[p].markers

\* Mutant: only an issue in progress is moved to review.
ViewInProgress(p) ==
  /\ Due(p)
  /\ IF "in_progress" \notin labels[Item(p)] THEN Advance(p, pass[p].markers)
     ELSE pass' = [pass EXCEPT ![p].at = "edit", ![p].seen = labels[Item(p)]]
  /\ UNCHANGED <<labels, submitted, marked, applied, faults, moves>>

\* gh issue view: already_done and already_review end here, without a marker.
View(p) ==
  /\ Due(p)
  /\ IF labels[Item(p)] \cap {"review", "done"} # {} THEN Advance(p, pass[p].markers)
     ELSE pass' = [pass EXCEPT ![p].at = "edit", ![p].seen = labels[Item(p)]]
  /\ UNCHANGED <<labels, submitted, marked, applied, faults, moves>>

\* Mutant: the edit clears whatever labels are there by now.
EditedAll(p) == {"review"}

\* gh issue edit removes the labels that were seen.
Edited(p) == (labels[Item(p)] \ pass[p].seen) \cup {"review"}

Applied(p) ==
  /\ labels' = [labels EXCEPT ![Item(p)] = Edited(p)]
  /\ applied' = [applied EXCEPT ![pass[p].next] = @ + 1]

Edit(p) ==
  /\ pass[p].at = "edit" /\ Applied(p)
  /\ pass' = [pass EXCEPT ![p].at = "mark"]
  /\ UNCHANGED <<submitted, marked, faults, moves>>

\* Mutant: the marker is set before the outcome of the edit is known.
CallFailsMarked(p) ==
  /\ Fault
  /\ \/ Due(p) /\ UNCHANGED <<labels, applied, marked>>
     \/ /\ pass[p].at = "edit" /\ UNCHANGED <<labels, applied>>
        /\ marked' = pass[p].markers \cup {pass[p].next}
  /\ Advance(p, pass[p].markers) /\ UNCHANGED <<submitted, moves>>

\* A call fails or times out; an edit that timed out may have taken effect.
CallFails(p) ==
  /\ Fault
  /\ \/ Due(p) /\ UNCHANGED <<labels, applied>>
     \/ pass[p].at = "edit" /\ (Applied(p) \/ UNCHANGED <<labels, applied>>)
  /\ Advance(p, pass[p].markers)
  /\ UNCHANGED <<submitted, marked, moves>>

WithMark(p) == pass[p].markers \cup {pass[p].next}

\* The marker file is replaced by what this pass knows.
Mark(p) ==
  /\ pass[p].at = "mark"
  /\ marked' = WithMark(p) /\ Advance(p, WithMark(p))
  /\ UNCHANGED <<labels, submitted, applied, faults, moves>>

\* The write fails: the pass remembers the marker, and its next write holds it.
MarkFails(p) ==
  /\ pass[p].at = "mark" /\ Fault
  /\ Advance(p, WithMark(p))
  /\ UNCHANGED <<labels, submitted, marked, applied, moves>>

\* The marker file or a session in the store cannot be read: the exception ends
\* the whole pass.
PassAborts(p) ==
  /\ pass[p].at = "item" /\ Fault
  /\ pass' = [pass EXCEPT ![p] = NoPass]
  /\ UNCHANGED <<labels, submitted, marked, applied, moves>>

PassStep(p) == StartPass(p) \/ Skip(p) \/ View(p) \/ Edit(p) \/ CallFails(p) \/ Mark(p)
               \/ MarkFails(p) \/ PassAborts(p)

-----------------------------------------------------------------------------
(* The world *)

\* A run submits for review.
Submit(s) ==
  /\ s \notin submitted /\ submitted' = submitted \cup {s}
  /\ UNCHANGED <<labels, marked, pass, applied, faults, moves>>

\* What others do to a label: claim, recover, block, send back, accept.
WorkflowMoves == {<<"ready", "in_progress">>, <<"in_progress", "ready">>,
                  <<"in_progress", "blocked">>, <<"blocked", "ready">>,
                  <<"review", "in_progress">>, <<"review", "done">>, <<"in_progress", "done">>}

Move(i, from, to) ==
  /\ <<from, to>> \in WorkflowMoves /\ from \in labels[i]
  /\ moves < MaxMoves /\ moves' = moves + 1
  /\ labels' = [labels EXCEPT ![i] = (@ \ {from}) \cup {to}]
  /\ UNCHANGED <<submitted, marked, pass, applied, faults>>

WorldStep == \/ \E s \in Submission : Submit(s)
             \/ \E i \in Issue, from, to \in Label : Move(i, from, to)

SyncInit ==
  /\ labels = [i \in Issue |-> {"ready"}] /\ submitted = {} /\ marked = {}
  /\ pass = [p \in Syncer |-> NoPass] /\ applied = [s \in Submission |-> 0]
  /\ faults = 0 /\ moves = 0

-----------------------------------------------------------------------------
(* Properties *)

\* Every variable has the values its comment promises.
SyncTypeOK ==
  /\ labels \in [Issue -> SUBSET Label] /\ submitted \subseteq Submission
  /\ marked \subseteq Submission
  /\ pass \in [Syncer -> [at: {"idle", "item", "edit", "mark"}, next: Submission,
                          markers: SUBSET Submission, seen: SUBSET Label]]
  /\ applied \in [Submission -> Nat] /\ faults \in 0..MaxFaults /\ moves \in 0..MaxMoves

\* A marked submission did reach GitHub: no failure, crash or overlapping pass
\* leaves a marker that hides a submission for good.
MarkedWasApplied == \A s \in marked : applied[s] > 0

\* ADR 037: a pass never downgrades a done issue.  It may be done by the time
\* of the edit: the label then stays beside the new one.
DoneIsKept == [][\A i \in Issue : "done" \in labels[i] => "done" \in labels'[i]]_syncVars

\* review_sync.py:63: apply each unmarked review submission once.
AppliedOnce == \A s \in Submission : applied[s] <= 1

=============================================================================
