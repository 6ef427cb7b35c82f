----------------------------- MODULE Supervisor ------------------------------
(***************************************************************************)
(* supervisor/coordinator.py: a root session whose second child works on   *)
(* the result of its first (run_m2), the operator's cancel and the         *)
(* recovery of a new process after the first one died.                     *)
(*                                                                         *)
(* The processes share nothing but the session logs.  A child runs in a    *)
(* session of its own and survives its parent; it appends its terminal     *)
(* event and only then its result (coding_loop_cli.run_child).  One append *)
(* is one step here: SessionLog.tla has what happens inside it.  A run,    *)
(* a cancel or a recovery that dies, or raises, takes no further step.     *)
(***************************************************************************)
EXTENDS Integers, FiniteSets, Sequences

CONSTANTS
  Root, First, Second,  \* the sessions of the root and of its children
  MaxMisjudged          \* bound on the children a kill or a probe gets wrong

ASSUME SupervisorAssumption ==
  /\ Root # First /\ Root # Second /\ First # Second
  /\ MaxMisjudged \in Nat

Child == {First, Second}

VARIABLES
  stored,     \* the events of the three sessions
  proc,       \* the process of every child: "none", "alive" or "dead"
  misjudged,  \* the children a kill left alive, or a probe took for dead (for the properties)
  run,        \* run_m2: where it is, its child, and the child's log as it read it
  cancel,     \* cancel_root: where it is, the children it has to visit
  recovery    \* recover: the same, and whether it found a lost child

supervisorVars == <<stored, proc, misjudged, run, cancel, recovery>>

-----------------------------------------------------------------------------
(* Reading a log *)

Has(type, doc) == \E i \in DOMAIN doc : doc[i].type = type

Terminal(status) == [type |-> "terminal", status |-> status]

Spawned(c) == [type |-> "spawned", child |-> c]

\* next(e for e in events if e is session.terminal)
Verdict(doc) ==
  LET first == CHOOSE i \in DOMAIN doc :
                 doc[i].type = "terminal" /\ \A j \in 1..i - 1 : doc[j].type # "terminal"
  IN doc[first].status

Named(doc) == {c \in Child : \E i \in DOMAIN doc : doc[i] = Spawned(c)}

Appended(s, e) == [stored EXCEPT ![s] = Append(@, e)]

-----------------------------------------------------------------------------
(* A child process: coding_loop_cli.run_child *)

ChildFinishes(c, status) ==
  /\ proc[c] = "alive" /\ ~Has("terminal", stored[c])
  /\ stored' = Appended(c, Terminal(status))
  /\ UNCHANGED <<proc, misjudged, run, cancel, recovery>>

ChildPublishes(c) ==
  /\ proc[c] = "alive" /\ ~Has("result", stored[c])
  /\ Has("terminal", stored[c]) /\ Verdict(stored[c]) = "succeeded"
  /\ stored' = Appended(c, [type |-> "result"])
  /\ UNCHANGED <<proc, misjudged, run, cancel, recovery>>

\* It returns, or it is killed.
ChildExits(c) ==
  /\ proc[c] = "alive" /\ proc' = [proc EXCEPT ![c] = "dead"]
  /\ UNCHANGED <<misjudged, stored, run, cancel, recovery>>

-----------------------------------------------------------------------------
(* process_spawner: what a process is told and what it is taken for *)

Misjudges(c) ==
  /\ proc[c] = "alive" /\ Cardinality(misjudged) < MaxMisjudged
  /\ misjudged' = misjudged \cup {c}

\* is_alive(): a start time that cannot be read is one that is not there.
TakenForDead(c) ==
  \/ proc[c] = "dead" /\ UNCHANGED misjudged
  \/ Misjudges(c)

\* terminate_gracefully(): its caller does not look at whether it succeeded.
Kill(c) ==
  \/ proc' = [proc EXCEPT ![c] = "dead"] /\ UNCHANGED misjudged
  \/ Misjudges(c) /\ UNCHANGED proc

-----------------------------------------------------------------------------
(* run_m2 *)

MovesTo(place) == run' = [run EXCEPT !.at = place]

Blocks(place) == stored' = Appended(Root, Terminal("blocked")) /\ MovesTo(place)

RunStarts ==
  /\ run.at = "idle"
  /\ stored' = Appended(Root, [type |-> "created"]) /\ MovesTo("spawn")
  /\ UNCHANGED <<proc, misjudged, cancel, recovery>>

\* _spawn_child: the session and the process, then the name in the root's log.
Spawns ==
  /\ run.at = "spawn"
  /\ stored' = Appended(run.child, [type |-> "created"])
  /\ proc' = [proc EXCEPT ![run.child] = "alive"]
  /\ MovesTo("name")
  /\ UNCHANGED <<misjudged, cancel, recovery>>

\* ProcessSpawnError: no start time could be read, because the process is gone
\* or in spite of it.  The failure of child_2 is recorded here and at the end.
ChildSpawnFails ==
  /\ run.at = "spawn"
  /\ \E left \in {"dead", "alive"} : proc' = [proc EXCEPT ![run.child] = left]
  /\ stored' = [stored EXCEPT ![run.child] = Append(@, [type |-> "created"]),
                              ![Root] = @ \o <<[type |-> "spawn_failed"], Terminal("blocked")>>]
  /\ MovesTo(IF run.child = First THEN "done" ELSE "finish")
  /\ UNCHANGED <<misjudged, cancel, recovery>>

Names ==
  /\ run.at = "name"
  /\ stored' = Appended(Root, Spawned(run.child)) /\ MovesTo("wait")
  /\ UNCHANGED <<proc, misjudged, cancel, recovery>>

\* _wait_for_terminal
SeesTerminal ==
  /\ run.at = "wait" /\ Has("terminal", stored[run.child])
  /\ run' = [run EXCEPT !.at = "judge", !.doc = stored[run.child]]
  /\ UNCHANGED <<stored, proc, misjudged, cancel, recovery>>

HeartbeatStale ==
  /\ run.at = "wait" /\ ~Has("terminal", stored[run.child]) /\ MovesTo("kill")
  /\ UNCHANGED <<stored, proc, misjudged, cancel, recovery>>

KillsStale ==
  /\ run.at = "kill" /\ Kill(run.child) /\ MovesTo("mark")
  /\ UNCHANGED <<stored, cancel, recovery>>

MarksStale ==
  /\ run.at = "mark"
  /\ stored' = Appended(run.child, Terminal("blocked"))
  /\ run' = [run EXCEPT !.at = "judge", !.doc = stored'[run.child]]
  /\ UNCHANGED <<proc, misjudged, cancel, recovery>>

\* The deadline: the child is left as it is.  After child_2's the code reads a
\* variable that was never set, and raises.
TimesOut ==
  /\ run.at = "wait" /\ Blocks(IF run.child = First THEN "done" ELSE "raised")
  /\ UNCHANGED <<proc, misjudged, cancel, recovery>>

\* Mutant: the second child's verdict is not looked at.
JudgesSecondBlindly ==
  /\ run.at = "judge" /\ run.child = Second
  /\ run' = [run EXCEPT !.at = "finish", !.joined = TRUE]
  /\ UNCHANGED <<stored, proc, misjudged, cancel, recovery>>

\* child_1: its result, reclaimed budget and files go to child_2; the handoff
\* may fail.  next() without a default raises when the result is not there yet.
JudgesFirst ==
  /\ run.at = "judge" /\ run.child = First
  /\ \/ Verdict(run.doc) # "succeeded" /\ Blocks("done")
     \/ /\ Verdict(run.doc) = "succeeded" /\ ~Has("result", run.doc)
        /\ MovesTo("raised") /\ UNCHANGED stored
     \/ /\ Verdict(run.doc) = "succeeded" /\ Has("result", run.doc)
        /\ \/ Blocks("done")
           \/ run' = [run EXCEPT !.at = "spawn", !.child = Second] /\ UNCHANGED stored
  /\ UNCHANGED <<proc, misjudged, cancel, recovery>>

\* join.satisfied
JudgesSecond ==
  /\ run.at = "judge" /\ run.child = Second
  /\ run' = [run EXCEPT !.at = "finish", !.joined = Verdict(run.doc) = "succeeded"]
  /\ UNCHANGED <<stored, proc, misjudged, cancel, recovery>>

Finishes ==
  /\ run.at = "finish"
  /\ stored' = Appended(Root, Terminal(IF run.joined THEN "succeeded" ELSE "blocked"))
  /\ MovesTo("done")
  /\ UNCHANGED <<proc, misjudged, cancel, recovery>>

-----------------------------------------------------------------------------
(* cancel_root: supervisor_cli cancel *)

\* The root's log is read once.
CancelReads ==
  /\ cancel.at = "idle" /\ stored[Root] # <<>>
  /\ cancel' = [cancel EXCEPT !.at = "visit", !.todo = Named(stored[Root])]
  /\ UNCHANGED <<stored, proc, misjudged, run, recovery>>

CancelVisits(c) ==
  /\ cancel.at = "visit" /\ c \in cancel.todo
  /\ cancel' = IF Has("terminal", stored[c]) THEN [cancel EXCEPT !.todo = @ \ {c}]
                                            ELSE [cancel EXCEPT !.at = "kill", !.child = c]
  /\ UNCHANGED <<stored, proc, misjudged, run, recovery>>

\* Mutant: the child is declared cancelled and never terminated.
CancelSkipsKill ==
  /\ cancel.at = "kill"
  /\ cancel' = [cancel EXCEPT !.at = "mark"]
  /\ UNCHANGED <<proc, misjudged, stored, run, recovery>>

CancelKills ==
  /\ cancel.at = "kill" /\ Kill(cancel.child)
  /\ cancel' = [cancel EXCEPT !.at = "mark"]
  /\ UNCHANGED <<stored, run, recovery>>

CancelMarks ==
  /\ cancel.at = "mark"
  /\ stored' = Appended(cancel.child, Terminal("cancelled"))
  /\ cancel' = [cancel EXCEPT !.at = "visit", !.todo = @ \ {cancel.child}]
  /\ UNCHANGED <<proc, misjudged, run, recovery>>

CancelEnds ==
  /\ cancel.at = "visit" /\ cancel.todo = {}
  /\ stored' = Appended(Root, Terminal("cancelled"))
  /\ cancel' = [cancel EXCEPT !.at = "done"]
  /\ UNCHANGED <<proc, misjudged, run, recovery>>

-----------------------------------------------------------------------------
(* recover(), in a new process, whatever became of the old one *)

\* Every session is read, then the root once more.
RecoveryScans ==
  /\ recovery.at = "idle"
  /\ Named(stored[Root]) # {} /\ ~Has("terminal", stored[Root])
  /\ recovery' = [recovery EXCEPT !.at = "scan"]
  /\ UNCHANGED <<stored, proc, misjudged, run, cancel>>

RecoveryReads ==
  /\ recovery.at = "scan"
  /\ recovery' = [recovery EXCEPT !.at = "visit", !.todo = Named(stored[Root])]
  /\ UNCHANGED <<stored, proc, misjudged, run, cancel>>

Lost == {"lost", "blocked", "failed"}

RecoveryVisits(c) ==
  /\ recovery.at = "visit" /\ c \in recovery.todo
  /\ recovery' =
       IF Has("terminal", stored[c])
         THEN [recovery EXCEPT !.todo = @ \ {c}, !.lost = @ \/ Verdict(stored[c]) \in Lost]
         ELSE [recovery EXCEPT !.at = "probe", !.child = c]
  /\ UNCHANGED <<stored, proc, misjudged, run, cancel>>

RecoveryProbes ==
  LET c == recovery.child IN
  /\ recovery.at = "probe"
  /\ \/ /\ proc[c] = "alive" /\ UNCHANGED misjudged
        /\ stored' = Appended(c, [type |-> "reattached"])
        /\ recovery' = [recovery EXCEPT !.at = "visit", !.todo = @ \ {c}]
     \/ /\ TakenForDead(c)
        /\ stored' = Appended(c, Terminal("lost"))
        /\ recovery' = [recovery EXCEPT !.at = "visit", !.todo = @ \ {c}, !.lost = TRUE]
  /\ UNCHANGED <<proc, run, cancel>>

RecoveryEnds ==
  /\ recovery.at = "visit" /\ recovery.todo = {}
  /\ stored' = IF recovery.lost THEN Appended(Root, Terminal("blocked")) ELSE stored
  /\ recovery' = [recovery EXCEPT !.at = "done"]
  /\ UNCHANGED <<proc, misjudged, run, cancel>>

-----------------------------------------------------------------------------
SupervisorInit ==
  /\ stored = [s \in {Root} \cup Child |-> <<>>]
  /\ proc = [c \in Child |-> "none"] /\ misjudged = {}
  /\ run = [at |-> "idle", child |-> First, doc |-> <<>>, joined |-> FALSE]
  /\ cancel = [at |-> "idle", todo |-> {}, child |-> First]
  /\ recovery = [at |-> "idle", todo |-> {}, child |-> First, lost |-> FALSE]

SupervisorNext ==
  \/ \E c \in Child :
       \/ \E status \in {"succeeded", "blocked"} : ChildFinishes(c, status)
       \/ ChildPublishes(c) \/ ChildExits(c) \/ CancelVisits(c) \/ RecoveryVisits(c)
  \/ RunStarts \/ Spawns \/ ChildSpawnFails \/ Names
  \/ SeesTerminal \/ HeartbeatStale \/ KillsStale \/ MarksStale \/ TimesOut
  \/ JudgesFirst \/ JudgesSecond \/ Finishes
  \/ CancelReads \/ CancelKills \/ CancelMarks \/ CancelEnds
  \/ RecoveryScans \/ RecoveryReads \/ RecoveryProbes \/ RecoveryEnds

SupervisorSpec == SupervisorInit /\ [][SupervisorNext]_supervisorVars

-----------------------------------------------------------------------------
(* Properties *)

\* A root that succeeded had both children succeed, and the first one's result
\* is there, whatever was cancelled, killed, timed out or recovered meanwhile.
SucceededIsJoined ==
  (\E i \in DOMAIN stored[Root] : stored[Root][i] = Terminal("succeeded")) =>
    /\ Has("result", stored[First])
    /\ \A c \in Child : Has("terminal", stored[c]) /\ Verdict(stored[c]) = "succeeded"

\* A child that another process declared over has no process left, unless a kill
\* left it alive or a liveness probe took it for dead.
DeclaredOverIsDead ==
  \A c \in Child, status \in {"cancelled", "lost"} :
    (\E i \in DOMAIN stored[c] : stored[c][i] = Terminal(status)) =>
      proc[c] = "dead" \/ c \in misjudged

\* run_m2 ends with an envelope: child_1's result goes to child_2, and a timeout
\* is reported.
RunReturns == run.at # "raised"

=============================================================================
