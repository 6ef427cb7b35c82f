----------------------------- MODULE DaemonLoop -----------------------------
(***************************************************************************)
(* daemon/loop.py: the supervisor daemon claims ready issues for good, one *)
(* at a time, runs an engine on each in a worktree of its own, and lets    *)
(* engines whose runs were clean go on without a review.                   *)
(*                                                                         *)
(* The daemon is one of the processes of ReviewSync: every iteration       *)
(* starts with a pass.  It stops, pauses, dies and is started again.       *)
(***************************************************************************)
EXTENDS ReviewSync

CONSTANTS
  Daemon,          \* the daemon among the Syncers
  Class,           \* engine and task tag that route() may choose
  ClassOf,         \* the class an issue's labels route to
  NoClass,         \* no routable tag, or no adapter for the engine
  Checkpointed,    \* classes whose manifest requires a checkpoint
  unlock_threshold,
  NoIssue,
  MaxStarts        \* bound: starts of the daemon

ASSUME DaemonAssumption ==
  /\ Daemon \in Syncer /\ NoClass \notin Class /\ NoIssue \notin Issue
  /\ ClassOf \in [Issue -> Class \cup {NoClass}] /\ Checkpointed \subseteq Class
  /\ unlock_threshold \in Nat \ {0} /\ MaxStarts \in Nat

VARIABLES
  at,             \* where the daemon is; "down" when it does not run
  job,            \* the issue it works on
  result,         \* what the engine's run came to
  claimed,        \* [mem, file]: claimed issues, claimed.json
  streak,         \* [mem, file]: clean runs per class, autonomy.json
  supervised,     \* started without --unattended
  stop,           \* the STOP file
  starts,
  invoked,        \* history: engine runs per issue
  since,          \* history: clean runs per class since its last freeze in the file
  row,            \* history: clean runs per class behind the last run that was not
  awaits          \* history: a clean run of an engine that was not yet to go on
                  \* without a review: "none", "review" or "lost", its gate having failed

loopVars == <<at, job, result, claimed, streak, supervised, stop, starts,
              invoked, since, row, awaits>>
vars == <<syncVars, loopVars>>

-----------------------------------------------------------------------------
(* run_forever *)

\* The STOP file or the session budget ends the loop.
Stop ==
  /\ at = "poll" /\ stop /\ at' = "down"
  /\ UNCHANGED <<syncVars, job, result, claimed, streak, supervised, stop, starts,
                 invoked, since, row, awaits>>

Poll ==
  /\ at = "poll" /\ ~stop /\ StartPass(Daemon) /\ at' = "sync"
  /\ UNCHANGED <<job, result, claimed, streak, supervised, stop, starts,
                 invoked, since, row, awaits>>

Sync ==
  /\ at = "sync" /\ PassStep(Daemon)
  /\ at' = IF pass'[Daemon] = NoPass THEN "scan" ELSE "sync"
  /\ UNCHANGED <<job, result, claimed, streak, supervised, stop, starts,
                 invoked, since, row, awaits>>

-----------------------------------------------------------------------------
(* run_once *)

list_ready_issues == {i \in Issue : "ready" \in labels[i] /\ "done" \notin labels[i]}

Candidates == {i \in list_ready_issues \ claimed.mem : ClassOf[i] # NoClass}

\* Nothing to do in this iteration.
Scan ==
  /\ at = "scan" /\ Candidates = {} /\ at' = "poll"
  /\ UNCHANGED <<syncVars, job, result, claimed, streak, supervised, stop, starts, invoked,
                 since, row, awaits>>

\* gh issue list fails, or claimed.json cannot be written: the iteration is
\* lost, and a claim that was taken stays in memory.
IterationFails ==
  /\ at = "scan" /\ Fault /\ at' = "poll"
  /\ \E c \in {claimed.mem} \cup {claimed.mem \cup {i} : i \in Candidates} :
       claimed' = [claimed EXCEPT !.mem = c]
  /\ UNCHANGED <<labels, submitted, marked, pass, applied, moves, job, result, streak,
                 supervised, stop, starts, invoked, since, row, awaits>>

\* Mutant: the claim is kept in memory only.
ClaimInMemory(i) ==
  /\ at = "scan" /\ i \in Candidates /\ at' = "worktree" /\ job' = i
  /\ claimed' = [claimed EXCEPT !.mem = @ \cup {i}]
  /\ UNCHANGED <<syncVars, result, streak, supervised, stop, starts, invoked, since, row,
                 awaits>>

\* The first issue listed that nobody claimed: the claim is on disk before
\* anything is dispatched.
Claim(i) ==
  /\ at = "scan" /\ i \in Candidates /\ at' = "worktree" /\ job' = i
  /\ claimed' = [mem |-> claimed.mem \cup {i}, file |-> claimed.mem \cup {i}]
  /\ UNCHANGED <<syncVars, result, streak, supervised, stop, starts, invoked, since, row,
                 awaits>>

\* A worktree that cannot be made freezes the issue like a failed run.
Invoke ==
  /\ at = "worktree" /\ at' = "engine"
  /\ invoked' = [invoked EXCEPT ![job] = @ + 1]
  /\ UNCHANGED <<syncVars, job, result, claimed, streak, supervised, stop, starts, since, row,
                 awaits>>

NoWorktree ==
  /\ at = "worktree" /\ Fault /\ at' = "gate" /\ result' = "failed"
  /\ UNCHANGED <<labels, submitted, marked, pass, applied, moves, job, claimed, streak,
                 supervised, stop, starts, invoked, since, row, awaits>>

\* "clean": succeeded and a commit landed; "failed": anything else, and an
\* engine that HermesInvocationError or DshInvocationError says did not start.
EngineEnds(res) ==
  /\ at = "engine" /\ at' = "gate" /\ result' = res
  /\ row' = [row EXCEPT ![ClassOf[job]] = IF res = "clean" THEN @ + 1 ELSE 0]
  /\ UNCHANGED <<syncVars, job, claimed, streak, supervised, stop, starts, invoked, since,
                 awaits>>

\* Any other exception - ClaudeInvocationError, CodexInvocationError - leaves
\* run_once before the run is recorded.
EngineRaises ==
  /\ at = "engine" /\ Fault /\ at' = "poll" /\ job' = NoIssue
  /\ row' = [row EXCEPT ![ClassOf[job]] = 0]
  /\ UNCHANGED <<labels, submitted, marked, pass, applied, moves, result, claimed,
                 streak, supervised, stop, starts, invoked, since, awaits>>

is_unlocked(c) == streak.mem[c] >= unlock_threshold

\* Mutant: the run at hand counts towards its own autonomy.
EagerGate ==
  IF result = "failed" THEN "freeze"
  ELSE IF supervised \/ ClassOf[job] \in Checkpointed
          \/ streak.mem[ClassOf[job]] + 1 < unlock_threshold
       THEN "pause" ELSE "proceed"

evaluate_gate ==
  IF result = "failed" THEN "freeze"
  ELSE IF supervised \/ ClassOf[job] \in Checkpointed \/ ~is_unlocked(ClassOf[job])
       THEN "pause" ELSE "proceed"

record_pass(m) == [m EXCEPT ![ClassOf[job]] = IF result = "clean" THEN @ + 1 ELSE 0]

\* The run is clean, and its class has not earned to go on without a review.
Unearned ==
  /\ result = "clean"
  /\ supervised \/ ClassOf[job] \in Checkpointed \/ since[ClassOf[job]] < unlock_threshold

\* The gate decides, the streak is saved, and a pause ends the loop.
Gate ==
  /\ at = "gate" /\ job' = NoIssue /\ result' = "none"
  /\ streak' = [mem |-> record_pass(streak.mem), file |-> record_pass(streak.mem)]
  /\ since' = record_pass(since)
  /\ at' = IF evaluate_gate = "pause" THEN "down" ELSE "poll"
  /\ awaits' = IF Unearned THEN "review" ELSE awaits
  /\ UNCHANGED <<syncVars, claimed, supervised, stop, starts, invoked, row>>

\* The streak or, after it, the status cannot be written: the exception takes
\* the verdict with it, and run_forever goes on unless its own status fails too.
GateFails ==
  /\ at = "gate" /\ Fault /\ job' = NoIssue /\ result' = "none"
  /\ \E saved \in BOOLEAN :
       /\ streak' = [mem |-> record_pass(streak.mem),
                     file |-> IF saved THEN record_pass(streak.mem) ELSE streak.file]
       /\ since' = IF saved \/ result = "clean" THEN record_pass(since) ELSE since
  /\ at' \in {"poll", "down"}
  /\ awaits' = IF Unearned THEN "lost" ELSE awaits
  /\ UNCHANGED <<labels, submitted, marked, pass, applied, moves, claimed, supervised,
                 stop, starts, invoked, row>>

-----------------------------------------------------------------------------
(* The process *)

\* `daemon start`: the state is loaded and the STOP file removed.
Start ==
  /\ at = "down" /\ starts < MaxStarts /\ starts' = starts + 1
  /\ at' = "poll" /\ stop' = FALSE /\ supervised' \in BOOLEAN
  /\ claimed' = [claimed EXCEPT !.mem = claimed.file]
  /\ streak' = [streak EXCEPT !.mem = streak.file]
  /\ awaits' = "none"
  /\ UNCHANGED <<syncVars, job, result, invoked, since, row>>

RequestStop ==
  /\ ~stop /\ stop' = TRUE
  /\ UNCHANGED <<syncVars, at, job, result, claimed, streak, supervised, starts,
                 invoked, since, row, awaits>>

\* The daemon's process dies; a run whose result was not seen was not clean.
Crash ==
  /\ at # "down" /\ Fault /\ at' = "down" /\ job' = NoIssue /\ result' = "none"
  /\ pass' = [pass EXCEPT ![Daemon] = NoPass]
  /\ row' = IF at = "engine" THEN [row EXCEPT ![ClassOf[job]] = 0] ELSE row
  /\ UNCHANGED <<labels, submitted, marked, applied, moves, claimed, streak,
                 supervised, stop, starts, invoked, since, awaits>>

\* An operator's pass dies.
Interrupt(p) ==
  /\ p # Daemon /\ pass[p] # NoPass /\ Fault
  /\ pass' = [pass EXCEPT ![p] = NoPass]
  /\ UNCHANGED <<labels, submitted, marked, applied, moves, loopVars>>

LoopStep == Stop \/ Poll \/ Sync \/ Scan \/ IterationFails \/ Invoke \/ NoWorktree
            \/ (\E i \in Issue : Claim(i))
            \/ (\E res \in {"clean", "failed"} : EngineEnds(res)) \/ EngineRaises
            \/ Gate \/ GateFails

Init ==
  /\ SyncInit
  /\ at = "down" /\ job = NoIssue /\ result = "none"
  /\ claimed = [mem |-> {}, file |-> {}] /\ supervised = TRUE /\ stop = FALSE /\ starts = 0
  /\ streak = [mem |-> [c \in Class |-> 0], file |-> [c \in Class |-> 0]]
  /\ invoked = [i \in Issue |-> 0]
  /\ since = [c \in Class |-> 0] /\ row = [c \in Class |-> 0] /\ awaits = "none"

Next ==
  \/ LoopStep \/ Start \/ RequestStop \/ Crash
  \/ \E p \in Syncer \ {Daemon} : PassStep(p) /\ UNCHANGED loopVars
  \/ \E p \in Syncer : Interrupt(p)
  \/ WorldStep /\ UNCHANGED loopVars

Spec == Init /\ [][Next]_vars

\* The loop runs on; nobody need start it, stop it or run a pass beside it.
FairSpec == Spec /\ WF_vars(LoopStep)

-----------------------------------------------------------------------------
(* Properties *)

\* Every variable has the values its comment promises.
TypeOK ==
  /\ SyncTypeOK
  /\ at \in {"down", "poll", "sync", "scan", "worktree", "engine", "gate"}
  /\ job \in Issue \cup {NoIssue} /\ result \in {"none", "clean", "failed"}
  /\ claimed \in [mem: SUBSET Issue, file: SUBSET Issue]
  /\ streak \in [mem: [Class -> Nat], file: [Class -> Nat]]
  /\ supervised \in BOOLEAN /\ stop \in BOOLEAN /\ starts \in 0..MaxStarts
  /\ invoked \in [Issue -> Nat] /\ since \in [Class -> Nat] /\ row \in [Class -> Nat]
  /\ awaits \in {"none", "review", "lost"}

\* loop.py:243: a claim is persisted before the dispatch, so that no crash and
\* no restart gives an issue to an engine twice.
DispatchedOnce == \A i \in Issue : invoked[i] <= 1

\* After a clean run the daemon polls, claims and runs engines on, without an
\* operator's start, only if the run was unattended and its class had been clean
\* often enough since its last freeze in autonomy.json, whatever restarts and
\* freezes that could not be saved came before; the exception is a gate whose
\* own write failed.
ProceedIsEarned == at # "down" => awaits # "review"

\* While the daemon runs, a submission is marked or finds its issue in review
\* or done, also when a marker is lost to another pass or a call fails.
SubmissionIsSynced ==
  \A s \in Submission :
    s \in submitted ~> (s \in marked \/ labels[IssueOf[s]] \cap {"review", "done"} # {}
                        \/ at = "down")

\* autonomy.py:4: a streak counts consecutive clean runs.
StreakIsConsecutive == \A c \in Class : streak.mem[c] <= row[c]

=============================================================================
