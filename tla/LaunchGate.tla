----------------------------- MODULE LaunchGate -----------------------------
(***************************************************************************)
(* The launches of scripts/work_launcher.py over the claim store: from     *)
(* reading the issue to starting the worker, and everybody who settles the *)
(* run and then gives its claim back.                                      *)
(*                                                                         *)
(* A launch makes at most one claim, so claims stand for launches and for  *)
(* their runs.  The keys of a claim that other launches can ask for are    *)
(* the issue's; default_launcher() configures no store or engine session.  *)
(* Dispatcher.claim() and complete() are single steps: Dispatcher.tla has  *)
(* their inside.                                                           *)
(***************************************************************************)
EXTENDS ClaimStore, Integers

CONSTANTS
  NoIssue,     \* the issue of a launch that has not begun
  Receipt,     \* lifetime of a validation receipt, in ticks
  Attempts,    \* pre-flight attempts of one launch, 3 in the code
  FaultKinds,  \* what may go wrong: "sync", "release", "reread"
  MaxFaults,   \* bound: failures
  MaxCrashes   \* bound: process crashes

ASSUME IssueAssumption == NoIssue \notin Key
ASSUME GateBounds      == /\ Receipt \in Nat /\ Attempts \in Nat \ {0}
                          /\ MaxFaults \in Nat /\ MaxCrashes \in Nat

VARIABLES
  ready,      \* issues whose one workflow label is workflow:ready
  launch,     \* how far every launch is
  run,        \* the status of its run in the registry
  beat,       \* the last proof of life of its run
  worker,     \* its worker thread
  toRelease,  \* settled by a thread that still has to release the claim
  faults, crashes

runVars  == <<run, beat>>
gateVars == <<ready, launch, runVars, worker, toRelease, faults, crashes>>
allVars  == <<storeVars, gateVars>>

Step == {"idle", "reading", "counting", "acquiring", "checking", "claiming",
         "setup", "failing", "releasing", "over"}

Launch == [at: Step, issue: Key \cup {NoIssue}, seen: Nat, gen: Nat, tries: 0..Attempts - 1]

Idle == [at |-> "idle", issue |-> NoIssue, seen |-> 0, gen |-> 0, tries |-> 0]

GoesTo(c, step) == launch' = [launch EXCEPT ![c].at = step]

Fails(kind) == kind \in FaultKinds /\ faults < MaxFaults /\ faults' = faults + 1

-----------------------------------------------------------------------------
(* Pre-flight: the claim *)

Begin(c, i) ==
  /\ launch[c].at = "idle" /\ i \in ready
  /\ launch' = [launch EXCEPT ![c].at = "reading", ![c].issue = i]
  /\ UNCHANGED <<storeVars, ready, runVars, worker, toRelease, faults, crashes>>

\* A collision is tried again with what the store says then.
Collided(c) ==
  LET l == launch[c] IN
  launch' = [launch EXCEPT ![c] = IF l.tries + 1 < Attempts
                                  THEN [l EXCEPT !.at = "reading", !.tries = l.tries + 1]
                                  ELSE Idle]

\* The clock and the active claims, then the generation: separate reads.
ReadActive(c) ==
  /\ launch[c].at = "reading"
  /\ IF \E x \in Claim : Live(x) /\ launch[c].issue \in claims[x].keys
     THEN Collided(c)
     ELSE launch' = [launch EXCEPT ![c].at = "counting", ![c].seen = now]
  /\ UNCHANGED <<storeVars, ready, runVars, worker, toRelease, faults, crashes>>

ReadGeneration(c) ==
  /\ launch[c].at = "counting"
  /\ launch' = [launch EXCEPT ![c].at = "acquiring", ![c].gen = generation]
  /\ UNCHANGED <<storeVars, ready, runVars, worker, toRelease, faults, crashes>>

\* The last disjunct is store_unavailable, which is not tried again.
AcquireClaim(c) ==
  LET l == launch[c] IN
  /\ l.at = "acquiring"
  /\ \/ Acquire(c, {l.issue}, l.seen, l.gen) /\ GoesTo(c, "checking")
     \/ ~Admits({l.issue}, l.seen, l.gen) /\ Collided(c) /\ UNCHANGED storeVars
     \/ launch' = [launch EXCEPT ![c] = Idle] /\ UNCHANGED storeVars
  /\ UNCHANGED <<ready, runVars, worker, toRelease, faults, crashes>>

-----------------------------------------------------------------------------
(* Giving a claim back *)

\* The generation of a launch's claim is the one it was made with, for nobody
\* else changes it.  A conflict is reported and forgotten, and so is an error
\* of the connection that the threads of the process share.
ReleaseClaim(c) ==
  \/ release(c, claims[c].gen) /\ UNCHANGED faults
  \/ claims[c].state # "active" /\ UNCHANGED <<storeVars, faults>>
  \/ Fails("release") /\ UNCHANGED storeVars

\* Mutant: a launch refused after it has its claim just ends.
RereadKeeps(c) ==
  LET l == launch[c] IN
  /\ l.at = "checking"
  /\ GoesTo(c, IF l.issue \in ready /\ now < l.seen + Receipt THEN "claiming" ELSE "over")
  /\ UNCHANGED <<storeVars, ready, runVars, worker, toRelease, faults, crashes>>

\* The claim and the issue are read again, then the receipt must still be
\* valid.  No handler surrounds the reads: an error ends the launch, and the
\* claim stays.
Reread(c) ==
  LET l == launch[c]
      valid == l.issue \in ready /\ now < l.seen + Receipt
  IN
  /\ l.at = "checking"
  /\ \/ valid /\ GoesTo(c, "claiming") /\ UNCHANGED <<storeVars, faults>>
     \/ ~valid /\ GoesTo(c, "over") /\ ReleaseClaim(c)
     \/ Fails("reread") /\ GoesTo(c, "over") /\ UNCHANGED storeVars
  /\ UNCHANGED <<ready, runVars, worker, toRelease, crashes>>

-----------------------------------------------------------------------------
(* The run *)

Owns(c, i) == run[c] = "in_progress" /\ launch[c].issue = i

\* The registry first, then the label swap, which may raise with or without
\* having taken effect.
ClaimRun(c) ==
  LET i == launch[c].issue IN
  /\ launch[c].at = "claiming"
  /\ IF i \in ready /\ ~\E x \in Claim : Owns(x, i)
     THEN /\ run' = [run EXCEPT ![c] = "in_progress"] /\ beat' = [beat EXCEPT ![c] = now]
          /\ \/ ready' = ready \ {i} /\ GoesTo(c, "setup")
             \/ ready' \in {ready, ready \ {i}} /\ GoesTo(c, "failing")
     ELSE GoesTo(c, "failing") /\ UNCHANGED <<ready, runVars>>
  /\ UNCHANGED <<storeVars, worker, toRelease, faults, crashes>>

\* Mandate, flags, worktree, isolation, worker; each may raise.  Neither the
\* run nor the claim is looked at again.
Setup(c) ==
  /\ launch[c].at = "setup"
  /\ \/ GoesTo(c, "over") /\ worker' = [worker EXCEPT ![c] = "working"]
     \/ GoesTo(c, "failing") /\ UNCHANGED worker
  /\ UNCHANGED <<storeVars, ready, runVars, toRelease, faults, crashes>>

\* complete(): the first one settles the run; its label swap may have been
\* made or not, and a cancelled run makes the issue ready again.
Completes(c) ==
  LET i == launch[c].issue IN
  IF run[c] = "in_progress"
  THEN /\ run' = [run EXCEPT ![c] = "settled"]
       /\ ready' \in {ready, ready \ {i}, ready \cup {i}}
       /\ UNCHANGED beat
  ELSE UNCHANGED <<runVars, ready>>

\* Mutant: _fail_launch() leaves the run to the sweep.
FailRunLater(c) ==
  /\ launch[c].at = "failing" /\ GoesTo(c, "releasing")
  /\ UNCHANGED <<storeVars, ready, runVars, worker, toRelease, faults, crashes>>

\* _fail_launch(), also for a launch whose run was never made.
FailRun(c) ==
  /\ launch[c].at = "failing" /\ GoesTo(c, "releasing")
  /\ Completes(c)
  /\ UNCHANGED <<storeVars, worker, toRelease, faults, crashes>>

FailRelease(c) ==
  /\ launch[c].at = "releasing" /\ GoesTo(c, "over")
  /\ ReleaseClaim(c)
  /\ UNCHANGED <<ready, runVars, worker, toRelease, crashes>>

Heartbeat(c) ==
  /\ worker[c] = "working" /\ run[c] = "in_progress"
  /\ beat' = [beat EXCEPT ![c] = now]
  /\ UNCHANGED <<storeVars, ready, launch, run, worker, toRelease, faults, crashes>>

-----------------------------------------------------------------------------
(* Settling *)

\* The worker thread: complete(), whatever comes of it, then on_terminal.
WorkerEnds(c) ==
  /\ worker[c] = "working" /\ worker' = [worker EXCEPT ![c] = "ended"]
  /\ Completes(c)
  /\ toRelease' = toRelease \cup {c}
  /\ UNCHANGED <<storeVars, launch, faults, crashes>>

submit(c) ==
  /\ run[c] # "none"
  /\ Completes(c)
  /\ toRelease' = toRelease \cup {c}
  /\ UNCHANGED <<storeVars, launch, worker, faults, crashes>>

\* The dispatcher's sweep swallows the error of a settlement's sync and then
\* does not name the run among those it swept.
sweep_expired(c) ==
  /\ run[c] = "in_progress" /\ now > beat[c] + Lease
  /\ Completes(c)
  /\ \/ toRelease' = toRelease \cup {c} /\ UNCHANGED faults
     \/ Fails("sync") /\ UNCHANGED toRelease
  /\ UNCHANGED <<storeVars, launch, worker, crashes>>

\* _on_worker_terminal(), _release_terminal_claim(): the second half.
TerminalRelease(c) ==
  /\ c \in toRelease /\ toRelease' = toRelease \ {c}
  /\ ReleaseClaim(c)
  /\ UNCHANGED <<ready, launch, runVars, worker, crashes>>

-----------------------------------------------------------------------------
(* Outside *)

\* An operator or review sync sends an issue nobody works on back to ready.
MarkReady(i) ==
  /\ i \notin ready /\ ~\E c \in Claim : Owns(c, i)
  /\ ready' = ready \cup {i}
  /\ UNCHANGED <<storeVars, launch, runVars, worker, toRelease, faults, crashes>>

\* Launches and threads are lost; the claims and the registry are files.
Crash ==
  /\ crashes < MaxCrashes /\ crashes' = crashes + 1
  /\ launch' = [c \in Claim |-> IF claims[c].state = "none" THEN Idle
                                ELSE [launch[c] EXCEPT !.at = "over"]]
  /\ worker' = [c \in Claim |-> IF worker[c] = "none" THEN "none" ELSE "ended"]
  /\ toRelease' = {}
  /\ UNCHANGED <<storeVars, ready, runVars, faults>>

Later == Pass /\ UNCHANGED gateVars

-----------------------------------------------------------------------------
GateInit ==
  /\ StoreInit
  /\ ready = Key
  /\ launch = [c \in Claim |-> Idle]
  /\ run = [c \in Claim |-> "none"]
  /\ beat = [c \in Claim |-> 0]
  /\ worker = [c \in Claim |-> "none"]
  /\ toRelease = {}
  /\ faults = 0 /\ crashes = 0

LaunchStep(c) ==
  \/ ReadActive(c) \/ ReadGeneration(c) \/ AcquireClaim(c) \/ Reread(c)
  \/ ClaimRun(c) \/ Setup(c) \/ FailRun(c) \/ FailRelease(c)

GateNext ==
  \/ \E c \in Claim :
       \/ \E i \in Key : Begin(c, i)
       \/ LaunchStep(c)
       \/ Heartbeat(c) \/ WorkerEnds(c) \/ submit(c) \/ sweep_expired(c) \/ TerminalRelease(c)
  \/ \E i \in Key : MarkReady(i)
  \/ Crash \/ Later

GateSpec == GateInit /\ [][GateNext]_allVars

\* Launch threads go on, adapters return (invoke() has the run's lease as its
\* timeout), and whoever settled a run gets to its next statement.
FairGateSpec ==
  /\ GateSpec
  /\ \A c \in Claim : /\ WF_allVars(LaunchStep(c))
                      /\ WF_allVars(WorkerEnds(c))
                      /\ WF_allVars(TerminalRelease(c))

-----------------------------------------------------------------------------
(* What must hold *)

\* Every field is of its kind; a launch beyond pre-flight knows its issue.
GateTypeOK ==
  /\ StoreTypeOK
  /\ ready \subseteq Key
  /\ launch \in [Claim -> Launch]
  /\ run \in [Claim -> {"none", "in_progress", "settled"}]
  /\ beat \in [Claim -> Nat]
  /\ worker \in [Claim -> {"none", "working", "ended"}]
  /\ toRelease \subseteq Claim
  /\ faults \in Nat /\ crashes \in Nat
  /\ \A c \in Claim : launch[c].at # "idle" => launch[c].issue \in Key

\* Whoever settles, sweeps or fails a launch, and whenever the process dies:
\* the claim on the issue outlives the run's being in progress.
RunHoldsClaim ==
  \A c \in Claim : run[c] = "in_progress" => Live(c) /\ launch[c].issue \in claims[c].keys

\* A launch between its claim and its run keeps every other launch and run
\* away from the issue, however old the reads it was admitted on.
Owner(c) == launch[c].at \in {"checking", "claiming"} \/ run[c] = "in_progress"

OneOwnerPerIssue ==
  \A c, x \in Claim : Owner(c) /\ Owner(x) /\ c # x => launch[c].issue # launch[x].issue

\* While nothing fails, no claim outlives the work it was made for, on any of
\* the ways out of a launch and although a lease may run out meanwhile.
ClaimsAreFreed ==
  [](faults = 0 /\ crashes = 0) => \A c \in Claim : Live(c) ~> ~Live(c)

-----------------------------------------------------------------------------
(* What the documentation says and the code does not do *)

\* worker_adapters.py: a claim is never left held past the point its run went
\* terminal, regardless of outcome.  A run in progress stays so, or settles and
\* its claim is given back; a process that dies meanwhile is excused, and the
\* next one is held to the same for the runs still in progress.
TerminalClaimIsReleased ==
  \A c \in Claim, n \in 0..MaxCrashes :
    (run[c] = "in_progress" /\ crashes = n)
      ~> ([](run[c] = "in_progress") \/ ~Live(c) \/ crashes > n)
=============================================================================
