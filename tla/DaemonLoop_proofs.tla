--------------------------- MODULE DaemonLoop_proofs ---------------------------
(***************************************************************************)
(* What the daemon and the passes of review sync promise, for any number   *)
(* of passes, issues, submissions and classes, and through any number of   *)
(* failures, crashes, restarts and label moves.                            *)
(***************************************************************************)
EXTENDS DaemonLoop, TLAPS

Pass == [at: {"idle", "item", "edit", "mark"}, next: Submission,
         markers: SUBSET Submission, seen: SUBSET Label]

SyncTypes ==
  /\ labels \in [Issue -> SUBSET Label] /\ submitted \subseteq Submission
  /\ marked \subseteq Submission
  /\ pass \in [Syncer -> Pass]
  /\ applied \in [Submission -> Nat]

\* What a pass takes for applied was applied, and what it saw was not done.
PassOK(p) ==
  /\ \A s \in pass[p].markers : applied[s] > 0
  /\ pass[p].at = "mark" => applied[pass[p].next] > 0
  /\ pass[p].at = "edit" => "done" \notin pass[p].seen

SyncInv == SyncTypes /\ MarkedWasApplied /\ \A p \in Syncer : PassOK(p)

-----------------------------------------------------------------------------
(* Passes *)

LEMMA SyncStart == SyncInit => SyncInv
  <1> SUFFICES ASSUME SyncInit PROVE SyncInv
    OBVIOUS
  <1>1. 1 \in Submission /\ NoPass \in Pass
    BY SyncAssumption DEF Submission, NoPass, Pass
  <1>2. SyncTypes
    BY <1>1 DEF SyncInit, SyncTypes, Label
  <1> QED
    BY <1>2 DEF SyncInit, SyncInv, MarkedWasApplied, PassOK, NoPass

\* The end of an item, with what the pass now knows to be applied.
LEMMA Advances ==
  ASSUME SyncInv, NEW p \in Syncer, NEW m \in SUBSET Submission, Advance(p, m),
         \A s \in m : applied'[s] > 0,
         \A s \in Submission : applied[s] > 0 => applied'[s] > 0
  PROVE  pass' \in [Syncer -> Pass] /\ \A q \in Syncer : PassOK(q)'
  <1>1. pass[p] \in Pass /\ 1 \in Submission
    BY SyncAssumption DEF SyncInv, SyncTypes, Submission
  <1> DEFINE next == IF pass[p].next = LastSubmission THEN NoPass
                     ELSE [at |-> "item", next |-> pass[p].next + 1, markers |-> m, seen |-> {}]
  <1>2. pass' = [pass EXCEPT ![p] = next]
    BY DEF Advance
  <1>3. next \in Pass /\ next.at \notin {"mark", "edit"} /\ next.markers \subseteq m
    <2>1. pass[p].next # LastSubmission => pass[p].next + 1 \in Submission
      BY <1>1, SyncAssumption DEF Pass, Submission
    <2> QED
      BY <1>1, <2>1 DEF Pass, NoPass
  <1>4. pass' \in [Syncer -> Pass]
    BY <1>2, <1>3 DEF SyncInv, SyncTypes
  <1>5. ASSUME NEW q \in Syncer PROVE PassOK(q)'
    <2>1. CASE q = p
      <3>1. pass'[q] = next
        BY <1>2, <2>1 DEF SyncInv, SyncTypes
      <3> QED
        BY <1>3, <3>1 DEF PassOK
    <2>2. CASE q # p
      <3>1. pass'[q] = pass[q] /\ pass[q] \in Pass
        BY <1>2, <2>2 DEF SyncInv, SyncTypes
      <3> QED
        BY <3>1 DEF SyncInv, PassOK, Pass
    <2> QED
      BY <2>1, <2>2
  <1> QED
    BY <1>4, <1>5


\* A pass moves on to a place that promises no more than it knows.
LEMMA PassMoves ==
  ASSUME SyncInv, NEW p \in Syncer, NEW r \in Pass, pass' = [pass EXCEPT ![p] = r],
         \A s \in r.markers : applied'[s] > 0,
         r.at = "mark" => applied'[r.next] > 0,
         r.at = "edit" => "done" \notin r.seen,
         \A s \in Submission : applied[s] > 0 => applied'[s] > 0
  PROVE  pass' \in [Syncer -> Pass] /\ \A q \in Syncer : PassOK(q)'
  <1>1. pass' \in [Syncer -> Pass]
    BY DEF SyncInv, SyncTypes
  <1>2. ASSUME NEW q \in Syncer PROVE PassOK(q)'
    <2>1. CASE q = p
      <3>1. pass'[q] = r
        BY <2>1 DEF SyncInv, SyncTypes
      <3> QED
        BY <3>1 DEF PassOK
    <2>2. CASE q # p
      <3>1. pass'[q] = pass[q] /\ pass[q] \in Pass
        BY <2>2 DEF SyncInv, SyncTypes
      <3> QED
        BY <3>1 DEF SyncInv, PassOK, Pass
    <2> QED
      BY <2>1, <2>2
  <1> QED
    BY <1>1, <1>2

\* An edit takes nothing away from the submissions that were applied.
LEMMA AppliedGrows ==
  ASSUME SyncInv, NEW p \in Syncer, Applied(p)
  PROVE  /\ labels' \in [Issue -> SUBSET Label] /\ applied' \in [Submission -> Nat]
         /\ applied'[pass[p].next] > 0
         /\ \A s \in Submission : applied[s] > 0 => applied'[s] > 0
  <1>1. pass[p] \in Pass /\ pass[p].next \in Submission
    BY DEF SyncInv, SyncTypes, Pass
  <1>2. Item(p) \in Issue
    BY <1>1, SyncAssumption DEF Item
  <1>3. labels' \in [Issue -> SUBSET Label]
    <2>1. Edited(p) \in SUBSET Label
      BY <1>2 DEF SyncInv, SyncTypes, Edited, Label
    <2> QED
      BY <2>1 DEF Applied, SyncInv, SyncTypes
  <1>4. applied' = [applied EXCEPT ![pass[p].next] = applied[pass[p].next] + 1]
    BY DEF Applied
  <1>5. applied \in [Submission -> Nat]
    BY DEF SyncInv, SyncTypes
  <1> QED
    BY <1>1, <1>3, <1>4, <1>5

\* A process that dies, or a pass that is given up: nothing is left of it.
LEMMA PassDies ==
  ASSUME SyncInv, NEW p \in Syncer, pass' = [pass EXCEPT ![p] = NoPass],
         UNCHANGED <<labels, submitted, marked, applied>>
  PROVE  SyncInv'
  <1>1. NoPass \in Pass /\ NoPass.at = "idle" /\ NoPass.markers = {}
    BY SyncAssumption DEF NoPass, Pass, Submission
  <1>2. pass' \in [Syncer -> Pass] /\ \A q \in Syncer : PassOK(q)'
    BY <1>1, PassMoves
  <1> QED
    BY <1>2 DEF SyncInv, SyncTypes, MarkedWasApplied

LEMMA PassStepInv == ASSUME SyncInv, NEW p \in Syncer, PassStep(p) PROVE SyncInv'
  <1>0. /\ pass[p] \in Pass /\ pass[p].next \in Submission /\ pass[p].markers \in SUBSET Submission
        /\ \A s \in pass[p].markers : applied[s] > 0
        /\ SyncTypes /\ MarkedWasApplied
    BY DEF SyncInv, SyncTypes, PassOK, Pass
  <1>1. CASE StartPass(p)
    <2> DEFINE r == [pass[p] EXCEPT !.at = "item", !.markers = marked]
    <2>1. r \in Pass /\ r.at = "item" /\ r.markers = marked
      BY <1>0 DEF Pass, SyncTypes
    <2>2. /\ pass' = [pass EXCEPT ![p] = r] /\ UNCHANGED <<labels, submitted, marked, applied>>
      BY <1>1 DEF StartPass, SyncInv, SyncTypes
    <2>3. pass' \in [Syncer -> Pass] /\ \A q \in Syncer : PassOK(q)'
      <3> HIDE DEF r
      <3> QED
        BY <1>0, <2>1, <2>2, PassMoves DEF MarkedWasApplied
    <2> QED
      BY <1>0, <2>2, <2>3 DEF SyncInv, SyncTypes, MarkedWasApplied
  <1>2. CASE Skip(p)
    <2>1. Advance(p, pass[p].markers) /\ UNCHANGED <<labels, submitted, marked, applied>>
      BY <1>2 DEF Skip
    <2>2. pass' \in [Syncer -> Pass] /\ \A q \in Syncer : PassOK(q)'
      BY <1>0, <2>1, Advances
    <2> QED
      BY <1>0, <2>1, <2>2 DEF SyncInv, SyncTypes, MarkedWasApplied
  <1>3. CASE View(p)
    <2>0. UNCHANGED <<labels, submitted, marked, applied>>
      BY <1>3 DEF View
    <2>1. CASE Advance(p, pass[p].markers)
      <3>1. pass' \in [Syncer -> Pass] /\ \A q \in Syncer : PassOK(q)'
        BY <1>0, <2>0, <2>1, Advances
      <3> QED
        BY <1>0, <2>0, <3>1 DEF SyncInv, SyncTypes, MarkedWasApplied
    <2>2. CASE ~Advance(p, pass[p].markers)
      <3> DEFINE r == [pass[p] EXCEPT !.at = "edit", !.seen = labels[Item(p)]]
      <3>1. /\ pass' = [pass EXCEPT ![p] = r]
            /\ "done" \notin labels[Item(p)]
        BY <1>3, <2>2 DEF View, SyncInv, SyncTypes
      <3>2. Item(p) \in Issue
        BY <1>0, SyncAssumption DEF Item
      <3>3. r \in Pass /\ r.at = "edit" /\ r.markers = pass[p].markers /\ "done" \notin r.seen
        BY <1>0, <3>1, <3>2 DEF Pass, SyncTypes
      <3>4. pass' \in [Syncer -> Pass] /\ \A q \in Syncer : PassOK(q)'
        <4> HIDE DEF r
        <4> QED
          BY <1>0, <2>0, <3>1, <3>3, PassMoves
      <3> QED
        BY <1>0, <2>0, <3>4 DEF SyncInv, SyncTypes, MarkedWasApplied
    <2> QED
      BY <2>1, <2>2
  <1>4. CASE Edit(p)
    <2> DEFINE r == [pass[p] EXCEPT !.at = "mark"]
    <2>1. r \in Pass /\ r.at = "mark" /\ r.markers = pass[p].markers /\ r.next = pass[p].next
      BY <1>0 DEF Pass
    <2>2. /\ pass' = [pass EXCEPT ![p] = r] /\ Applied(p) /\ UNCHANGED <<submitted, marked>>
      BY <1>4 DEF Edit, SyncInv, SyncTypes
    <2>3. /\ labels' \in [Issue -> SUBSET Label] /\ applied' \in [Submission -> Nat]
          /\ applied'[pass[p].next] > 0
          /\ \A s \in Submission : applied[s] > 0 => applied'[s] > 0
      BY <2>2, AppliedGrows
    <2>4. pass' \in [Syncer -> Pass] /\ \A q \in Syncer : PassOK(q)'
      <3> HIDE DEF r
      <3> QED
        BY <1>0, <2>1, <2>2, <2>3, PassMoves
    <2> QED
      BY <1>0, <2>2, <2>3, <2>4 DEF SyncInv, SyncTypes, MarkedWasApplied
  <1>5. CASE CallFails(p)
    <2>1. /\ Advance(p, pass[p].markers) /\ UNCHANGED <<submitted, marked>>
          /\ Applied(p) \/ UNCHANGED <<labels, applied>>
      BY <1>5 DEF CallFails
    <2>2. /\ labels' \in [Issue -> SUBSET Label] /\ applied' \in [Submission -> Nat]
          /\ \A s \in Submission : applied[s] > 0 => applied'[s] > 0
      BY <1>0, <2>1, AppliedGrows DEF SyncTypes
    <2>3. pass' \in [Syncer -> Pass] /\ \A q \in Syncer : PassOK(q)'
      BY <1>0, <2>1, <2>2, Advances
    <2> QED
      BY <1>0, <2>1, <2>2, <2>3 DEF SyncInv, SyncTypes, MarkedWasApplied
  <1>6. CASE Mark(p) \/ MarkFails(p)
    <2>1. /\ Advance(p, WithMark(p)) /\ UNCHANGED <<labels, submitted, applied>>
          /\ UNCHANGED marked \/ marked' = WithMark(p)
          /\ pass[p].at = "mark"
      BY <1>6 DEF Mark, MarkFails
    <2>2. WithMark(p) \in SUBSET Submission /\ \A s \in WithMark(p) : applied[s] > 0
      BY <1>0, <2>1 DEF SyncInv, PassOK, WithMark
    <2>3. pass' \in [Syncer -> Pass] /\ \A q \in Syncer : PassOK(q)'
      BY <2>1, <2>2, Advances
    <2> QED
      BY <1>0, <2>1, <2>2, <2>3 DEF SyncInv, SyncTypes, MarkedWasApplied
  <1>7. CASE PassAborts(p)
    BY <1>7, PassDies DEF PassAborts
  <1> QED
    BY <1>1, <1>2, <1>3, <1>4, <1>5, <1>6, <1>7 DEF PassStep

\* Runs that submit and people that move labels.
LEMMA WorldStepInv == ASSUME SyncInv, WorldStep PROVE SyncInv'
  <1>1. UNCHANGED <<marked, pass, applied>>
    BY DEF WorldStep, Submit, Move
  <1>2. labels' \in [Issue -> SUBSET Label] /\ submitted' \subseteq Submission
    BY DEF SyncInv, SyncTypes, WorldStep, Submit, Move
  <1> QED
    BY <1>1, <1>2 DEF SyncInv, SyncTypes, MarkedWasApplied, PassOK

-----------------------------------------------------------------------------
(* The loop *)

Streaks == [Class -> Nat]

LoopTypes ==
  /\ claimed \in [mem: SUBSET Issue, file: SUBSET Issue]
  /\ invoked \in [Issue -> Nat]
  /\ streak \in [mem: Streaks, file: Streaks] /\ since \in Streaks
  /\ at \in {"worktree", "engine", "gate"} => job \in Issue /\ ClassOf[job] \in Class

\* An issue that had an engine is claimed on disk, and the file is what a
\* running daemon knows at least.
ClaimsOK ==
  /\ at # "down" => claimed.file \subseteq claimed.mem
  /\ \A i \in Issue : invoked[i] <= 1 /\ (invoked[i] > 0 => i \in claimed.file)
  /\ at = "worktree" => job \in claimed.file /\ invoked[job] = 0

Within(m) == \A c \in Class : m[c] <= since[c]

\* No streak is longer than the clean runs since the last freeze in the file.
StreaksOK == Within(streak.file) /\ (at # "down" => Within(streak.mem))

LoopInv == LoopTypes /\ ClaimsOK /\ StreaksOK /\ ProceedIsEarned

LEMMA LoopStart == Init => LoopInv
  BY DEF Init, LoopInv, LoopTypes, ClaimsOK, StreaksOK, Within, Streaks, ProceedIsEarned

\* Steps that neither claim nor run anything.
LEMMA QuietLoop ==
  ASSUME LoopInv, UNCHANGED <<claimed, invoked, streak, since, awaits>>,
         at' \notin {"worktree", "engine", "gate"}, at' = "down" \/ at # "down"
  PROVE  LoopInv'
  BY DEF LoopInv, LoopTypes, ClaimsOK, StreaksOK, Within, ProceedIsEarned

LEMMA IterationFailsInv == ASSUME LoopInv, IterationFails PROVE LoopInv'
  <1>1. PICK c : /\ c \in {claimed.mem} \cup {claimed.mem \cup {i} : i \in Candidates}
                 /\ claimed' = [claimed EXCEPT !.mem = c]
    BY DEF IterationFails
  <1>2. claimed.mem \subseteq c /\ c \subseteq Issue
    BY <1>1 DEF LoopInv, LoopTypes, Candidates, list_ready_issues
  <1>3. /\ claimed' \in [mem: SUBSET Issue, file: SUBSET Issue]
        /\ claimed'.mem = c /\ claimed'.file = claimed.file
    BY <1>1, <1>2 DEF LoopInv, LoopTypes
  <1>4. at = "scan" /\ at' = "poll" /\ UNCHANGED <<invoked, streak, since, awaits>>
    BY DEF IterationFails
  <1> QED
    BY <1>2, <1>3, <1>4 DEF LoopInv, LoopTypes, ClaimsOK, StreaksOK, Within, ProceedIsEarned

LEMMA ClaimInv == ASSUME LoopInv, NEW i \in Issue, Claim(i) PROVE LoopInv'
  <1>1. /\ i \notin claimed.mem /\ ClassOf[i] \in Class
        /\ at = "scan" /\ at' = "worktree" /\ job' = i
        /\ claimed' = [mem |-> claimed.mem \cup {i}, file |-> claimed.mem \cup {i}]
        /\ UNCHANGED <<invoked, streak, since, awaits>>
    BY DaemonAssumption DEF Claim, Candidates
  <1>2. invoked[i] = 0
    BY <1>1 DEF LoopInv, LoopTypes, ClaimsOK
  <1>3. LoopTypes'
    BY <1>1 DEF LoopInv, LoopTypes
  <1>4. ClaimsOK'
    BY <1>1, <1>2 DEF LoopInv, LoopTypes, ClaimsOK
  <1> QED
    BY <1>1, <1>3, <1>4 DEF LoopInv, StreaksOK, Within, ProceedIsEarned

LEMMA InvokeInv == ASSUME LoopInv, Invoke PROVE LoopInv'
  <1>1. /\ at = "worktree" /\ at' = "engine" /\ job \in Issue /\ ClassOf[job] \in Class
        /\ job \in claimed.file /\ invoked[job] = 0
        /\ invoked' = [invoked EXCEPT ![job] = 1]
        /\ UNCHANGED <<job, claimed, streak, since, awaits>>
    BY DEF LoopInv, LoopTypes, ClaimsOK, Invoke
  <1>2. LoopTypes'
    BY <1>1 DEF LoopInv, LoopTypes
  <1>3. ClaimsOK'
    BY <1>1 DEF LoopInv, LoopTypes, ClaimsOK
  <1> QED
    BY <1>1, <1>2, <1>3 DEF LoopInv, StreaksOK, Within, ProceedIsEarned

LEMMA EngineInv ==
  ASSUME LoopInv, NoWorktree \/ (\E res \in {"clean", "failed"} : EngineEnds(res))
  PROVE  LoopInv'
  <1>1. /\ at \in {"worktree", "engine"} /\ at' = "gate"
        /\ UNCHANGED <<job, claimed, invoked, streak, since, awaits>>
    BY DEF NoWorktree, EngineEnds
  <1> QED
    BY <1>1 DEF LoopInv, LoopTypes, ClaimsOK, StreaksOK, Within, ProceedIsEarned

\* A run recorded in a streak that is no longer than it may be.
LEMMA Recorded ==
  ASSUME LoopTypes, at = "gate", NEW m \in Streaks, Within(m)
  PROVE  /\ record_pass(m) \in Streaks /\ record_pass(since) \in Streaks
         /\ \A c \in Class : record_pass(m)[c] <= record_pass(since)[c]
         /\ result = "clean" => \A c \in Class : m[c] <= record_pass(since)[c]
         /\ result # "clean" => Within(record_pass(m))
  <1>1. job \in Issue /\ ClassOf[job] \in Class /\ since \in Streaks
    BY DEF LoopTypes
  <1>2. /\ record_pass(m) \in Streaks /\ record_pass(since) \in Streaks
        /\ \A c \in Class \ {ClassOf[job]} :
             record_pass(m)[c] = m[c] /\ record_pass(since)[c] = since[c]
        /\ record_pass(m)[ClassOf[job]] = IF result = "clean" THEN m[ClassOf[job]] + 1 ELSE 0
        /\ record_pass(since)[ClassOf[job]] =
             IF result = "clean" THEN since[ClassOf[job]] + 1 ELSE 0
    BY <1>1 DEF record_pass, Streaks
  <1>3. ASSUME NEW c \in Class
        PROVE  /\ record_pass(m)[c] <= record_pass(since)[c]
               /\ result = "clean" => m[c] <= record_pass(since)[c]
               /\ result # "clean" => record_pass(m)[c] <= since[c]
    <2>1. m[c] \in Nat /\ since[c] \in Nat /\ m[c] <= since[c]
      BY <1>1 DEF Streaks, Within
    <2>2. CASE c = ClassOf[job]
      BY <1>2, <2>1, <2>2
    <2>3. CASE c # ClassOf[job]
      BY <1>2, <2>1, <2>3
    <2> QED
      BY <2>2, <2>3
  <1> QED
    BY <1>2, <1>3 DEF Within

\* The gate lets a clean run go on only if it is earned.
LEMMA GateInv == ASSUME LoopInv, Gate PROVE LoopInv'
  <1>1. /\ LoopTypes /\ at = "gate" /\ at' \in {"down", "poll"}
        /\ job \in Issue /\ ClassOf[job] \in Class
        /\ Within(streak.mem) /\ streak.mem \in Streaks
        /\ streak' = [mem |-> record_pass(streak.mem), file |-> record_pass(streak.mem)]
        /\ since' = record_pass(since)
        /\ UNCHANGED <<claimed, invoked>>
    BY DEF LoopInv, LoopTypes, StreaksOK, Gate
  <1>2. /\ record_pass(streak.mem) \in Streaks /\ record_pass(since) \in Streaks
        /\ \A c \in Class : record_pass(streak.mem)[c] <= record_pass(since)[c]
    BY <1>1, Recorded
  <1>3. LoopTypes'
    BY <1>1, <1>2 DEF LoopTypes
  <1>4. ClaimsOK'
    BY <1>1 DEF LoopInv, ClaimsOK
  <1>5. StreaksOK'
    BY <1>1, <1>2 DEF StreaksOK, Within
  <1>6. ProceedIsEarned'
    <2>1. evaluate_gate # "pause" => ~Unearned
      <3>1. streak.mem[ClassOf[job]] <= since[ClassOf[job]]
            /\ streak.mem[ClassOf[job]] \in Nat /\ since[ClassOf[job]] \in Nat
        BY <1>1 DEF LoopTypes, Within, Streaks
      <3> QED
        BY <3>1, DaemonAssumption DEF evaluate_gate, is_unlocked, Unearned
    <2> QED
      BY <1>1, <2>1 DEF LoopInv, ProceedIsEarned, Gate
  <1> QED
    BY <1>3, <1>4, <1>5, <1>6 DEF LoopInv

LEMMA GateFailsInv == ASSUME LoopInv, GateFails PROVE LoopInv'
  <1>1. /\ LoopTypes /\ at = "gate" /\ at' \in {"down", "poll"}
        /\ Within(streak.mem) /\ streak.mem \in Streaks
        /\ Within(streak.file) /\ streak.file \in Streaks
        /\ UNCHANGED <<claimed, invoked>>
    BY DEF LoopInv, LoopTypes, StreaksOK, GateFails
  <1>2. PICK saved \in BOOLEAN :
          /\ streak' = [mem |-> record_pass(streak.mem),
                        file |-> IF saved THEN record_pass(streak.mem) ELSE streak.file]
          /\ since' = IF saved \/ result = "clean" THEN record_pass(since) ELSE since
    BY DEF GateFails
  <1>3. /\ record_pass(streak.mem) \in Streaks /\ record_pass(since) \in Streaks
        /\ \A c \in Class : record_pass(streak.mem)[c] <= record_pass(since)[c]
        /\ result # "clean" => Within(record_pass(streak.mem))
    BY <1>1, Recorded
  <1>4. result = "clean" => \A c \in Class : streak.file[c] <= record_pass(since)[c]
    BY <1>1, Recorded
  <1>5. LoopTypes'
    BY <1>1, <1>2, <1>3 DEF LoopTypes
  <1>6. ClaimsOK'
    BY <1>1 DEF LoopInv, ClaimsOK
  <1>7. StreaksOK'
    <2>1. CASE saved
      BY <1>2, <1>3, <2>1 DEF StreaksOK, Within
    <2>2. CASE ~saved /\ result = "clean"
      BY <1>2, <1>3, <1>4, <2>2 DEF StreaksOK, Within
    <2>3. CASE ~saved /\ result # "clean"
      BY <1>1, <1>2, <1>3, <2>3 DEF StreaksOK, Within
    <2> QED
      BY <2>1, <2>2, <2>3
  <1>8. ProceedIsEarned'
    BY <1>1 DEF LoopInv, ProceedIsEarned, GateFails
  <1> QED
    BY <1>5, <1>6, <1>7, <1>8 DEF LoopInv

LEMMA StartInv == ASSUME LoopInv, Start PROVE LoopInv'
  <1>1. /\ at' = "poll" /\ UNCHANGED <<invoked, since>>
        /\ claimed' = [claimed EXCEPT !.mem = claimed.file]
        /\ streak' = [streak EXCEPT !.mem = streak.file]
    BY DEF Start
  <1>2. LoopTypes'
    BY <1>1 DEF LoopInv, LoopTypes
  <1>3. ClaimsOK'
    BY <1>1 DEF LoopInv, LoopTypes, ClaimsOK
  <1>4. StreaksOK' /\ ProceedIsEarned'
    BY <1>1 DEF LoopInv, LoopTypes, StreaksOK, Within, ProceedIsEarned, Start
  <1> QED
    BY <1>2, <1>3, <1>4 DEF LoopInv

LEMMA LoopStepInv == ASSUME LoopInv, [Next]_vars PROVE LoopInv'
  <1>1. CASE UNCHANGED loopVars
    BY <1>1 DEF loopVars, LoopInv, LoopTypes, ClaimsOK, StreaksOK, Within, ProceedIsEarned
  <1>2. CASE Stop \/ Poll \/ Sync \/ Scan \/ EngineRaises \/ Crash
    <2>1. /\ UNCHANGED <<claimed, invoked, streak, since, awaits>>
          /\ at' \notin {"worktree", "engine", "gate"} /\ (at' = "down" \/ at # "down")
      BY <1>2 DEF Stop, Poll, Sync, Scan, EngineRaises, Crash
    <2> QED
      BY <2>1, QuietLoop
  <1>3. CASE RequestStop
    BY <1>3 DEF RequestStop, LoopInv, LoopTypes, ClaimsOK, StreaksOK, Within, ProceedIsEarned
  <1>4. UNCHANGED vars \/ Next
    OBVIOUS
  <1>5. UNCHANGED vars => UNCHANGED loopVars
    BY DEF vars
  <1>6. (\E p \in Syncer : Interrupt(p)) => UNCHANGED loopVars
    BY DEF Interrupt
  <1>7. CASE LoopStep
    BY <1>2, <1>7, IterationFailsInv, ClaimInv, InvokeInv, EngineInv, GateInv,
       GateFailsInv DEF LoopStep
  <1> QED
    BY <1>1, <1>2, <1>3, <1>4, <1>5, <1>6, <1>7, StartInv DEF Next


-----------------------------------------------------------------------------
(* The daemon and the passes together *)

\* A step is a pass's, a death, the world's, or keeps to the loop.
LEMMA StepKinds ==
  ASSUME [Next]_vars
  PROVE  \/ \E p \in Syncer : PassStep(p)
         \/ \E p \in Syncer : /\ pass' = [pass EXCEPT ![p] = NoPass]
                              /\ UNCHANGED <<labels, submitted, marked, applied>>
         \/ WorldStep
         \/ UNCHANGED <<labels, submitted, marked, pass, applied>>
  <1>1. CASE UNCHANGED vars
    BY <1>1 DEF vars, syncVars
  <1>2. CASE LoopStep
    <2>1. CASE Poll \/ Sync
      BY <2>1, DaemonAssumption DEF Poll, Sync, PassStep
    <2>2. CASE \/ Stop \/ Scan \/ IterationFails \/ Invoke \/ NoWorktree \/ EngineRaises \/ Gate
               \/ GateFails
      BY <2>2 DEF Stop, Scan, IterationFails, Invoke, NoWorktree, EngineRaises, Gate, GateFails,
         syncVars
    <2>3. CASE \E i \in Issue : Claim(i)
      BY <2>3 DEF Claim, syncVars
    <2>4. CASE \E res \in {"clean", "failed"} : EngineEnds(res)
      BY <2>4 DEF EngineEnds, syncVars
    <2> QED
      BY <1>2, <2>1, <2>2, <2>3, <2>4 DEF LoopStep
  <1>3. CASE Start \/ RequestStop
    BY <1>3 DEF Start, RequestStop, syncVars
  <1>4. CASE Crash
    BY <1>4, DaemonAssumption DEF Crash
  <1>5. CASE \E p \in Syncer : Interrupt(p)
    BY <1>5 DEF Interrupt
  <1> QED
    BY <1>1, <1>2, <1>3, <1>4, <1>5 DEF Next

LEMMA SyncStepInv == ASSUME SyncInv, [Next]_vars PROVE SyncInv'
  <1>1. CASE UNCHANGED <<labels, submitted, marked, pass, applied>>
    BY <1>1 DEF SyncInv, SyncTypes, MarkedWasApplied, PassOK
  <1> QED
    BY <1>1, StepKinds, PassStepInv, PassDies, WorldStepInv

\* An edit removes what its pass saw, and that was not done.
LEMMA DoneStep ==
  ASSUME SyncInv, [Next]_vars, NEW i \in Issue, "done" \in labels[i]
  PROVE  "done" \in labels'[i]
  <1>1. CASE UNCHANGED labels
    BY <1>1
  <1>2. ASSUME NEW p \in Syncer, pass[p].at = "edit", Applied(p)
        PROVE  "done" \in labels'[i]
    <2>1. "done" \notin pass[p].seen
      BY <1>2 DEF SyncInv, PassOK
    <2>2. labels' = [labels EXCEPT ![Item(p)] = Edited(p)] /\ labels \in [Issue -> SUBSET Label]
      BY <1>2 DEF Applied, SyncInv, SyncTypes
    <2> QED
      BY <2>1, <2>2 DEF Edited
  <1>3. ASSUME NEW p \in Syncer, PassStep(p)
        PROVE  UNCHANGED labels \/ (pass[p].at = "edit" /\ Applied(p))
    BY <1>3 DEF PassStep, StartPass, Skip, View, Edit, CallFails, Mark, MarkFails,
       PassAborts
  <1>4. CASE WorldStep
    <2>1. CASE \E s \in Submission : Submit(s)
      BY <2>1 DEF Submit
    <2>2. CASE \E j \in Issue, from, to \in Label : Move(j, from, to)
      <3>1. PICK j \in Issue, from \in Label, to \in Label : Move(j, from, to)
        BY <2>2
      <3>2. /\ from # "done" /\ labels' = [labels EXCEPT ![j] = (@ \ {from}) \cup {to}]
            /\ labels \in [Issue -> SUBSET Label]
        BY <3>1 DEF Move, WorkflowMoves, SyncInv, SyncTypes
      <3> QED
        BY <3>2
    <2> QED
      BY <1>4, <2>1, <2>2 DEF WorldStep
  <1> QED
    BY <1>1, <1>2, <1>3, <1>4, StepKinds

\* A marked submission reached GitHub, through any failures, crashes and
\* overlapping passes.
THEOREM MarkedWasAppliedHolds == Spec => []MarkedWasApplied
  <1>1. Init => SyncInv
    BY SyncStart DEF Init
  <1>2. SyncInv => MarkedWasApplied
    BY DEF SyncInv
  <1> QED
    BY <1>1, <1>2, SyncStepInv, PTL DEF Spec

\* No step takes the done label of an issue away.
THEOREM DoneIsKeptHolds == Spec => DoneIsKept
  <1>1. Init => SyncInv
    BY SyncStart DEF Init
  <1>2. SyncInv /\ [Next]_vars =>
          [\A i \in Issue : "done" \in labels[i] => "done" \in labels'[i]]_syncVars
    BY DoneStep
  <1> QED
    BY <1>1, <1>2, SyncStepInv, PTL DEF Spec, DoneIsKept

\* No issue is given to an engine twice, through any crashes and restarts.
THEOREM DispatchedOnceHolds == Spec => []DispatchedOnce
  <1>1. LoopInv => DispatchedOnce
    BY DEF LoopInv, ClaimsOK, DispatchedOnce
  <1> QED
    BY <1>1, LoopStart, LoopStepInv, PTL DEF Spec

\* The daemon goes on after a clean run without a review only when the run was
\* unattended and its class's clean runs since its last freeze in the file reach
\* the threshold, or the write of its gate failed.
THEOREM ProceedIsEarnedHolds == Spec => []ProceedIsEarned
  <1>1. LoopInv => ProceedIsEarned
    BY DEF LoopInv
  <1> QED
    BY <1>1, LoopStart, LoopStepInv, PTL DEF Spec

=============================================================================
