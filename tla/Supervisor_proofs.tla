--------------------------- MODULE Supervisor_proofs ---------------------------
(***************************************************************************)
(* In whatever order the coordinator, the children, their deaths, a cancel *)
(* and a recovery come: a child that cancel_root() or recover() declared   *)
(* over has no process left unless a kill or a probe went wrong, and a     *)
(* root that succeeded had both its children succeed.                      *)
(***************************************************************************)
EXTENDS Supervisor, TLAPS

Sessions == {Root} \cup Child

Status == {"succeeded", "blocked", "cancelled", "lost"}

Place == {"idle", "spawn", "name", "wait", "kill", "mark", "judge", "finish", "done",
          "raised", "scan", "visit", "probe"}

Entry == {[type |-> t] : t \in {"created", "spawn_failed", "result", "reattached"}}
         \cup {Terminal(status) : status \in Status}
         \cup {Spawned(c) : c \in Child}

In(x, doc) == \E i \in DOMAIN doc : doc[i] = x

Types ==
  /\ stored \in [Sessions -> Seq(Entry)]
  /\ proc \in [Child -> {"none", "alive", "dead"}] /\ misjudged \subseteq Child
  /\ run \in [at: Place, child: Child, doc: Seq(Entry), joined: BOOLEAN]
  /\ cancel \in [at: Place, todo: SUBSET Child, child: Child]
  /\ recovery \in [at: Place, todo: SUBSET Child, child: Child, lost: BOOLEAN]

\* The coordinator spawns a child that has no process yet, the first one first.
RunOK ==
  /\ run.at = "idle" => \A c \in Child : proc[c] = "none"
  /\ run.at = "spawn" => proc[run.child] = "none"
  /\ run.at \in {"name", "wait", "kill"} => proc[run.child] # "none"
  /\ run.child = First => proc[Second] = "none"

\* Whoever is named in the root's log was spawned.
NamedOK == \A c \in Child : In(Spawned(c), stored[Root]) => proc[c] # "none"

Over(c) == proc[c] = "dead" \/ c \in misjudged

\* The same after a step.
OverThen(c) == proc'[c] = "dead" \/ c \in misjudged'

\* cancel_root() and recover() visit spawned children, and the former marks a
\* child it has killed or tried to.
VisitsOK ==
  /\ \A c \in cancel.todo \cup recovery.todo : proc[c] # "none"
  /\ cancel.at \in {"kill", "mark"} => proc[cancel.child] # "none"
  /\ cancel.at = "mark" => Over(cancel.child)
  /\ recovery.at = "probe" => proc[recovery.child] # "none"

OverOK == \A c \in Child, status \in {"cancelled", "lost"} :
            In(Terminal(status), stored[c]) => Over(c)

SupervisorInv == Types /\ RunOK /\ NamedOK /\ VisitsOK /\ OverOK

-----------------------------------------------------------------------------
(* Logs *)

LEMMA Tags ==
  /\ \A status \in Status : Terminal(status) \in Entry /\ Terminal(status).type = "terminal"
                            /\ Terminal(status).status = status
  /\ \A c \in Child : Spawned(c) \in Entry /\ Spawned(c).type = "spawned" /\ Spawned(c).child = c
  /\ \A t \in {"created", "spawn_failed", "result", "reattached"} :
       [type |-> t] \in Entry /\ [type |-> t].type = t
  BY DEF Entry, Terminal, Spawned

\* An event that is appended is the only one that was not there before.
LEMMA InAppend ==
  ASSUME NEW doc \in Seq(Entry), NEW e \in Entry, NEW x
  PROVE  In(x, Append(doc, e)) <=> In(x, doc) \/ x = e
  <1>1. /\ DOMAIN doc = 1..Len(doc) /\ Len(doc) \in Nat
        /\ DOMAIN Append(doc, e) = 1..(Len(doc) + 1)
        /\ \A i \in 1..Len(doc) : Append(doc, e)[i] = doc[i]
        /\ Append(doc, e)[Len(doc) + 1] = e
    OBVIOUS
  <1>2. In(x, Append(doc, e)) => In(x, doc) \/ x = e
    <2>1. \A i \in 1..(Len(doc) + 1) : i \in 1..Len(doc) \/ i = Len(doc) + 1
      BY <1>1
    <2> QED
      BY <1>1, <2>1 DEF In
  <1>3. In(x, doc) => In(x, Append(doc, e))
    <2>1. \A i \in 1..Len(doc) : i \in 1..(Len(doc) + 1)
      BY <1>1
    <2> QED
      BY <1>1, <2>1 DEF In
  <1>4. x = e => In(x, Append(doc, e))
    <2>1. Len(doc) + 1 \in 1..(Len(doc) + 1)
      BY <1>1
    <2> QED
      BY <1>1, <2>1 DEF In
  <1> QED
    BY <1>2, <1>3, <1>4

LEMMA InAppended ==
  ASSUME Types, NEW s \in Sessions, NEW e \in Entry, stored' = Appended(s, e)
  PROVE  /\ stored' \in [Sessions -> Seq(Entry)]
         /\ \A t \in Sessions : \A x : In(x, stored'[t]) <=> In(x, stored[t]) \/ (t = s /\ x = e)
  <1>1. stored[s] \in Seq(Entry)
    BY DEF Types
  <1>2. stored' \in [Sessions -> Seq(Entry)]
    BY <1>1 DEF Types, Appended
  <1>3. ASSUME NEW t \in Sessions, NEW x
        PROVE  In(x, stored'[t]) <=> In(x, stored[t]) \/ (t = s /\ x = e)
    <2>1. CASE t = s
      <3>1. stored'[t] = Append(stored[s], e)
        BY <2>1 DEF Types, Appended
      <3> QED
        BY <1>1, <2>1, <3>1, InAppend
    <2>2. CASE t # s
      BY <2>2 DEF Types, Appended
    <2> QED
      BY <2>1, <2>2
  <1> QED
    BY <1>2, <1>3

\* An event that neither names a child nor declares one over tells nobody anything.
Silent(e) == /\ \A c \in Child : e # Spawned(c)
             /\ \A status \in {"cancelled", "lost"} : e # Terminal(status)

LEMMA SilentAppend ==
  ASSUME NEW doc \in Seq(Entry), NEW e \in Entry, Silent(e)
  PROVE  /\ Append(doc, e) \in Seq(Entry)
         /\ \A c \in Child : In(Spawned(c), Append(doc, e)) => In(Spawned(c), doc)
         /\ \A status \in {"cancelled", "lost"} :
              In(Terminal(status), Append(doc, e)) => In(Terminal(status), doc)
  <1>1. ASSUME NEW c \in Child PROVE In(Spawned(c), Append(doc, e)) => In(Spawned(c), doc)
    <2>1. Spawned(c) # e
      BY DEF Silent
    <2> QED
      BY <2>1, InAppend
  <1>2. ASSUME NEW status \in {"cancelled", "lost"}
        PROVE  In(Terminal(status), Append(doc, e)) => In(Terminal(status), doc)
    <2>1. Terminal(status) # e
      BY DEF Silent
    <2> QED
      BY <2>1, InAppend
  <1>3. Append(doc, e) \in Seq(Entry)
    OBVIOUS
  <1> QED
    BY <1>1, <1>2, <1>3

\* Logs in which only such events were added.
LogsKeep ==
  /\ stored' \in [Sessions -> Seq(Entry)]
  /\ \A c \in Child : In(Spawned(c), stored'[Root]) => In(Spawned(c), stored[Root])
  /\ \A c \in Child, status \in {"cancelled", "lost"} :
       In(Terminal(status), stored'[c]) => In(Terminal(status), stored[c])

LEMMA SilentKeeps ==
  ASSUME Types, NEW s \in Sessions, NEW e \in Entry, Silent(e), stored' = Appended(s, e)
  PROVE  LogsKeep
  BY InAppended DEF LogsKeep, Silent, Sessions

LEMMA SilentEvents ==
  /\ \A t \in {"created", "spawn_failed", "result", "reattached"} : Silent([type |-> t])
  /\ \A status \in Status \ {"cancelled", "lost"} : Silent(Terminal(status))
  <1>1. ASSUME NEW t \in {"created", "spawn_failed", "result", "reattached"}
        PROVE  Silent([type |-> t])
    <2>1. [type |-> t].type = t /\ t # "spawned" /\ t # "terminal"
      OBVIOUS
    <2>2. \A c \in Child : [type |-> t] # Spawned(c)
      BY <2>1, Tags
    <2>3. \A status \in {"cancelled", "lost"} : [type |-> t] # Terminal(status)
      BY <2>1 DEF Terminal
    <2> QED
      BY <2>2, <2>3 DEF Silent
  <1>2. ASSUME NEW status \in Status \ {"cancelled", "lost"}
        PROVE  Silent(Terminal(status))
    <2>1. \A c \in Child : Terminal(status) # Spawned(c)
      BY Tags
    <2>2. \A other \in {"cancelled", "lost"} : Terminal(status) # Terminal(other)
      BY DEF Terminal
    <2> QED
      BY <2>1, <2>2 DEF Silent
  <1> QED
    BY <1>1, <1>2

\* The root is nobody's child.
LEMMA RootEvents ==
  ASSUME Types, NEW status \in Status, stored' = Appended(Root, Terminal(status))
  PROVE  LogsKeep
  <1>1. \A c \in Child : c # Root /\ Spawned(c) # Terminal(status)
    BY Tags, SupervisorAssumption DEF Child
  <1>2. Terminal(status) \in Entry
    BY Tags
  <1> QED
    BY <1>1, <1>2, InAppended DEF LogsKeep, Sessions


-----------------------------------------------------------------------------
(* Steps *)

LEMMA SupervisorStart == SupervisorInit => SupervisorInv
  <1> SUFFICES ASSUME SupervisorInit PROVE SupervisorInv
    OBVIOUS
  <1>1. Types
    <2>1. stored \in [Sessions -> Seq(Entry)]
      BY DEF SupervisorInit, Sessions
    <2>2. proc \in [Child -> {"none", "alive", "dead"}]
      BY DEF SupervisorInit
    <2>3. First \in Child
      BY DEF Child
    <2>4. run \in [at: Place, child: Child, doc: Seq(Entry), joined: BOOLEAN]
      BY <2>3 DEF SupervisorInit, Place
    <2>5. /\ cancel \in [at: Place, todo: SUBSET Child, child: Child]
          /\ recovery \in [at: Place, todo: SUBSET Child, child: Child, lost: BOOLEAN]
      BY <2>3 DEF SupervisorInit, Place
    <2>6. misjudged \subseteq Child
      BY DEF SupervisorInit
    <2> QED
      BY <2>1, <2>2, <2>4, <2>5, <2>6 DEF Types
  <1>2. \A s \in Sessions : \A x : ~In(x, stored[s])
    BY DEF SupervisorInit, Sessions, In
  <1>3. OverOK /\ NamedOK
    BY <1>2 DEF OverOK, NamedOK, Sessions
  <1>4. RunOK /\ VisitsOK
    BY DEF SupervisorInit, RunOK, VisitsOK, Child
  <1> QED
    BY <1>1, <1>3, <1>4 DEF SupervisorInv

\* A process that was spawned stays spawned, and one that is over stays so.
ProcsKeep ==
  /\ proc' \in [Child -> {"none", "alive", "dead"}] /\ misjudged' \subseteq Child
  /\ \A c \in Child : /\ proc[c] # "none" => proc'[c] # "none"
                      /\ Over(c) => OverThen(c)

LEMMA KeepsLogParts ==
  ASSUME SupervisorInv, LogsKeep, ProcsKeep
  PROVE  NamedOK' /\ OverOK'
  BY DEF SupervisorInv, LogsKeep, ProcsKeep, NamedOK, OverOK, Over, OverThen

LEMMA SameLogs == ASSUME Types, UNCHANGED stored PROVE LogsKeep
  BY DEF Types, LogsKeep

LEMMA SameProcs == ASSUME Types, UNCHANGED <<proc, misjudged>> PROVE ProcsKeep
  BY DEF Types, ProcsKeep, Over, OverThen

LEMMA KillKeeps ==
  ASSUME Types, NEW c \in Child, proc[c] # "none", Kill(c)
  PROVE  /\ ProcsKeep /\ OverThen(c)
         /\ \A d \in Child : proc[d] = "none" => proc'[d] = "none"
  BY DEF Types, ProcsKeep, Kill, Misjudges, Over, OverThen

\* What only the coordinator changes leaves the visits as they were.
LEMMA VisitsKeep ==
  ASSUME SupervisorInv, ProcsKeep, UNCHANGED <<cancel, recovery>>
  PROVE  VisitsOK'
  BY DEF SupervisorInv, Types, VisitsOK, ProcsKeep, Over, OverThen

\* The children's own steps.
LEMMA ChildSteps ==
  ASSUME SupervisorInv, NEW c \in Child,
         \/ \E status \in {"succeeded", "blocked"} : ChildFinishes(c, status)
         \/ ChildPublishes(c) \/ ChildExits(c)
  PROVE  SupervisorInv'
  <1>1. LogsKeep
    <2>1. CASE \E status \in {"succeeded", "blocked"} : ChildFinishes(c, status)
      <3>1. PICK status \in {"succeeded", "blocked"} : stored' = Appended(c, Terminal(status))
        BY <2>1 DEF ChildFinishes
      <3>2. status \in Status \ {"cancelled", "lost"}
        BY DEF Status
      <3>3. Silent(Terminal(status)) /\ Terminal(status) \in Entry /\ c \in Sessions
        BY <3>2, SilentEvents, Tags DEF Sessions
      <3> QED
        BY <3>1, <3>3, SilentKeeps DEF SupervisorInv
    <2>2. CASE ChildPublishes(c)
      <3>1. Silent([type |-> "result"]) /\ [type |-> "result"] \in Entry /\ c \in Sessions
        BY SilentEvents, Tags DEF Sessions
      <3> QED
        BY <2>2, <3>1, SilentKeeps DEF SupervisorInv, ChildPublishes
    <2>3. CASE ChildExits(c)
      BY <2>3, SameLogs DEF SupervisorInv, ChildExits
    <2> QED
      BY <2>1, <2>2, <2>3
  <1>2. /\ ProcsKeep
        /\ \A d \in Child : proc[d] = "none" => proc'[d] = "none"
    BY DEF SupervisorInv, Types, ProcsKeep, Over, OverThen, ChildFinishes, ChildPublishes, ChildExits
  <1>3. UNCHANGED <<run, cancel, recovery>>
    BY DEF ChildFinishes, ChildPublishes, ChildExits
  <1>4. Types'
    BY <1>1, <1>2, <1>3 DEF SupervisorInv, Types, LogsKeep, ProcsKeep
  <1>5. RunOK' /\ VisitsOK'
    BY <1>2, <1>3, VisitsKeep DEF SupervisorInv, Types, RunOK, ProcsKeep, Child
  <1> QED
    BY <1>1, <1>2, <1>4, <1>5, KeepsLogParts DEF SupervisorInv


\* A step that tells the logs nothing and forgets no process.
LEMMA QuietStep ==
  ASSUME SupervisorInv, LogsKeep, ProcsKeep, RunOK', VisitsOK',
         run' \in [at: Place, child: Child, doc: Seq(Entry), joined: BOOLEAN],
         cancel' \in [at: Place, todo: SUBSET Child, child: Child],
         recovery' \in [at: Place, todo: SUBSET Child, child: Child, lost: BOOLEAN]
  PROVE  SupervisorInv'
  <1>1. Types'
    BY DEF LogsKeep, ProcsKeep, Types
  <1> QED
    BY <1>1, KeepsLogParts DEF SupervisorInv

LEMMA RunStartsStep == ASSUME SupervisorInv, RunStarts PROVE SupervisorInv'
  <1>1. LogsKeep
    BY SilentEvents, Tags, SilentKeeps DEF SupervisorInv, RunStarts, Sessions
  <1>2. ProcsKeep /\ UNCHANGED <<cancel, recovery, proc, misjudged>>
    BY SameProcs DEF SupervisorInv, RunStarts
  <1>3. /\ run' \in [at: Place, child: Child, doc: Seq(Entry), joined: BOOLEAN]
        /\ run'.at = "spawn" /\ run'.child = run.child /\ run.at = "idle"
    BY DEF SupervisorInv, Types, RunStarts, MovesTo, Place
  <1>4. RunOK'
    BY <1>2, <1>3 DEF SupervisorInv, Types, RunOK
  <1> QED
    BY <1>1, <1>2, <1>3, <1>4, QuietStep, VisitsKeep DEF SupervisorInv, Types

LEMMA SpawnsStep == ASSUME SupervisorInv, Spawns PROVE SupervisorInv'
  <1> DEFINE c == run.child
  <1>0. c \in Child /\ proc[c] = "none" /\ First # Second
    BY SupervisorAssumption DEF SupervisorInv, Types, RunOK, Spawns
  <1>1. LogsKeep
    <2>1. stored' = Appended(c, [type |-> "created"]) /\ c \in Sessions
      BY <1>0 DEF Spawns, Sessions
    <2> QED
      BY <2>1, SilentEvents, Tags, SilentKeeps DEF SupervisorInv
  <1>2. /\ ProcsKeep /\ proc'[c] = "alive"
        /\ \A d \in Child : d # c => proc'[d] = proc[d]
    BY <1>0 DEF SupervisorInv, Types, Spawns, ProcsKeep, Over, OverThen
  <1>3. /\ run' \in [at: Place, child: Child, doc: Seq(Entry), joined: BOOLEAN]
        /\ run'.at = "name" /\ run'.child = c /\ UNCHANGED <<cancel, recovery>>
    BY DEF SupervisorInv, Types, Spawns, MovesTo, Place
  <1>4. RunOK'
    BY <1>0, <1>2, <1>3 DEF SupervisorInv, Types, RunOK, Child
  <1> QED
    BY <1>1, <1>2, <1>3, <1>4, QuietStep, VisitsKeep DEF SupervisorInv, Types

LEMMA SpawnFailsStep == ASSUME SupervisorInv, ChildSpawnFails PROVE SupervisorInv'
  <1> DEFINE c == run.child
  <1>0. /\ c \in Child /\ c # Root /\ c \in Sessions /\ Root \in Sessions
        /\ proc[c] = "none" /\ First # Second
    BY SupervisorAssumption DEF SupervisorInv, Types, RunOK, ChildSpawnFails, Child, Sessions
  <1>1. LogsKeep
    <2> DEFINE failed == [type |-> "spawn_failed"]  blocked == Terminal("blocked")
               created == [type |-> "created"]
    <2>1. /\ failed \in Entry /\ blocked \in Entry /\ created \in Entry
          /\ Silent(failed) /\ Silent(blocked) /\ Silent(created)
      BY Tags, SilentEvents DEF Status
    <2>2. /\ stored[Root] \in Seq(Entry) /\ stored[c] \in Seq(Entry)
          /\ DOMAIN stored = Sessions
      BY <1>0 DEF SupervisorInv, Types
    <2> HIDE DEF failed, blocked, created
    <2>3. stored[Root] \o <<failed, blocked>> = Append(Append(stored[Root], failed), blocked)
      BY <2>1, <2>2
    <2>4. /\ stored'[Root] = Append(Append(stored[Root], failed), blocked)
          /\ stored'[c] = Append(stored[c], created)
          /\ \A s \in Sessions : s # Root /\ s # c => stored'[s] = stored[s]
      BY <1>0, <2>2, <2>3 DEF ChildSpawnFails, failed, blocked, created
    <2>5. Append(stored[Root], failed) \in Seq(Entry)
      BY <2>1, <2>2, SilentAppend
    <2>7. \A d \in Child : In(Spawned(d), stored'[Root]) => In(Spawned(d), stored[Root])
      BY <2>1, <2>2, <2>4, <2>5, SilentAppend
    <2>8. \A d \in Child, status \in {"cancelled", "lost"} :
            In(Terminal(status), stored'[d]) => In(Terminal(status), stored[d])
      <3>1. \A d \in Child : d # Root /\ d \in Sessions
        BY SupervisorAssumption DEF Child, Sessions
      <3> QED
        BY <3>1, <2>1, <2>2, <2>4, SilentAppend
    <2>9. stored' \in [Sessions -> Seq(Entry)]
      <3>1. /\ stored \in [Sessions -> Seq(Entry)]
            /\ stored[Root] \o <<failed, blocked>> \in Seq(Entry)
            /\ Append(stored[c], created) \in Seq(Entry)
        BY <2>1, <2>2, <2>3, <2>5, SilentAppend DEF SupervisorInv, Types
      <3> QED
        BY <1>0, <3>1 DEF ChildSpawnFails, failed, blocked, created
    <2> QED
      BY <2>7, <2>8, <2>9 DEF LogsKeep
  <1>2. /\ ProcsKeep /\ UNCHANGED <<cancel, recovery>>
        /\ \A d \in Child : d # c => proc'[d] = proc[d]
    BY <1>0 DEF SupervisorInv, Types, ChildSpawnFails, ProcsKeep, Over, OverThen
  <1>3. /\ run' \in [at: Place, child: Child, doc: Seq(Entry), joined: BOOLEAN]
        /\ run'.at \in {"done", "finish"} /\ run'.child = run.child
    BY DEF SupervisorInv, Types, ChildSpawnFails, MovesTo, Place
  <1>4. RunOK'
    BY <1>0, <1>2, <1>3 DEF SupervisorInv, Types, RunOK, Child
  <1> QED
    BY <1>1, <1>2, <1>3, <1>4, QuietStep, VisitsKeep DEF SupervisorInv, Types


LEMMA NamesStep == ASSUME SupervisorInv, Names PROVE SupervisorInv'
  <1> DEFINE c == run.child
  <1>0. c \in Child /\ proc[c] # "none" /\ Root \in Sessions /\ Spawned(c) \in Entry
    BY Tags DEF SupervisorInv, Types, RunOK, Names, Sessions
  <1>1. /\ stored' \in [Sessions -> Seq(Entry)]
        /\ \A t \in Sessions : \A x : In(x, stored'[t]) <=> In(x, stored[t]) \/ (t = Root /\ x = Spawned(c))
    <2>1. stored' = Appended(Root, Spawned(c))
      BY DEF Names
    <2> QED
      BY <1>0, <2>1, InAppended DEF SupervisorInv
  <1>2. UNCHANGED <<proc, misjudged, cancel, recovery>>
    BY DEF Names
  <1>3. /\ run' \in [at: Place, child: Child, doc: Seq(Entry), joined: BOOLEAN]
        /\ run'.at = "wait" /\ run'.child = c
    BY DEF SupervisorInv, Types, Names, MovesTo, Place
  <1>4. Types'
    BY <1>1, <1>2, <1>3 DEF SupervisorInv, Types
  <1>5. RunOK' /\ VisitsOK'
    BY <1>0, <1>2, <1>3, SameProcs, VisitsKeep DEF SupervisorInv, RunOK
  <1>6. NamedOK'
    <2>1. ASSUME NEW d \in Child, In(Spawned(d), stored'[Root]) PROVE proc[d] # "none"
      <3>1. CASE In(Spawned(d), stored[Root])
        BY <3>1 DEF SupervisorInv, NamedOK
      <3>2. CASE Spawned(d) = Spawned(c)
        <4>1. d = c
          BY <1>0, <3>2, Tags
        <4> QED
          BY <1>0, <4>1
      <3> QED
        BY <1>0, <1>1, <2>1, <3>1, <3>2
    <2> QED
      BY <1>2, <2>1 DEF NamedOK
  <1>7. OverOK'
    <2>1. \A d \in Child : d # Root /\ d \in Sessions
      BY SupervisorAssumption DEF Child, Sessions
    <2> QED
      BY <1>1, <1>2, <2>1 DEF SupervisorInv, OverOK, Over
  <1> QED
    BY <1>4, <1>5, <1>6, <1>7 DEF SupervisorInv

LEMMA KillsStaleStep == ASSUME SupervisorInv, KillsStale PROVE SupervisorInv'
  <1> DEFINE c == run.child
  <1>0. c \in Child /\ proc[c] # "none" /\ Kill(c) /\ UNCHANGED <<stored, cancel, recovery>>
    BY DEF SupervisorInv, Types, RunOK, KillsStale
  <1>1. /\ ProcsKeep /\ \A d \in Child : proc[d] = "none" => proc'[d] = "none"
    BY <1>0, KillKeeps DEF SupervisorInv
  <1>2. /\ run' \in [at: Place, child: Child, doc: Seq(Entry), joined: BOOLEAN]
        /\ run'.at = "mark" /\ run'.child = c
    BY DEF SupervisorInv, Types, KillsStale, MovesTo, Place
  <1>3. RunOK'
    BY <1>1, <1>2 DEF SupervisorInv, RunOK, Child
  <1> QED
    BY <1>0, <1>1, <1>2, <1>3, QuietStep, VisitsKeep, SameLogs DEF SupervisorInv, Types

\* What the rest of the coordinator appends declares no child over.
LEMMA RunAppends ==
  ASSUME SupervisorInv,
         SeesTerminal \/ HeartbeatStale \/ MarksStale \/ TimesOut \/ JudgesFirst \/ JudgesSecond
         \/ Finishes
  PROVE  LogsKeep
  <1>0. run.child \in Child /\ run.child \in Sessions
    BY DEF SupervisorInv, Types, Sessions
  <1>1. CASE UNCHANGED stored
    BY <1>1, SameLogs DEF SupervisorInv
  <1>2. CASE stored' = Appended(run.child, Terminal("blocked"))
    <2>1. Terminal("blocked") \in Entry /\ Silent(Terminal("blocked"))
      BY Tags, SilentEvents DEF Status
    <2> QED
      BY <1>0, <1>2, <2>1, SilentKeeps DEF SupervisorInv
  <1>3. CASE \E status \in Status : stored' = Appended(Root, Terminal(status))
    BY <1>3, RootEvents DEF SupervisorInv
  <1>4. \/ UNCHANGED stored \/ stored' = Appended(run.child, Terminal("blocked"))
        \/ stored' = Appended(Root, Terminal("blocked")) \/ stored' = Appended(Root, Terminal("succeeded"))
    <2>1. CASE SeesTerminal \/ HeartbeatStale \/ MarksStale \/ TimesOut
      BY <2>1 DEF SeesTerminal, HeartbeatStale, MarksStale, TimesOut, Blocks
    <2>2. CASE JudgesFirst \/ JudgesSecond
      BY <2>2 DEF JudgesFirst, JudgesSecond, Blocks
    <2>3. CASE Finishes
      BY <2>3 DEF Finishes
    <2> QED
      BY <2>1, <2>2, <2>3
  <1> QED
    BY <1>1, <1>2, <1>3, <1>4 DEF Status

LEMMA RunMoves ==
  ASSUME SupervisorInv,
         SeesTerminal \/ HeartbeatStale \/ MarksStale \/ TimesOut \/ JudgesFirst \/ JudgesSecond
         \/ Finishes
  PROVE  SupervisorInv'
  <1>1. LogsKeep
    BY RunAppends
  <1>2. UNCHANGED <<proc, misjudged, cancel, recovery>>
    BY DEF SeesTerminal, HeartbeatStale, MarksStale, TimesOut, JudgesFirst, JudgesSecond, Finishes
  <1>3. run' \in [at: Place, child: Child, doc: Seq(Entry), joined: BOOLEAN] /\ RunOK'
    <2>0. /\ run \in [at: Place, child: Child, doc: Seq(Entry), joined: BOOLEAN]
          /\ run.child \in Sessions /\ stored[run.child] \in Seq(Entry)
          /\ stored'[run.child] \in Seq(Entry)
      BY <1>1 DEF SupervisorInv, Types, LogsKeep, Sessions
    <2>1. CASE SeesTerminal
      BY <1>2, <2>0, <2>1 DEF SupervisorInv, RunOK, SeesTerminal, Place
    <2>2. CASE HeartbeatStale
      BY <1>2, <2>0, <2>2 DEF SupervisorInv, RunOK, HeartbeatStale, MovesTo, Place
    <2>3. CASE MarksStale
      BY <1>2, <2>0, <2>3 DEF SupervisorInv, RunOK, MarksStale, Place
    <2>4. CASE TimesOut
      BY <1>2, <2>0, <2>4 DEF SupervisorInv, RunOK, TimesOut, Blocks, MovesTo, Place
    <2>5. CASE JudgesFirst
      <3>1. /\ run.child = First /\ Second \in Child /\ First # Second
            /\ \/ run' = [run EXCEPT !.at = "spawn", !.child = Second]
               \/ run' = [run EXCEPT !.at = "done"]
               \/ run' = [run EXCEPT !.at = "raised"]
        BY <2>0, <2>5, SupervisorAssumption DEF JudgesFirst, Blocks, MovesTo, Child
      <3> QED
        BY <1>2, <2>0, <3>1 DEF SupervisorInv, RunOK, Place
    <2>6. CASE JudgesSecond
      BY <1>2, <2>0, <2>6 DEF SupervisorInv, RunOK, JudgesSecond, Place
    <2>7. CASE Finishes
      BY <1>2, <2>0, <2>7 DEF SupervisorInv, RunOK, Finishes, MovesTo, Place
    <2> QED
      BY <2>1, <2>2, <2>3, <2>4, <2>5, <2>6, <2>7
  <1> QED
    BY <1>1, <1>2, <1>3, QuietStep, VisitsKeep, SameProcs DEF SupervisorInv, Types


\* Whoever is declared over is dead by then, or misjudged.
LEMMA MarkedOver ==
  ASSUME SupervisorInv, ProcsKeep, NEW c \in Child, OverThen(c), NEW status \in Status,
         stored' = Appended(c, Terminal(status))
  PROVE  stored' \in [Sessions -> Seq(Entry)] /\ NamedOK' /\ OverOK'
  <1>0. c \in Sessions /\ c # Root /\ Root \in Sessions /\ Terminal(status) \in Entry
    BY SupervisorAssumption, Tags DEF Sessions, Child
  <1>1. /\ stored' \in [Sessions -> Seq(Entry)]
        /\ \A t \in Sessions : \A x :
             In(x, stored'[t]) <=> In(x, stored[t]) \/ (t = c /\ x = Terminal(status))
    BY <1>0, InAppended DEF SupervisorInv
  <1>2. NamedOK'
    BY <1>0, <1>1 DEF SupervisorInv, NamedOK, ProcsKeep
  <1>3. OverOK'
    <2>1. \A d \in Child : d \in Sessions
      BY DEF Sessions
    <2> QED
      BY <1>1, <2>1 DEF SupervisorInv, OverOK, ProcsKeep, Over, OverThen
  <1> QED
    BY <1>1, <1>2, <1>3

\* The children that cancel_root() and recover() take on were spawned.
LEMMA NamedSpawned ==
  ASSUME SupervisorInv, NEW c \in Named(stored[Root])
  PROVE  c \in Child /\ proc[c] # "none"
  BY DEF SupervisorInv, NamedOK, Named, In

LEMMA CancelSteps ==
  ASSUME SupervisorInv,
         CancelReads \/ (\E c \in Child : CancelVisits(c)) \/ CancelKills \/ CancelMarks \/ CancelEnds
  PROVE  SupervisorInv'
  <1>0. /\ cancel.child \in Child /\ cancel.todo \subseteq Child /\ UNCHANGED <<run, recovery>>
        /\ cancel \in [at: Place, todo: SUBSET Child, child: Child]
    BY DEF SupervisorInv, Types, CancelReads, CancelVisits, CancelKills, CancelMarks, CancelEnds
  <1>1. CASE CancelReads
    <2>1. /\ cancel'.at = "visit" /\ cancel'.todo = Named(stored[Root])
          /\ cancel' \in [at: Place, todo: SUBSET Child, child: Child]
          /\ UNCHANGED <<stored, proc, misjudged>>
      BY <1>0, <1>1, NamedSpawned DEF CancelReads, Place
    <2>2. VisitsOK' /\ RunOK'
      BY <1>0, <2>1, NamedSpawned DEF SupervisorInv, VisitsOK, RunOK, Over, OverThen
    <2> QED
      BY <1>0, <2>1, <2>2, QuietStep, SameLogs, SameProcs DEF SupervisorInv, Types
  <1>2. CASE \E c \in Child : CancelVisits(c)
    <2>1. PICK c \in Child : CancelVisits(c)
      BY <1>2
    <2>2. /\ \/ cancel' = [cancel EXCEPT !.todo = @ \ {c}]
             \/ cancel' = [cancel EXCEPT !.at = "kill", !.child = c]
          /\ c \in cancel.todo /\ cancel.at = "visit" /\ UNCHANGED <<stored, proc, misjudged>>
      BY <2>1 DEF CancelVisits
    <2>3. /\ cancel' \in [at: Place, todo: SUBSET Child, child: Child]
          /\ cancel'.todo \subseteq cancel.todo /\ cancel'.at \in {"visit", "kill"}
          /\ cancel'.at = "kill" => cancel'.child = c
      BY <1>0, <2>2 DEF Place
    <2>4. VisitsOK' /\ RunOK'
      BY <1>0, <2>2, <2>3 DEF SupervisorInv, VisitsOK, RunOK, Over, OverThen
    <2> QED
      BY <1>0, <2>2, <2>3, <2>4, QuietStep, SameLogs, SameProcs DEF SupervisorInv, Types
  <1>3. CASE CancelKills
    <2>1. proc[cancel.child] # "none" /\ Kill(cancel.child) /\ UNCHANGED stored
      BY <1>3 DEF SupervisorInv, VisitsOK, CancelKills
    <2>2. /\ cancel' \in [at: Place, todo: SUBSET Child, child: Child]
          /\ cancel'.todo = cancel.todo /\ cancel'.at = "mark" /\ cancel'.child = cancel.child
      BY <1>0, <1>3 DEF CancelKills, Place
    <2>3. /\ ProcsKeep /\ OverThen(cancel.child)
          /\ \A d \in Child : proc[d] = "none" => proc'[d] = "none"
      BY <1>0, <2>1, KillKeeps DEF SupervisorInv
    <2>4. VisitsOK'
      <3>1. /\ \A c \in cancel'.todo \cup recovery'.todo : proc'[c] # "none"
            /\ recovery'.at = "probe" => proc'[recovery'.child] # "none"
        BY <1>0, <2>2, <2>3 DEF SupervisorInv, Types, VisitsOK, ProcsKeep
      <3>2. proc'[cancel'.child] # "none"
        BY <1>0, <2>1, <2>2, <2>3 DEF ProcsKeep
      <3>3. Over(cancel.child)'
        BY <2>2, <2>3 DEF Over, OverThen
      <3> QED
        BY <3>1, <3>2, <3>3 DEF VisitsOK
    <2>5. RunOK'
      BY <1>0, <2>3 DEF SupervisorInv, Types, RunOK, ProcsKeep, Child
    <2> QED
      BY <1>0, <2>1, <2>2, <2>3, <2>4, <2>5, QuietStep, SameLogs DEF SupervisorInv, Types
  <1>4. CASE CancelMarks
    <2>1. /\ OverThen(cancel.child) /\ UNCHANGED <<proc, misjudged>>
          /\ stored' = Appended(cancel.child, Terminal("cancelled"))
      BY <1>4 DEF SupervisorInv, VisitsOK, CancelMarks, Over, OverThen
    <2>2. /\ cancel' \in [at: Place, todo: SUBSET Child, child: Child]
          /\ cancel'.todo \subseteq cancel.todo /\ cancel'.at = "visit"
      BY <1>0, <1>4 DEF CancelMarks, Place
    <2>3. stored' \in [Sessions -> Seq(Entry)] /\ NamedOK' /\ OverOK'
      <3>1. "cancelled" \in Status
        BY DEF Status
      <3> QED
        BY <1>0, <2>1, <3>1, MarkedOver, SameProcs DEF SupervisorInv
    <2>4. VisitsOK' /\ RunOK'
      BY <1>0, <2>1, <2>2 DEF SupervisorInv, VisitsOK, RunOK, Over, OverThen
    <2>5. Types'
      BY <1>0, <2>1, <2>2, <2>3 DEF SupervisorInv, Types
    <2> QED
      BY <2>3, <2>4, <2>5 DEF SupervisorInv
  <1>5. CASE CancelEnds
    <2>1. LogsKeep /\ UNCHANGED <<proc, misjudged>>
      <3>1. "cancelled" \in Status
        BY DEF Status
      <3> QED
        BY <1>5, <3>1, RootEvents DEF SupervisorInv, CancelEnds
    <2>2. /\ cancel' \in [at: Place, todo: SUBSET Child, child: Child]
          /\ cancel'.todo = cancel.todo /\ cancel'.at = "done"
      BY <1>0, <1>5 DEF CancelEnds, Place
    <2>3. VisitsOK' /\ RunOK'
      BY <1>0, <2>1, <2>2 DEF SupervisorInv, VisitsOK, RunOK, Over, OverThen
    <2> QED
      BY <1>0, <2>1, <2>2, <2>3, QuietStep, SameProcs DEF SupervisorInv, Types
  <1> QED
    BY <1>1, <1>2, <1>3, <1>4, <1>5

LEMMA RecoveryKeeps ==
  ASSUME SupervisorInv,
         RecoveryScans \/ RecoveryReads \/ (\E c \in Child : RecoveryVisits(c))
         \/ RecoveryProbes \/ RecoveryEnds
  PROVE  ProcsKeep
  <1>1. UNCHANGED proc /\ (UNCHANGED misjudged \/ misjudged' = misjudged \cup {recovery.child})
    BY DEF RecoveryScans, RecoveryReads, RecoveryVisits, RecoveryProbes, RecoveryEnds, TakenForDead,
       Misjudges
  <1> QED
    BY <1>1 DEF SupervisorInv, Types, ProcsKeep, Over, OverThen

LEMMA RecoverySteps ==
  ASSUME SupervisorInv,
         RecoveryScans \/ RecoveryReads \/ (\E c \in Child : RecoveryVisits(c)) \/ RecoveryProbes \/ RecoveryEnds
  PROVE  SupervisorInv'
  <1>0. /\ recovery \in [at: Place, todo: SUBSET Child, child: Child, lost: BOOLEAN]
        /\ UNCHANGED <<proc, run, cancel>> /\ ProcsKeep
    BY RecoveryKeeps DEF SupervisorInv, Types, RecoveryScans, RecoveryReads, RecoveryVisits, RecoveryProbes, RecoveryEnds
  <1>a. RunOK'
    BY <1>0 DEF SupervisorInv, RunOK
  <1>b. CASE RecoveryScans
    <2>1. /\ recovery' \in [at: Place, todo: SUBSET Child, child: Child, lost: BOOLEAN]
          /\ recovery'.at = "scan" /\ recovery'.todo = recovery.todo /\ UNCHANGED stored
      BY <1>0, <1>b DEF RecoveryScans, Place
    <2>2. VisitsOK'
      BY <1>0, <2>1 DEF SupervisorInv, Types, VisitsOK, ProcsKeep, Over, OverThen
    <2> QED
      BY <1>0, <1>a, <2>1, <2>2, QuietStep, SameLogs DEF SupervisorInv, Types
  <1>1. CASE RecoveryReads
    <2>1. /\ recovery' \in [at: Place, todo: SUBSET Child, child: Child, lost: BOOLEAN]
          /\ recovery'.at = "visit" /\ recovery'.todo = Named(stored[Root]) /\ UNCHANGED stored
      BY <1>0, <1>1, NamedSpawned DEF RecoveryReads, Place
    <2>2. VisitsOK'
      BY <1>0, <2>1, NamedSpawned DEF SupervisorInv, Types, VisitsOK, ProcsKeep, Over, OverThen
    <2> QED
      BY <1>0, <1>a, <2>1, <2>2, QuietStep, SameLogs DEF SupervisorInv, Types
  <1>2. CASE \E c \in Child : RecoveryVisits(c)
    <2>1. PICK c \in Child : RecoveryVisits(c)
      BY <1>2
    <2>2. /\ \/ \E lost \in BOOLEAN : recovery' = [recovery EXCEPT !.todo = @ \ {c}, !.lost = lost]
             \/ recovery' = [recovery EXCEPT !.at = "probe", !.child = c]
          /\ c \in recovery.todo /\ recovery.at = "visit" /\ UNCHANGED stored
      <3>1. (recovery.lost \/ Verdict(stored[c]) \in Lost) \in BOOLEAN
        OBVIOUS
      <3> QED
        BY <2>1, <3>1 DEF RecoveryVisits
    <2>3. /\ recovery' \in [at: Place, todo: SUBSET Child, child: Child, lost: BOOLEAN]
          /\ recovery'.todo \subseteq recovery.todo /\ recovery'.at \in {"visit", "probe"}
          /\ recovery'.at = "probe" => recovery'.child = c
      BY <1>0, <2>2 DEF Place
    <2>4. VisitsOK'
      BY <1>0, <2>2, <2>3 DEF SupervisorInv, Types, VisitsOK, ProcsKeep, Over, OverThen
    <2> QED
      BY <1>0, <1>a, <2>2, <2>3, <2>4, QuietStep, SameLogs DEF SupervisorInv, Types
  <1>3. CASE RecoveryProbes
    <2> DEFINE c == recovery.child
    <2>1. /\ c \in Child /\ c \in Sessions /\ proc[c] \in {"alive", "dead"}
          /\ recovery.todo \subseteq Child
      BY <1>0, <1>3 DEF SupervisorInv, Types, VisitsOK, RecoveryProbes, Sessions
    <2>2. /\ recovery' \in [at: Place, todo: SUBSET Child, child: Child, lost: BOOLEAN]
          /\ recovery'.todo \subseteq recovery.todo /\ recovery'.at = "visit"
      BY <1>0, <1>3 DEF RecoveryProbes, Place
    <2>3. VisitsOK'
      BY <1>0, <2>2 DEF SupervisorInv, Types, VisitsOK, ProcsKeep, Over, OverThen
    <2>4. CASE stored' = Appended(c, [type |-> "reattached"])
      <3>1. LogsKeep
        BY <2>1, <2>4, SilentEvents, Tags, SilentKeeps DEF SupervisorInv
      <3> QED
        BY <1>0, <1>a, <2>2, <2>3, <3>1, QuietStep DEF SupervisorInv, Types
    <2>5. CASE TakenForDead(c) /\ stored' = Appended(c, Terminal("lost"))
      <3>1. "lost" \in Status /\ OverThen(c)
        BY <1>0, <2>5 DEF TakenForDead, Misjudges, Over, OverThen, Status
      <3>2. stored' \in [Sessions -> Seq(Entry)] /\ NamedOK' /\ OverOK'
        BY <1>0, <2>1, <2>5, <3>1, MarkedOver
      <3>3. Types'
        BY <1>0, <2>2, <3>2 DEF SupervisorInv, Types, ProcsKeep
      <3> QED
        BY <1>a, <2>3, <3>2, <3>3 DEF SupervisorInv
    <2> QED
      BY <1>3, <2>4, <2>5 DEF RecoveryProbes
  <1>4. CASE RecoveryEnds
    <2>1. LogsKeep
      <3>1. "blocked" \in Status
        BY DEF Status
      <3>2. UNCHANGED stored \/ stored' = Appended(Root, Terminal("blocked"))
        BY <1>4 DEF RecoveryEnds
      <3> QED
        BY <3>1, <3>2, RootEvents, SameLogs DEF SupervisorInv
    <2>2. /\ recovery' \in [at: Place, todo: SUBSET Child, child: Child, lost: BOOLEAN]
          /\ recovery'.todo = recovery.todo /\ recovery'.at = "done"
      BY <1>0, <1>4 DEF RecoveryEnds, Place
    <2>3. VisitsOK'
      BY <1>0, <2>2 DEF SupervisorInv, Types, VisitsOK, ProcsKeep, Over, OverThen
    <2> QED
      BY <1>0, <1>a, <2>1, <2>2, <2>3, QuietStep DEF SupervisorInv, Types
  <1> QED
    BY <1>b, <1>1, <1>2, <1>3, <1>4

-----------------------------------------------------------------------------
LEMMA SupervisorStep ==
  ASSUME SupervisorInv, [SupervisorNext]_supervisorVars PROVE SupervisorInv'
  <1>1. CASE UNCHANGED supervisorVars
    BY <1>1 DEF supervisorVars, SupervisorInv, Types, RunOK, NamedOK, VisitsOK, OverOK, Over, OverThen
  <1>2. CASE SupervisorNext
    BY <1>2, ChildSteps, RunStartsStep, SpawnsStep, SpawnFailsStep, NamesStep, KillsStaleStep,
       RunMoves, CancelSteps, RecoverySteps DEF SupervisorNext
  <1> QED
    BY <1>1, <1>2

\* A child whose log says cancelled or lost has no process, or one that a kill
\* left or a probe did not see: cancel_root() terminates before it appends, and
\* recover() probes, whatever else runs at the time.
THEOREM DeclaredOverIsDeadHolds == SupervisorSpec => []DeclaredOverIsDead
  <1>1. SupervisorInv => DeclaredOverIsDead
    BY DEF SupervisorInv, OverOK, Over, OverThen, DeclaredOverIsDead, In
  <1> QED
    BY <1>1, SupervisorStart, SupervisorStep, PTL DEF SupervisorSpec

-----------------------------------------------------------------------------
(* What the coordinator joins *)

\* The place of the first terminal event.
FirstAt(i, doc) ==
  /\ i \in DOMAIN doc /\ doc[i].type = "terminal"
  /\ \A j \in 1..i - 1 : doc[j].type # "terminal"

\* A log with a terminal event has a first one.
Readable(doc) == Has("terminal", doc) => \E i \in DOMAIN doc : FirstAt(i, doc)

\* An append neither takes an event away nor changes the first terminal one.
Grows(doc, log) ==
  /\ \A type \in {"terminal", "result"} : Has(type, doc) => Has(type, log)
  /\ Has("terminal", doc) => Verdict(log) = Verdict(doc)

Won(c) == Has("terminal", stored[c]) /\ Verdict(stored[c]) = "succeeded"

FirstWon == Won(First) /\ Has("result", stored[First])

\* The log that is judged is an earlier state of the child's; the second child
\* is only spawned on a result of the first; the join is of two that won.
JoinInv ==
  /\ \A c \in Child : Readable(stored[c])
  /\ run.at = "judge" => /\ Has("terminal", run.doc) /\ Grows(run.doc, stored[run.child])
  /\ run.child = Second => FirstWon
  /\ run.joined => run.child = Second /\ Won(Second)
  /\ In(Terminal("succeeded"), stored[Root]) => FirstWon /\ Won(Second)

LEMMA VerdictRead ==
  ASSUME NEW doc \in Seq(Entry), NEW i, FirstAt(i, doc)
  PROVE  Verdict(doc) = doc[i].status
  <1>1. i \in 1..Len(doc)
    BY DEF FirstAt
  <1>2. \A j \in DOMAIN doc :
          doc[j].type = "terminal" /\ (\A k \in 1..j - 1 : doc[k].type # "terminal") => j = i
    <2> SUFFICES ASSUME NEW j \in DOMAIN doc, doc[j].type = "terminal",
                        \A k \in 1..j - 1 : doc[k].type # "terminal"
                 PROVE  j = i
      OBVIOUS
    <2>1. j \in 1..Len(doc) /\ ~(i < j) /\ ~(j < i)
      BY <1>1 DEF FirstAt
    <2> QED
      BY <1>1, <2>1
  <1> QED
    BY <1>2 DEF FirstAt, Verdict

LEMMA AppendGrows ==
  ASSUME NEW doc \in Seq(Entry), NEW e \in Entry, Readable(doc)
  PROVE  Readable(Append(doc, e)) /\ Grows(doc, Append(doc, e))
  <1> DEFINE log == Append(doc, e)
  <1>1. /\ DOMAIN doc = 1..Len(doc) /\ Len(doc) \in Nat /\ log \in Seq(Entry)
        /\ DOMAIN log = 1..(Len(doc) + 1)
        /\ \A i \in 1..Len(doc) : log[i] = doc[i]
        /\ log[Len(doc) + 1] = e
    OBVIOUS
  <1> HIDE DEF log
  <1>2. \A type \in {"terminal", "result"} : Has(type, doc) => Has(type, log)
    BY <1>1 DEF Has
  <1>3. ASSUME NEW i, FirstAt(i, doc) PROVE FirstAt(i, log) /\ log[i] = doc[i]
    BY <1>1, <1>3 DEF FirstAt
  <1>4. Has("terminal", doc) => Verdict(log) = Verdict(doc)
    BY <1>1, <1>3, VerdictRead DEF Readable
  <1>5. Readable(log)
    <2>1. CASE Has("terminal", doc)
      <3>1. PICK i \in DOMAIN doc : FirstAt(i, doc)
        BY <2>1 DEF Readable
      <3>2. i \in DOMAIN log
        BY <1>1
      <3> QED
        BY <1>3, <3>1, <3>2 DEF Readable
    <2>2. CASE ~Has("terminal", doc)
      <3>1. \A i \in 1..Len(doc) : log[i].type # "terminal"
        BY <1>1, <2>2 DEF Has
      <3>2. ASSUME Has("terminal", log) PROVE FirstAt(Len(doc) + 1, log)
        <4>1. PICK i \in 1..(Len(doc) + 1) : log[i].type = "terminal"
          BY <1>1, <3>2 DEF Has
        <4>2. i = Len(doc) + 1
          BY <1>1, <3>1, <4>1
        <4> QED
          BY <1>1, <3>1, <4>1, <4>2 DEF FirstAt
      <3> QED
        BY <1>1, <3>2 DEF Readable
    <2> QED
      BY <2>1, <2>2
  <1> QED
    BY <1>2, <1>4, <1>5 DEF Grows, log

\* One event in one log.
LEMMA OneAppend ==
  ASSUME Types, NEW s \in Sessions, NEW e \in Entry, stored' = Appended(s, e)
  PROVE  /\ \A c \in Child : \/ stored'[c] = stored[c]
                             \/ \E x \in Entry : stored'[c] = Append(stored[c], x)
         /\ (s # Root \/ e # Terminal("succeeded")) /\ In(Terminal("succeeded"), stored'[Root])
              => In(Terminal("succeeded"), stored[Root])
  <1>1. \A c \in Child : \/ stored'[c] = stored[c]
                         \/ \E x \in Entry : stored'[c] = Append(stored[c], x)
    BY DEF Types, Appended, Sessions
  <1> QED
    BY <1>1, InAppended DEF Sessions

\* The logs of the children grow by an event at a time, and only the end of
\* run_m2 says of the root that it succeeded.
LogStep ==
  /\ \A c \in Child : \/ stored'[c] = stored[c]
                      \/ \E x \in Entry : stored'[c] = Append(stored[c], x)
  /\ In(Terminal("succeeded"), stored'[Root]) =>
       In(Terminal("succeeded"), stored[Root]) \/ run.joined

LEMMA QuietLogs == ASSUME UNCHANGED stored PROVE LogStep
  BY DEF LogStep

LEMMA OtherLogs ==
  ASSUME Types, NEW s \in Sessions, NEW e \in Entry, stored' = Appended(s, e),
         s # Root \/ e # Terminal("succeeded")
  PROVE  LogStep
  BY OneAppend DEF LogStep

\* The root's own events.
LEMMA RootNotices ==
  /\ Root \in Sessions /\ \A c \in Child : c \in Sessions /\ c # Root
  /\ \A t \in {"created", "spawn_failed", "result", "reattached"} :
       [type |-> t] \in Entry /\ [type |-> t] # Terminal("succeeded")
  /\ \A c \in Child : Spawned(c) \in Entry /\ Spawned(c) # Terminal("succeeded")
  /\ \A status \in Status : Terminal(status) \in Entry
  /\ \A status \in Status \ {"succeeded"} : Terminal(status) # Terminal("succeeded")
  <1>1. \A status \in Status \ {"succeeded"} : Terminal(status) # Terminal("succeeded")
    BY DEF Terminal
  <1>2. /\ \A t \in {"created", "spawn_failed", "result", "reattached"} :
             [type |-> t] # Terminal("succeeded")
        /\ \A c \in Child : Spawned(c) # Terminal("succeeded")
    BY Tags DEF Status
  <1> QED
    BY <1>1, <1>2, Tags, SupervisorAssumption DEF Sessions, Child

LEMMA SpawnFailsLogs == ASSUME SupervisorInv, ChildSpawnFails PROVE LogStep
  <1> DEFINE c == run.child
             failed == [type |-> "spawn_failed"]
             blocked == Terminal("blocked")
             created == [type |-> "created"]
  <1>1. /\ Types /\ c \in Child /\ c # Root /\ c \in Sessions
        /\ failed \in Entry /\ blocked \in Entry /\ created \in Entry
        /\ failed # Terminal("succeeded") /\ blocked # Terminal("succeeded")
    BY RootNotices DEF SupervisorInv, Types, Status
  <1>2. stored' = [stored EXCEPT ![c] = Append(@, created), ![Root] = @ \o <<failed, blocked>>]
    BY DEF ChildSpawnFails
  <1> HIDE DEF failed, blocked, created
  <1>3. stored[Root] \in Seq(Entry) /\ DOMAIN stored = Sessions /\ Root \in Sessions
    BY DEF SupervisorInv, Types, Sessions
  <1>4. \A d \in Child : stored'[d] = IF d = c THEN Append(stored[d], created) ELSE stored[d]
    BY <1>1, <1>2, <1>3, RootNotices DEF Sessions
  <1>5. stored'[Root] = Append(Append(stored[Root], failed), blocked)
    <2>1. stored'[Root] = stored[Root] \o <<failed, blocked>>
      BY <1>1, <1>2, <1>3
    <2>2. stored[Root] \o <<failed, blocked>> = Append(Append(stored[Root], failed), blocked)
      BY <1>1, <1>3
    <2> QED
      BY <2>1, <2>2
  <1>6. In(Terminal("succeeded"), stored'[Root]) => In(Terminal("succeeded"), stored[Root])
    <2>1. Append(stored[Root], failed) \in Seq(Entry)
      BY <1>1, <1>3
    <2> DEFINE won == Terminal("succeeded")
               once == Append(stored[Root], failed)
    <2>2. In(won, once) => In(won, stored[Root])
      BY <1>1, <1>3, InAppend
    <2> HIDE DEF won, once
    <2>3. In(won, Append(once, blocked)) => In(won, once) \/ won = blocked
      BY <1>1, <2>1, InAppend DEF once
    <2> QED
      BY <1>1, <1>5, <2>2, <2>3 DEF won, once
  <1> QED
    BY <1>1, <1>4, <1>6 DEF LogStep

LEMMA FinishesLogs == ASSUME SupervisorInv, Finishes PROVE LogStep
  <1>1. stored' = Appended(Root, Terminal(IF run.joined THEN "succeeded" ELSE "blocked"))
    BY DEF Finishes
  <1>2. CASE ~run.joined
    <2>1. stored' = Appended(Root, Terminal("blocked"))
      BY <1>1, <1>2
    <2> QED
      BY <2>1, RootNotices, OtherLogs DEF SupervisorInv, Status
  <1>3. CASE run.joined
    <2>1. stored' = Appended(Root, Terminal("succeeded"))
      BY <1>1, <1>3
    <2> QED
      BY <1>3, <2>1, RootNotices, OneAppend DEF SupervisorInv, LogStep, Status
  <1> QED
    BY <1>2, <1>3

LEMMA LogSteps == ASSUME SupervisorInv, SupervisorNext PROVE LogStep
  <1>1. /\ Types /\ run.child \in Child /\ cancel.child \in Child /\ recovery.child \in Child
    BY DEF SupervisorInv, Types
  <1>2. ASSUME NEW c \in Child, NEW status \in {"succeeded", "blocked"}, ChildFinishes(c, status)
        PROVE  LogStep
    BY <1>1, <1>2, RootNotices, OtherLogs DEF ChildFinishes, Status
  <1>3. ASSUME NEW c \in Child, ChildPublishes(c) \/ ChildExits(c) \/ CancelVisits(c)
                                \/ RecoveryVisits(c)
        PROVE  LogStep
    BY <1>1, <1>3, RootNotices, OtherLogs, QuietLogs DEF ChildPublishes, ChildExits, CancelVisits,
       RecoveryVisits
  <1>4. CASE RunStarts \/ Spawns \/ Names
    BY <1>1, <1>4, RootNotices, OtherLogs DEF RunStarts, Spawns, Names
  <1>5. CASE MarksStale \/ CancelMarks \/ CancelEnds
    BY <1>1, <1>5, RootNotices, OtherLogs DEF MarksStale, CancelMarks, CancelEnds, Status
  <1>6. CASE SeesTerminal \/ HeartbeatStale \/ KillsStale \/ JudgesSecond
             \/ CancelReads \/ CancelKills \/ RecoveryScans \/ RecoveryReads
    BY <1>6, QuietLogs DEF SeesTerminal, HeartbeatStale, KillsStale, JudgesSecond,
       CancelReads, CancelKills, RecoveryScans, RecoveryReads
  <1>7. CASE TimesOut \/ JudgesFirst \/ RecoveryEnds
    <2>1. UNCHANGED stored \/ stored' = Appended(Root, Terminal("blocked"))
      BY <1>7 DEF TimesOut, JudgesFirst, RecoveryEnds, Blocks
    <2> QED
      BY <1>1, <2>1, RootNotices, OtherLogs, QuietLogs DEF Status
  <1>8. CASE RecoveryProbes
    <2>1. \/ stored' = Appended(recovery.child, [type |-> "reattached"])
          \/ stored' = Appended(recovery.child, Terminal("lost"))
      BY <1>8 DEF RecoveryProbes
    <2> QED
      BY <1>1, <2>1, RootNotices, OtherLogs DEF Status
  <1> QED
    BY <1>2, <1>3, <1>4, <1>5, <1>6, <1>7, <1>8, SpawnFailsLogs, FinishesLogs DEF SupervisorNext

\* What the steps make of the coordinator's place and of what it has read.
RunStep ==
  \/ UNCHANGED run
  \/ run'.at # "judge" /\ run'.child = run.child /\ run'.joined = run.joined
  \/ /\ run'.at = "judge" /\ run'.child = run.child /\ run'.joined = run.joined
     /\ run'.doc = stored'[run.child] /\ Has("terminal", stored'[run.child])
  \/ /\ run.at = "judge" /\ run.child = First /\ run'.joined = run.joined
     /\ Verdict(run.doc) = "succeeded" /\ Has("result", run.doc) /\ run'.at # "judge"
  \/ /\ run.at = "judge" /\ run.child = Second /\ run'.child = Second /\ run'.at # "judge"
     /\ run'.joined = (Verdict(run.doc) = "succeeded")

LEMMA RunSteps == ASSUME SupervisorInv, SupervisorNext PROVE RunStep
  <1>1. /\ run \in [at: Place, child: Child, doc: Seq(Entry), joined: BOOLEAN]
        /\ Types /\ run.child \in Child
    BY DEF SupervisorInv, Types
  <1>2. \A p \in Place \ {"judge"} : MovesTo(p) => RunStep
    BY <1>1 DEF MovesTo, RunStep
  <1>3. CASE RunStarts \/ Spawns \/ ChildSpawnFails \/ Names \/ HeartbeatStale \/ KillsStale
             \/ TimesOut \/ Finishes
    <2>1. \E p \in Place \ {"judge"} : MovesTo(p)
      BY <1>3 DEF RunStarts, Spawns, ChildSpawnFails, Names, HeartbeatStale, KillsStale, TimesOut,
         Finishes, Blocks, Place
    <2> QED
      BY <1>2, <2>1
  <1>4. CASE SeesTerminal
    BY <1>1, <1>4 DEF SeesTerminal, RunStep
  <1>5. CASE MarksStale
    <2> DEFINE e == Terminal("blocked")
               c == run.child
    <2>1. e \in Entry /\ e.type = "terminal" /\ c \in Sessions /\ stored[c] \in Seq(Entry)
      BY <1>1, Tags DEF Status, Sessions, Types
    <2>2. stored'[c] = Append(stored[c], e)
      BY <1>1, <1>5, <2>1 DEF MarksStale, Appended, Types
    <2> HIDE DEF e
    <2>3. Has("terminal", stored'[c])
      <3>1. Len(stored[c]) + 1 \in DOMAIN Append(stored[c], e)
            /\ Append(stored[c], e)[Len(stored[c]) + 1] = e
        BY <2>1
      <3> QED
        BY <2>1, <2>2, <3>1 DEF Has
    <2> QED
      BY <1>1, <1>5, <2>3 DEF MarksStale, RunStep
  <1>6. CASE JudgesFirst
    <2>1. CASE \E p \in {"done", "raised"} : MovesTo(p)
      BY <1>2, <2>1 DEF Place
    <2>2. CASE /\ Verdict(run.doc) = "succeeded" /\ Has("result", run.doc)
               /\ run' = [run EXCEPT !.at = "spawn", !.child = Second]
      BY <1>1, <1>6, <2>2 DEF JudgesFirst, RunStep
    <2> QED
      BY <1>6, <2>1, <2>2 DEF JudgesFirst, Blocks
  <1>7. CASE JudgesSecond
    BY <1>1, <1>7 DEF JudgesSecond, RunStep
  <1>8. CASE UNCHANGED run
    BY <1>8 DEF RunStep
  <1> QED
    BY <1>3, <1>4, <1>5, <1>6, <1>7, <1>8 DEF SupervisorNext, ChildFinishes, ChildPublishes,
       ChildExits, CancelVisits, RecoveryVisits, CancelReads, CancelKills, CancelMarks, CancelEnds,
       RecoveryScans, RecoveryReads, RecoveryProbes, RecoveryEnds

LEMMA JoinStart == SupervisorInit => JoinInv
  <1> SUFFICES ASSUME SupervisorInit PROVE JoinInv
    OBVIOUS
  <1>1. \A s \in Sessions : stored[s] = <<>> /\ ~Has("terminal", stored[s])
                            /\ ~In(Terminal("succeeded"), stored[s])
    BY DEF SupervisorInit, Sessions, Has, In
  <1> QED
    BY <1>1, SupervisorAssumption DEF SupervisorInit, JoinInv, Readable, Sessions

LEMMA JoinStep ==
  ASSUME SupervisorInv, JoinInv, [SupervisorNext]_supervisorVars PROVE JoinInv'
  <1>1. LogStep /\ RunStep
    BY LogSteps, RunSteps, QuietLogs DEF RunStep, supervisorVars
  <1>2. ASSUME NEW c \in Child PROVE Readable(stored'[c]) /\ Grows(stored[c], stored'[c])
    <2>1. stored[c] \in Seq(Entry) /\ Readable(stored[c])
      BY DEF SupervisorInv, Types, Sessions, JoinInv
    <2>2. CASE stored'[c] = stored[c]
      BY <2>1, <2>2 DEF Grows
    <2>3. ASSUME NEW x \in Entry, stored'[c] = Append(stored[c], x)
          PROVE  Readable(stored'[c]) /\ Grows(stored[c], stored'[c])
      BY <2>1, <2>3, AppendGrows
    <2> QED
      BY <1>1, <2>2, <2>3 DEF LogStep
  <1>3. /\ \A c \in Child : Won(c) => Won(c)'
        /\ FirstWon => FirstWon'
    BY <1>2 DEF Won, FirstWon, Grows, Child
  <1>4. run.child \in Child /\ First # Second
    BY SupervisorAssumption DEF SupervisorInv, Types
  <1>5. run.at = "judge" => /\ Has("terminal", run.doc) /\ Grows(run.doc, stored[run.child])
                            /\ Grows(run.doc, stored'[run.child])
    BY <1>2, <1>4 DEF JoinInv, Grows
  <1>6. run.at = "judge" /\ Verdict(run.doc) = "succeeded" => Won(run.child)
    BY <1>5 DEF Grows, Won
  <1>7. run'.at = "judge" => Has("terminal", run'.doc) /\ Grows(run'.doc, stored'[run'.child])
    BY <1>1, <1>5 DEF RunStep, Grows
  <1>8. run'.child = Second => FirstWon'
    <2>1. run.child = Second => FirstWon
      BY DEF JoinInv
    <2>2. run.at = "judge" /\ run.child = First /\ Verdict(run.doc) = "succeeded"
          /\ Has("result", run.doc) => FirstWon
      BY <1>5, <1>6 DEF FirstWon, Grows
    <2> QED
      BY <1>1, <1>3, <2>1, <2>2 DEF RunStep
  <1>9. run'.joined => run'.child = Second /\ Won(Second)'
    <2>1. run.joined => run.child = Second /\ Won(Second)
      BY DEF JoinInv
    <2>2. Second \in Child
      BY DEF Child
    <2> QED
      BY <1>1, <1>3, <1>4, <1>6, <2>1, <2>2 DEF RunStep
  <1>10. In(Terminal("succeeded"), stored'[Root]) => (FirstWon /\ Won(Second))'
    BY <1>1, <1>3 DEF LogStep, JoinInv, Child
  <1> QED
    BY <1>2, <1>7, <1>8, <1>9, <1>10 DEF JoinInv

\* run_m2 says of a root that it succeeded only when both children did, the
\* second one on the result of the first: an event that comes later, a cancel or
\* a recovery, changes neither first verdict.
THEOREM SucceededIsJoinedHolds == SupervisorSpec => []SucceededIsJoined
  <1>1. JoinInv => SucceededIsJoined
    BY DEF JoinInv, SucceededIsJoined, In, FirstWon, Won, Child
  <1> QED
    BY <1>1, SupervisorStart, SupervisorStep, JoinStart, JoinStep, PTL DEF SupervisorSpec

=============================================================================
