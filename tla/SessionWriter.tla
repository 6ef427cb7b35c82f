--------------------------- MODULE SessionWriter ----------------------------
(***************************************************************************)
(* runtime/session_writer.py: the threads of one process append through a  *)
(* lock per session.  Under it the log is the append-only log of           *)
(* AppendLog, and no append meets a conflict.                              *)
(***************************************************************************)
EXTENDS SessionLog

CONSTANTS
  NoWriter,
  MaxLogged   \* bound: events in a log

ASSUME WriterAssumption == NoWriter \notin Writer /\ MaxLogged \in Nat

VARIABLE holder   \* the thread that holds the lock of a session

lockVars == <<logVars, holder>>

\* __init__: the session is created before its threads get a writer for it.
Open(s, e) == create(s, e) /\ UNCHANGED <<hand, holder>>

\* Mutant: the lock is not taken.
EnterUnlocked(w, s) == holder' = [holder EXCEPT ![s] = w]

Enter(w, s) == holder[s] = NoWriter /\ holder' = [holder EXCEPT ![s] = w]

\* append(): the lock, then latest_sequence(), then state.append().
append(w, s, e) ==
  /\ Exists(s) /\ Len(log[s]) < MaxLogged
  /\ Enter(w, s)
  /\ BeginAppend(w, s, latest_sequence(log[s]), e)
  /\ UNCHANGED log

Exit(w) == holder' = [holder EXCEPT ![hand[w].session] = NoWriter]

Check(w)    == CheckAppend(w) /\ UNCHANGED holder
Conflict(w) == ConflictAppend(w) /\ Exit(w)
Save(w)     == SaveAppend(w) /\ Exit(w)

\* An append that raises leaves the `with` block, and the lock, all the same.
Fail(w) == FailAppend(w) /\ Exit(w)

\* The process dies, its lock with it; the file is as the last save left it.
Die == /\ hand' = [w \in Writer |-> Free] /\ holder' = [s \in Session |-> NoWriter]
       /\ UNCHANGED log

LockInit == LogInit /\ holder = [s \in Session |-> NoWriter]

LockNext ==
  \/ \E s \in Session, e \in Event : Open(s, e) \/ \E w \in Writer : append(w, s, e)
  \/ \E w \in Writer : Check(w) \/ Conflict(w) \/ Save(w) \/ Fail(w)
  \/ Die

LockSpec == LockInit /\ [][LockNext]_lockVars

-----------------------------------------------------------------------------
(* Properties *)

\* The log, the appends in progress and the locks have their types.
LockTypeOK ==
  /\ log \in [Session -> Seq(Event)] /\ hand \in [Writer -> Hand]
  /\ holder \in [Session -> Writer \cup {NoWriter}]

\* A heartbeat thread and a working thread never meet sequence_conflict.
NoConflict == \A w \in Writer : hand[w].at = "check" => Agrees(w)

Abstract == INSTANCE AppendLog

\* Nothing a thread appended is lost to another thread's append.
ImplementsAppendLog == Abstract!Spec

\* The invariant behind both: who appends to a session holds its lock, and what
\* it loaded is still the log.
Locked(w) ==
  hand[w] = Free \/
    /\ hand[w].at \in {"check", "save"} /\ hand[w].session \in Session /\ hand[w].event \in Event
    /\ holder[hand[w].session] = w
    /\ Exists(hand[w].session)
    /\ hand[w].expected = latest_sequence(log[hand[w].session])
    /\ hand[w].at = "save" => hand[w].doc = log[hand[w].session]

LockInv == LockTypeOK /\ \A w \in Writer : Locked(w)

=============================================================================
