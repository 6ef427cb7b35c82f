----------------------------- MODULE SessionLog -----------------------------
(***************************************************************************)
(* runtime/session_state.py: one log of events per session, kept as a file *)
(* that every append loads, checks and replaces as a whole.                *)
(*                                                                         *)
(* A writer is a thread.  Nothing locks the file, so what it loaded may be *)
(* out of date when it saves; os.replace() makes the save itself atomic.   *)
(* SessionWriter.tla adds the lock of session_writer.py.                   *)
(***************************************************************************)
EXTENDS Integers, Sequences

CONSTANTS
  Session,    \* session ids; the file of an unused one does not exist
  Writer,     \* threads that append
  Event,      \* events
  NoSession, NoEvent

ASSUME LogAssumption == NoSession \notin Session /\ NoEvent \notin Event

VARIABLES
  log,        \* the stored events of every session
  hand        \* the append every writer is in

logVars == <<log, hand>>

Hand == [at: {"free", "check", "save"}, session: Session \cup {NoSession},
         expected: Nat, doc: Seq(Event), event: Event \cup {NoEvent}]

Free == [at |-> "free", session |-> NoSession, expected |-> 0, doc |-> <<>>, event |-> NoEvent]

Exists(s) == log[s] # <<>>

latest_sequence(doc) == Len(doc) - 1

LogInit == log = [s \in Session |-> <<>>] /\ hand = [w \in Writer |-> Free]

create(s, e) == ~Exists(s) /\ log' = [log EXCEPT ![s] = <<e>>]

\* A writer asks for e to be appended behind the event numbered n.
BeginAppend(w, s, n, e) ==
  /\ hand[w] = Free
  /\ hand' = [hand EXCEPT ![w] = [at |-> "check", session |-> s, expected |-> n,
                                  doc |-> <<>>, event |-> e]]

Agrees(w) == latest_sequence(log[hand[w].session]) = hand[w].expected

CheckAppend(w) ==
  /\ hand[w].at = "check" /\ Agrees(w)
  /\ hand' = [hand EXCEPT ![w].at = "save", ![w].doc = log[hand[w].session]]
  /\ UNCHANGED log

\* SessionError("sequence_conflict")
ConflictAppend(w) ==
  /\ hand[w].at = "check" /\ ~Agrees(w)
  /\ hand' = [hand EXCEPT ![w] = Free]
  /\ UNCHANGED log

Written(w) == Append(hand[w].doc, hand[w].event)

SaveAppend(w) ==
  /\ hand[w].at = "save"
  /\ log' = [log EXCEPT ![hand[w].session] = Written(w)]
  /\ hand' = [hand EXCEPT ![w] = Free]

\* load() or _atomic_write() raises: the file stays as it was.
FailAppend(w) ==
  /\ hand[w] # Free
  /\ hand' = [hand EXCEPT ![w] = Free]
  /\ UNCHANGED log

=============================================================================
