---------------------------- MODULE Services_proofs ---------------------------
(***************************************************************************)
(* What four components that share no state promise.  Under the lock of    *)
(* SessionWriter a session log is append-only, for any sessions, threads   *)
(* and events; a record of CoreStore that was reported as appended stays,  *)
(* for any number of processes, identities, payloads and failures;         *)
(* verify_mandate() keeps its revocations and budgets, for any keys,       *)
(* mandates, envelopes, costs and intervals; and build_graph() leaves no   *)
(* containment cycle and misses no prerequisite cycle, for any relations.  *)
(***************************************************************************)
EXTENDS SessionWriter, CoreStore, Mandate, AtlasGraph, FiniteSetTheorems, TLAPS

-----------------------------------------------------------------------------
(* The session log under its lock *)

\* Nothing is open when the process starts.
LEMMA LockInitInv == LockInit => LockInv
<1>. SUFFICES ASSUME LockInit PROVE LockInv
  OBVIOUS
<1>1. LockTypeOK
  BY DEF LockInit, LogInit, LockTypeOK, Hand, Free
<1>2. \A w \in Writer : Locked(w)
  BY DEF LockInit, LogInit, Locked, Free
<1>. QED  BY <1>1, <1>2 DEF LockInv

\* The length of a log with one event more.
LEMMA LatestOfAppend ==
  ASSUME NEW d \in Seq(Event), NEW e \in Event
  PROVE  /\ Append(d, e) \in Seq(Event) /\ Append(d, e) # <<>>
         /\ latest_sequence(Append(d, e)) = latest_sequence(d) + 1
BY DEF latest_sequence

\* A thread that is free can be given any append of the session it locked.
LEMMA AppendInv ==
  ASSUME LockInv, NEW w \in Writer, NEW s \in Session, NEW e \in Event, append(w, s, e)
  PROVE  LockInv'
<1>1. /\ hand[w] = Free /\ holder[s] = NoWriter /\ Exists(s)
      /\ hand' = [hand EXCEPT ![w] = [at |-> "check", session |-> s,
                    expected |-> latest_sequence(log[s]), doc |-> <<>>, event |-> e]]
      /\ holder' = [holder EXCEPT ![s] = w] /\ log' = log
  BY DEF append, Enter, BeginAppend
<1>2. latest_sequence(log[s]) \in Nat
  <2>1. log[s] \in Seq(Event) /\ log[s] # <<>>
    BY <1>1 DEF LockInv, LockTypeOK, Exists
  <2>. QED  BY <2>1 DEF latest_sequence
<1>3. LockTypeOK'
  BY <1>1, <1>2 DEF LockInv, LockTypeOK, Hand
<1>4. ASSUME NEW v \in Writer PROVE Locked(v)'
  <2>1. CASE v = w
    BY <1>1, <2>1 DEF LockInv, LockTypeOK, Locked, Exists
  <2>2. CASE v # w
    <3>1. hand'[v] = hand[v] /\ Locked(v)
      BY <1>1, <2>2 DEF LockInv, LockTypeOK
    <3>2. hand[v] # Free => hand[v].session # s
      BY <1>1, <3>1, WriterAssumption DEF Locked
    <3>. QED  BY <1>1, <3>1, <3>2 DEF Locked, Exists, LockInv, LockTypeOK
  <2>. QED  BY <2>1, <2>2
<1>. QED  BY <1>3, <1>4 DEF LockInv

\* What a thread loads while it holds the lock is the log.
LEMMA CheckInv == ASSUME LockInv, NEW w \in Writer, Check(w) PROVE LockInv'
<1>1. /\ hand[w].at = "check" /\ log' = log /\ holder' = holder
      /\ hand' = [hand EXCEPT ![w].at = "save", ![w].doc = log[hand[w].session]]
  BY DEF Check, CheckAppend
<1>2. Locked(w) /\ hand[w] # Free /\ hand[w] \in Hand
  BY <1>1 DEF LockInv, LockTypeOK, Free
<1>3. log[hand[w].session] \in Seq(Event)
  BY <1>2 DEF LockInv, LockTypeOK, Locked
<1>4. hand'[w] = [hand[w] EXCEPT !.at = "save", !.doc = log[hand[w].session]]
  BY <1>1 DEF LockInv, LockTypeOK
<1>5. LockTypeOK'
  BY <1>1, <1>2, <1>3 DEF LockInv, LockTypeOK, Hand
<1>6. ASSUME NEW v \in Writer PROVE Locked(v)'
  <2>1. CASE v = w
    <3>1. /\ hand[w].session \in Session /\ hand[w].event \in Event /\ holder[hand[w].session] = w
          /\ Exists(hand[w].session) /\ hand[w].expected = latest_sequence(log[hand[w].session])
      BY <1>2 DEF Locked
    <3>2. /\ hand'[w].at = "save" /\ hand'[w].doc = log[hand[w].session]
          /\ hand'[w].session = hand[w].session /\ hand'[w].event = hand[w].event
          /\ hand'[w].expected = hand[w].expected
      BY <1>2, <1>4 DEF Hand
    <3>. QED  BY <1>1, <2>1, <3>1, <3>2 DEF Locked, Exists
  <2>2. CASE v # w
    BY <1>1, <2>2 DEF LockInv, LockTypeOK, Locked, Exists
  <2>. QED  BY <2>1, <2>2
<1>. QED  BY <1>5, <1>6 DEF LockInv

\* A save makes the log one event longer and gives the lock back.
LEMMA SaveInv == ASSUME LockInv, NEW w \in Writer, Save(w) PROVE LockInv'
<1>. DEFINE s == hand[w].session
<1>1. /\ hand[w].at = "save" /\ hand' = [hand EXCEPT ![w] = Free]
      /\ log' = [log EXCEPT ![s] = Append(hand[w].doc, hand[w].event)]
      /\ holder' = [holder EXCEPT ![s] = NoWriter]
  BY DEF Save, SaveAppend, Exit, Written
<1>2. /\ s \in Session /\ holder[s] = w /\ hand[w].doc = log[s] /\ hand[w].event \in Event
      /\ log[s] \in Seq(Event)
  BY <1>1 DEF LockInv, LockTypeOK, Locked, Free
<1>3. Append(log[s], hand[w].event) \in Seq(Event)
  BY <1>2, LatestOfAppend
<1>4. Free \in Hand
  BY DEF Free, Hand
<1>5. LockTypeOK'
  BY <1>1, <1>2, <1>3, <1>4 DEF LockInv, LockTypeOK
<1>6. ASSUME NEW v \in Writer PROVE Locked(v)'
  <2>1. CASE v = w
    BY <1>1, <2>1 DEF LockInv, LockTypeOK, Locked
  <2>2. CASE v # w
    <3>1. hand'[v] = hand[v] /\ Locked(v)
      BY <1>1, <2>2 DEF LockInv, LockTypeOK
    <3>2. hand[v] # Free => hand[v].session # s
      BY <1>2, <2>2, <3>1 DEF Locked
    <3>. QED  BY <1>1, <3>1, <3>2 DEF Locked, Exists, LockInv, LockTypeOK
  <2>. QED  BY <2>1, <2>2
<1>. QED  BY <1>5, <1>6 DEF LockInv

\* Under the lock no append conflicts.
LEMMA NoConflictStep == ASSUME LockInv, NEW w \in Writer, Conflict(w) PROVE FALSE
BY DEF LockInv, Locked, Conflict, ConflictAppend, Agrees, Free

\* An append that fails gives the lock back and leaves the log.
LEMMA FailInv == ASSUME LockInv, NEW w \in Writer, Fail(w) PROVE LockInv'
<1>. DEFINE s == hand[w].session
<1>1. /\ hand[w] # Free /\ hand' = [hand EXCEPT ![w] = Free] /\ log' = log
      /\ holder' = [holder EXCEPT ![s] = NoWriter]
  BY DEF Fail, FailAppend, Exit
<1>2. s \in Session /\ holder[s] = w
  BY <1>1 DEF LockInv, Locked
<1>3. Free \in Hand
  BY DEF Free, Hand
<1>4. LockTypeOK'
  BY <1>1, <1>2, <1>3 DEF LockInv, LockTypeOK
<1>5. ASSUME NEW v \in Writer PROVE Locked(v)'
  <2>1. CASE v = w
    BY <1>1, <2>1 DEF LockInv, LockTypeOK, Locked
  <2>2. CASE v # w
    <3>1. hand'[v] = hand[v] /\ Locked(v)
      BY <1>1, <2>2 DEF LockInv, LockTypeOK
    <3>2. hand[v] # Free => hand[v].session # s
      BY <1>2, <2>2, <3>1 DEF Locked
    <3>. QED  BY <1>1, <3>1, <3>2 DEF Locked, Exists, LockInv, LockTypeOK
  <2>. QED  BY <2>1, <2>2
<1>. QED  BY <1>4, <1>5 DEF LockInv

\* Opening a session disturbs no thread: nobody appends to one that is not open.
LEMMA OpenInv == ASSUME LockInv, NEW s \in Session, NEW e \in Event, Open(s, e) PROVE LockInv'
<1>1. ~Exists(s) /\ log' = [log EXCEPT ![s] = <<e>>] /\ hand' = hand /\ holder' = holder
  BY DEF Open, create
<1>2. <<e>> \in Seq(Event)
  OBVIOUS
<1>3. LockTypeOK'
  BY <1>1, <1>2 DEF LockInv, LockTypeOK
<1>4. ASSUME NEW v \in Writer PROVE Locked(v)'
  BY <1>1 DEF LockInv, LockTypeOK, Locked, Exists
<1>. QED  BY <1>3, <1>4 DEF LockInv

\* Every step of the locked log keeps the invariant.
LEMMA LockStep == LockInv /\ [LockNext]_lockVars => LockInv'
<1>. SUFFICES ASSUME LockInv, [LockNext]_lockVars PROVE LockInv'
  OBVIOUS
<1>1. ASSUME NEW s \in Session, NEW e \in Event, Open(s, e) PROVE LockInv'
  BY <1>1, OpenInv
<1>2. ASSUME NEW s \in Session, NEW e \in Event, NEW w \in Writer, append(w, s, e) PROVE LockInv'
  BY <1>2, AppendInv
<1>3. ASSUME NEW w \in Writer, Check(w) PROVE LockInv'
  BY <1>3, CheckInv
<1>4. ASSUME NEW w \in Writer, Conflict(w) PROVE LockInv'
  BY <1>4, NoConflictStep
<1>5. ASSUME NEW w \in Writer, Save(w) PROVE LockInv'
  BY <1>5, SaveInv
<1>8. ASSUME NEW w \in Writer, Fail(w) PROVE LockInv'
  BY <1>8, FailInv
<1>6. CASE Die
  <2>1. LockTypeOK'
    BY <1>6 DEF Die, LockInv, LockTypeOK, Hand, Free
  <2>2. \A w \in Writer : Locked(w)'
    BY <1>6 DEF Die, Locked
  <2>. QED  BY <2>1, <2>2 DEF LockInv
<1>7. CASE UNCHANGED lockVars
  BY <1>7 DEF lockVars, logVars, LockInv, LockTypeOK, Locked, Exists
<1>. QED  BY <1>1, <1>2, <1>3, <1>4, <1>5, <1>6, <1>7, <1>8 DEF LockNext

\* Who appends holds the lock and knows the log, at every moment.
THEOREM LockInvariant == LockSpec => []LockInv
<1>. QED  BY LockInitInv, LockStep, PTL DEF LockSpec

\* session_writer.py:5: threads do not race on the optimistic check.
THEOREM WriterNeverConflicts == LockSpec => []NoConflict
<1>1. LockInv => NoConflict
  BY DEF LockInv, Locked, NoConflict, Agrees, Free
<1>. QED  BY <1>1, LockInvariant, PTL

\* A step of the locked log adds one event at the end of one log, or nothing.
LEMMA StepRefines == LockInv /\ [LockNext]_lockVars => [Abstract!Next]_log
<1>. SUFFICES ASSUME LockInv, [LockNext]_lockVars PROVE [Abstract!Next]_log
  OBVIOUS
<1>1. ASSUME NEW s \in Session, NEW e \in Event, Open(s, e) PROVE Abstract!Next
  <2>1. log[s] = <<>> /\ log' = [log EXCEPT ![s] = <<e>>]
    BY <1>1 DEF Open, create, Exists
  <2>2. Append(<<>>, e) = <<e>>
    OBVIOUS
  <2>3. Abstract!Add(s, e)
    BY <2>1, <2>2 DEF Abstract!Add
  <2>. QED  BY <2>3 DEF Abstract!Next
<1>2. ASSUME NEW w \in Writer, Save(w) PROVE Abstract!Next
  <2>1. /\ log' = [log EXCEPT ![hand[w].session] = Append(log[hand[w].session], hand[w].event)]
        /\ hand[w].session \in Session /\ hand[w].event \in Event
    <3>1. hand[w].at = "save" /\ log' = [log EXCEPT ![hand[w].session] = Append(hand[w].doc, hand[w].event)]
      BY <1>2 DEF Save, SaveAppend, Written
    <3>2. Locked(w) /\ hand[w] # Free
      BY <3>1 DEF LockInv, Free
    <3>. QED  BY <3>1, <3>2 DEF Locked
  <2>2. Abstract!Add(hand[w].session, hand[w].event)
    BY <2>1 DEF Abstract!Add
  <2>. QED  BY <2>1, <2>2 DEF Abstract!Next
<1>3. ASSUME \/ \E s \in Session, e \in Event, w \in Writer : append(w, s, e)
             \/ \E w \in Writer : Check(w) \/ Conflict(w) \/ Fail(w)
             \/ Die \/ UNCHANGED lockVars
      PROVE log' = log
  BY <1>3 DEF append, Check, CheckAppend, Conflict, ConflictAppend, Fail, FailAppend, Die,
            lockVars, logVars
<1>. QED  BY <1>1, <1>2, <1>3 DEF LockNext

\* The locked log implements the append-only log.
THEOREM WriterIsAppendOnly == LockSpec => ImplementsAppendLog
<1>1. LockInit => Abstract!Init
  BY DEF LockInit, LogInit, Abstract!Init
<1>. QED  BY <1>1, LockInvariant, StepRefines, PTL DEF LockSpec, ImplementsAppendLog, Abstract!Spec

-----------------------------------------------------------------------------
(* The core store *)

Appending ==
  [at: {"create", "write", "sync", "read"}, identity: Identity, payload: Payload]

Types ==
  /\ record \in [Identity -> [at: {"absent", "partial", "whole"}, payload: Payload \cup {NoPayload}]]
  /\ op \in [Process -> {NoAppend} \cup Appending]
  /\ appended \in [Identity -> SUBSET Payload]

FrozenInv == Types /\ CoreStoreInv

\* An append in progress names an identity and a payload.
LEMMA InProgress ==
  ASSUME Types, NEW p \in Process, ~At(p, "idle")
  PROVE  /\ op[p] \in Appending
         /\ op[p].identity \in Identity /\ op[p].payload \in Payload
         /\ op[p].at \in {"create", "write", "sync", "read"}
  BY DEF Types, Appending, At, NoAppend

\* The store starts empty.
LEMMA FrozenInit == CoreStoreInit => FrozenInv
  <1> SUFFICES ASSUME CoreStoreInit PROVE FrozenInv
    OBVIOUS
  <1>1. Types
    BY DEF CoreStoreInit, Types, Absent
  <1>2. CoreStoreInv
    BY DEF CoreStoreInit, CoreStoreInv, SoleWriter, AppendedIsFrozen, Writing, At, NoAppend
  <1> QED
    BY <1>1, <1>2 DEF FrozenInv

\* Every step keeps the types.
LEMMA TypesStep == ASSUME Types, [CoreStoreNext]_coreStoreVars PROVE Types'
  <1>1. ASSUME NEW p \in Process, NEW i \in Identity, NEW d \in Payload,
               NEW s \in Payload \cup {NoPayload}, Appends(p, i, d, s)
        PROVE  Types'
    <2>1. [at |-> "create", identity |-> i, payload |-> d] \in Appending
      BY DEF Appending
    <2> QED
      BY <1>1, <2>1 DEF Types, Appends
  <1>2. ASSUME NEW p \in Process, Creates(p) PROVE Types'
    <2>1. ~At(p, "idle")
      BY <1>2 DEF Creates, At
    <2> QED
      BY <1>2, <2>1, InProgress DEF Types, Creates, FileIs, Holding, Enters, Appending
  <1>3. ASSUME NEW p \in Process, Loses(p) PROVE Types'
    <2>1. ~At(p, "idle")
      BY <1>3 DEF Loses, At
    <2> QED
      BY <1>3, <2>1, InProgress DEF Types, Loses, Enters, Appending
  <1>4. ASSUME NEW p \in Process, Writes(p) PROVE Types'
    <2>1. ~At(p, "idle")
      BY <1>4 DEF Writes, At
    <2> QED
      BY <1>4, <2>1, InProgress DEF Types, Writes, FileIs, Holding, Enters, Appending
  <1>5. ASSUME NEW p \in Process, Withdraws(p) PROVE Types'
    BY <1>5 DEF Types, Withdraws, FileIs, Absent, Returns
  <1>6. ASSUME NEW p \in Process, Syncs(p) PROVE Types'
    <2>1. ~At(p, "idle")
      BY <1>6 DEF Syncs, At
    <2> QED
      BY <1>6, <2>1, InProgress DEF Types, Syncs, Returns
  <1>7. ASSUME NEW p \in Process, Reads(p) PROVE Types'
    BY <1>7 DEF Types, Reads, Returns
  <1>8. ASSUME NEW p \in Process, Misses(p) PROVE Types'
    <2>1. ~At(p, "idle")
      BY <1>8 DEF Misses, At
    <2> QED
      BY <1>8, <2>1, InProgress DEF Types, Misses, Enters, Returns, Appending
  <1>9. ASSUME NEW p \in Process, AppenderDies(p) PROVE Types'
    BY <1>9 DEF Types, AppenderDies, Returns
  <1>10. CASE UNCHANGED coreStoreVars
    BY <1>10 DEF Types, coreStoreVars
  <1> QED
    BY <1>1, <1>2, <1>3, <1>4, <1>5, <1>6, <1>7, <1>8, <1>9, <1>10 DEF CoreStoreNext

\* A step that touches neither a file nor what was reported, and starts no
\* writer, keeps the invariant.
LEMMA QuietStep ==
  ASSUME FrozenInv, NEW p \in Process, UNCHANGED <<record, appended>>,
         op' = [op EXCEPT ![p] = op'[p]], op'[p].at \notin {"write", "sync"}
  PROVE  CoreStoreInv'
  <1> USE DEF FrozenInv, CoreStoreInv
  <1>1. \A q \in Process : Writing(q)' => Writing(q) /\ op'[q] = op[q]
    BY DEF Types, Writing, At
  <1>2. SoleWriter'
    BY <1>1 DEF SoleWriter, File, Holding, At
  <1>3. AppendedIsFrozen'
    BY DEF AppendedIsFrozen
  <1> QED
    BY <1>2, <1>3

\* Every step keeps the invariant.
LEMMA FrozenStep == ASSUME FrozenInv, [CoreStoreNext]_coreStoreVars PROVE FrozenInv'
  <1> USE DEF FrozenInv
  <1>0. Types'
    BY TypesStep
  <1>1. ASSUME NEW p \in Process, NEW i \in Identity, NEW d \in Payload,
               NEW s \in Payload \cup {NoPayload}, Appends(p, i, d, s)
        PROVE  CoreStoreInv'
    <2>1. /\ op' = [op EXCEPT ![p] = [at |-> "create", identity |-> i, payload |-> d]]
          /\ UNCHANGED <<record, appended>>
      BY <1>1 DEF Appends
    <2>2. op' = [op EXCEPT ![p] = op'[p]] /\ op'[p].at = "create"
      BY <2>1 DEF Types
    <2> QED
      BY <2>1, <2>2, QuietStep
  <1>2. ASSUME NEW p \in Process, Creates(p) PROVE CoreStoreInv'
    <2> DEFINE i == op[p].identity
    <2>1. ~At(p, "idle") /\ i \in Identity /\ record[i].at = "absent"
      BY <1>2, InProgress DEF Creates, At, File, Absent
    <2>2. record' = [record EXCEPT ![i] = [at |-> "partial", payload |-> op[p].payload]]
          /\ op' = [op EXCEPT ![p].at = "write"] /\ appended' = appended
      BY <1>2 DEF Creates, FileIs, Holding, Enters
    <2>3. appended[i] = {}
      <3>1. ASSUME NEW d \in appended[i] PROVE FALSE
        <4>1. record[i] = [at |-> "whole", payload |-> d]
          BY <2>1, <3>1 DEF CoreStoreInv, AppendedIsFrozen
        <4> QED
          BY <2>1, <4>1
      <3> QED
        BY <3>1
    <2>4. \A q \in Process : Writing(q) => op[q].identity # i
      <3>1. ASSUME NEW q \in Process, Writing(q), op[q].identity = i PROVE FALSE
        <4>1. record[i] = Holding(q, IF At(q, "write") THEN "partial" ELSE "whole")
          BY <3>1 DEF CoreStoreInv, SoleWriter, File
        <4> QED
          BY <2>1, <4>1 DEF Holding
      <3> QED
        BY <3>1
    <2>5. /\ op'[p].at = "write" /\ op'[p].identity = i /\ op'[p].payload = op[p].payload
          /\ \A q \in Process \ {p} : op'[q] = op[q]
      BY <2>1, <2>2, InProgress DEF Types, Appending
    <2>6. ASSUME NEW q \in Process, Writing(q)'
          PROVE  /\ File(q)' = Holding(q, IF At(q, "write") THEN "partial" ELSE "whole")'
                 /\ appended'[op'[q].identity] = {}
                 /\ \A x \in Process \ {q} : Writing(x)' => op'[x].identity # op'[q].identity
      <3>1. CASE q = p
        <4>1. \A x \in Process \ {p} : Writing(x)' => op'[x].identity # i
          BY <2>4, <2>5 DEF Writing, At
        <4> QED
          BY <3>1, <4>1, <2>1, <2>2, <2>3, <2>5 DEF Types, File, Holding, At
      <3>2. CASE q # p
        <4>1. Writing(q) /\ op'[q] = op[q] /\ op[q].identity # i
          BY <2>4, <2>5, <2>6, <3>2 DEF Writing, At
        <4>2. op[q].identity \in Identity
          BY <4>1, InProgress DEF Writing, At
        <4>3. \A x \in Process \ {q} : Writing(x)' => op'[x].identity # op'[q].identity
          BY <2>5, <4>1 DEF CoreStoreInv, SoleWriter, Writing, At
        <4>4. File(q)' = File(q) /\ appended'[op'[q].identity] = appended[op[q].identity]
          BY <2>2, <4>1, <4>2 DEF Types, File
        <4> QED
          BY <4>1, <4>3, <4>4 DEF CoreStoreInv, SoleWriter, Holding, At
      <3> QED
        BY <3>1, <3>2
    <2>7. SoleWriter'
      BY <2>6 DEF SoleWriter
    <2>8. AppendedIsFrozen'
      BY <2>1, <2>2, <2>3 DEF CoreStoreInv, AppendedIsFrozen, Types
    <2> QED
      BY <2>7, <2>8 DEF CoreStoreInv
  <1>3. ASSUME NEW p \in Process, Loses(p) PROVE CoreStoreInv'
    <2>1. ~At(p, "idle")
      BY <1>3 DEF Loses, At
    <2> QED
      BY <1>3, <2>1, InProgress, QuietStep DEF Loses, Enters, Types, Appending
  <1>4. ASSUME NEW p \in Process, Writes(p) PROVE CoreStoreInv'
    <2> DEFINE i == op[p].identity
    <2>1. ~At(p, "idle") /\ Writing(p) /\ i \in Identity
      BY <1>4, InProgress DEF Writes, At, Writing
    <2>2. record' = [record EXCEPT ![i] = [at |-> "whole", payload |-> op[p].payload]]
          /\ op' = [op EXCEPT ![p].at = "sync"] /\ appended' = appended
      BY <1>4 DEF Writes, FileIs, Holding, Enters
    <2>3. appended[i] = {} /\ \A q \in Process \ {p} : Writing(q) => op[q].identity # i
      BY <2>1 DEF CoreStoreInv, SoleWriter
    <2>4. /\ op'[p].at = "sync" /\ op'[p].identity = i /\ op'[p].payload = op[p].payload
          /\ \A q \in Process \ {p} : op'[q] = op[q]
      BY <2>1, <2>2, InProgress DEF Types, Appending
    <2>5. ASSUME NEW q \in Process, Writing(q)'
          PROVE  /\ File(q)' = Holding(q, IF At(q, "write") THEN "partial" ELSE "whole")'
                 /\ appended'[op'[q].identity] = {}
                 /\ \A x \in Process \ {q} : Writing(x)' => op'[x].identity # op'[q].identity
      <3>1. CASE q = p
        <4>1. \A x \in Process \ {p} : Writing(x)' => op'[x].identity # i
          BY <2>3, <2>4 DEF Writing, At
        <4> QED
          BY <3>1, <4>1, <2>1, <2>2, <2>3, <2>4 DEF Types, File, Holding, At
      <3>2. CASE q # p
        <4>1. Writing(q) /\ op'[q] = op[q] /\ op[q].identity # i
          BY <2>3, <2>4, <2>5, <3>2 DEF Writing, At
        <4>2. op[q].identity \in Identity
          BY <4>1, InProgress DEF Writing, At
        <4>3. \A x \in Process \ {q} : Writing(x)' => op'[x].identity # op'[q].identity
          BY <2>4, <4>1 DEF CoreStoreInv, SoleWriter, Writing, At
        <4>4. File(q)' = File(q) /\ appended'[op'[q].identity] = appended[op[q].identity]
          BY <2>2, <4>1, <4>2 DEF Types, File
        <4> QED
          BY <4>1, <4>3, <4>4 DEF CoreStoreInv, SoleWriter, Holding, At
      <3> QED
        BY <3>1, <3>2
    <2>6. SoleWriter'
      BY <2>5 DEF SoleWriter
    <2>7. AppendedIsFrozen'
      BY <2>1, <2>2, <2>3 DEF CoreStoreInv, AppendedIsFrozen, Types
    <2> QED
      BY <2>6, <2>7 DEF CoreStoreInv
  <1>5. ASSUME NEW p \in Process, Withdraws(p) PROVE CoreStoreInv'
    <2> DEFINE i == op[p].identity
    <2>1. ~At(p, "idle") /\ Writing(p) /\ i \in Identity
      BY <1>5, InProgress DEF Withdraws, At, Writing
    <2>2. record' = [record EXCEPT ![i] = Absent]
          /\ op' = [op EXCEPT ![p] = NoAppend] /\ appended' = appended
      BY <1>5 DEF Withdraws, FileIs, Returns
    <2>3. appended[i] = {} /\ \A q \in Process \ {p} : Writing(q) => op[q].identity # i
      BY <2>1 DEF CoreStoreInv, SoleWriter
    <2>4. \A q \in Process : Writing(q)' => q # p /\ Writing(q) /\ op'[q] = op[q]
      BY <2>2 DEF Types, Writing, At, NoAppend
    <2>5. \A q \in Process : Writing(q) => op[q].identity \in Identity
      BY InProgress DEF Writing, At
    <2>6. \A q \in Process : Writing(q)' => File(q)' = File(q)
      BY <2>2, <2>3, <2>4, <2>5 DEF Types, File
    <2>7. SoleWriter'
      BY <2>2, <2>4, <2>6 DEF CoreStoreInv, SoleWriter, Holding, At
    <2>8. AppendedIsFrozen'
      BY <2>1, <2>2, <2>3 DEF CoreStoreInv, AppendedIsFrozen, Types
    <2> QED
      BY <2>7, <2>8 DEF CoreStoreInv
  <1>6. ASSUME NEW p \in Process, Syncs(p) PROVE CoreStoreInv'
    <2> DEFINE i == op[p].identity
    <2>1. ~At(p, "idle") /\ Writing(p) /\ ~At(p, "write") /\ i \in Identity
      BY <1>6, InProgress DEF Syncs, At, Writing
    <2>2. op' = [op EXCEPT ![p] = NoAppend] /\ record' = record
          /\ \/ appended' = [appended EXCEPT ![i] = @ \cup {op[p].payload}]
             \/ appended' = appended
      BY <1>6 DEF Syncs, Returns
    <2>3. /\ record[i] = [at |-> "whole", payload |-> op[p].payload] /\ appended[i] = {}
          /\ \A q \in Process \ {p} : Writing(q) => op[q].identity # i
      BY <2>1 DEF CoreStoreInv, SoleWriter, File, Holding
    <2>4. \A q \in Process : Writing(q)' => q # p /\ Writing(q) /\ op'[q] = op[q]
      BY <2>2 DEF Types, Writing, At, NoAppend
    <2>5. \A q \in Process : Writing(q) => op[q].identity \in Identity
      BY InProgress DEF Writing, At
    <2>6. \A q \in Process : Writing(q)' => appended'[op'[q].identity] = appended[op[q].identity]
      BY <2>2, <2>3, <2>4, <2>5 DEF Types
    <2>7. SoleWriter'
      BY <2>2, <2>4, <2>6 DEF CoreStoreInv, SoleWriter, File, Holding, At
    <2>8. AppendedIsFrozen'
      BY <2>1, <2>2, <2>3 DEF CoreStoreInv, AppendedIsFrozen, Types
    <2> QED
      BY <2>7, <2>8 DEF CoreStoreInv
  <1>7. ASSUME NEW p \in Process, Reads(p) PROVE CoreStoreInv'
    BY <1>7, QuietStep DEF Reads, Returns, NoAppend, Types
  <1>8. ASSUME NEW p \in Process, Misses(p) PROVE CoreStoreInv'
    <2>1. ~At(p, "idle")
      BY <1>8 DEF Misses, At
    <2> QED
      BY <1>8, <2>1, InProgress, QuietStep DEF Misses, Enters, Returns, NoAppend, Types, Appending
  <1>9. ASSUME NEW p \in Process, AppenderDies(p) PROVE CoreStoreInv'
    BY <1>9, QuietStep DEF AppenderDies, Returns, NoAppend, Types
  <1>10. ASSUME UNCHANGED coreStoreVars PROVE CoreStoreInv'
    BY <1>10 DEF coreStoreVars, CoreStoreInv, SoleWriter, AppendedIsFrozen, Writing, At, File, Holding
  <1>11. CoreStoreInv'
    BY <1>1, <1>2, <1>3, <1>4, <1>5, <1>6, <1>7, <1>8, <1>9, <1>10 DEF CoreStoreNext
  <1> QED
    BY <1>0, <1>11

\* What append() reported as appended is the one payload of its identity and
\* stays on disk, for any number of processes that append, fail or die.
THEOREM AppendedIsFrozenHolds == CoreStoreSpec => []AppendedIsFrozen
  <1>1. CoreStoreInit => FrozenInv
    BY FrozenInit
  <1>2. FrozenInv /\ [CoreStoreNext]_coreStoreVars => FrozenInv'
    BY FrozenStep
  <1>3. FrozenInv => AppendedIsFrozen
    BY DEF FrozenInv, CoreStoreInv
  <1> QED
    BY <1>1, <1>2, <1>3, PTL DEF CoreStoreSpec

-----------------------------------------------------------------------------
(* Revocations and budgets *)

Snapshots ==
  [loaded: BOOLEAN, invalid: BOOLEAN, gen: Nat, revoked: [SigningKey -> Nat],
   stamp: Nat, validAt: Nat, checkedAt: Nat]

Files == [stamp: Nat, valid: BOOLEAN, gen: Nat, since: Nat, revoked: [SigningKey -> Nat]]

Calls == [at: {"consumed"}, env: Envelope, cost: Cost, fits: BOOLEAN, bound: BOOLEAN]

MandateTypes ==
  /\ clock \in Nat /\ file \in Files /\ file.since <= clock
  /\ snapshot \in Snapshots /\ (server = "up" => snapshot.loaded)
  /\ call \in {NoCall} \cup Calls
  /\ spent \in [MandateId -> Nat] /\ accepted \in [MandateId -> Nat]
  /\ losses \in [nonces: Nat, spent: Nat]

MandateInv == MandateTypes /\ SnapshotFollows /\ DebitedFirst /\ SpendWithinCap

LEMMA NeverIsNat == Never \in Nat
  BY MandateAssumption DEF Never

LEMMA UnseenIsSnapshot == Unseen \in Snapshots /\ ~Unseen.loaded
  BY NeverIsNat DEF Unseen, Snapshots

\* Reading the file gives a snapshot that follows it.
LEMMA LoadFollows ==
  ASSUME clock \in Nat, file \in Files, file.since <= clock, NEW c \in Snapshots,
         c.loaded => c.stamp <= file.stamp
                     /\ (c.stamp = file.stamp => file.valid /\ c.revoked = file.revoked)
  PROVE  /\ Load(c) \in Snapshots
         /\ c.loaded => Load(c).loaded
         /\ Load(c).loaded =>
              /\ Load(c).stamp <= file.stamp /\ Load(c).checkedAt <= clock
              /\ Load(c).stamp = file.stamp => file.valid /\ Load(c).revoked = file.revoked
              /\ Load(c).invalid \/ Load(c).stamp = file.stamp
  <1>1. CASE Follows(c)
    <2>1. Load(c) = [loaded |-> TRUE, invalid |-> FALSE, gen |-> file.gen, revoked |-> file.revoked,
                     stamp |-> file.stamp, validAt |-> clock, checkedAt |-> clock]
      BY <1>1 DEF Load
    <2>2. /\ file.valid /\ file.stamp \in Nat /\ file.gen \in Nat
          /\ file.revoked \in [SigningKey -> Nat]
      BY <1>1 DEF Follows, Files
    <2>3. Load(c) \in Snapshots
      BY <2>1, <2>2 DEF Snapshots
    <2> QED
      BY <2>1, <2>2, <2>3
  <1>2. CASE ~Follows(c)
    <2>1. Load(c) = [c EXCEPT !.checkedAt = clock, !.invalid = TRUE]
      BY <1>2 DEF Load
    <2>2. /\ Load(c) \in Snapshots /\ Load(c).loaded = c.loaded /\ Load(c).stamp = c.stamp
          /\ Load(c).revoked = c.revoked /\ Load(c).checkedAt = clock /\ Load(c).invalid
      BY <2>1 DEF Snapshots
    <2> QED
      BY <2>2
  <1> QED
    BY <1>1, <1>2

\* So does _refresh() of one that followed it, and after it the snapshot is
\* invalid, or the file, or younger than the refresh interval.
LEMMA RefreshFollows ==
  ASSUME MandateInv, snapshot.loaded
  PROVE  LET c == _refresh(snapshot) IN
         /\ c \in Snapshots /\ c.loaded
         /\ c.stamp <= file.stamp /\ c.checkedAt <= clock
         /\ c.stamp = file.stamp => file.valid /\ c.revoked = file.revoked
         /\ c.checkedAt > file.since => c.invalid \/ c.stamp = file.stamp
         /\ clock - file.since >= Refresh => c.invalid \/ c.stamp = file.stamp
  <1> DEFINE c == _refresh(snapshot)
  <1>0. /\ clock \in Nat /\ file \in Files /\ snapshot \in Snapshots /\ Refresh \in Nat
        /\ file.since \in Nat /\ file.stamp \in Nat /\ snapshot.stamp \in Nat
        /\ snapshot.checkedAt \in Nat /\ file.since <= clock
    BY MandateAssumption DEF MandateInv, MandateTypes, Files, Snapshots
  <1>1. CASE clock - snapshot.checkedAt < Refresh
    <2>1. c = snapshot
      BY <1>1 DEF _refresh
    <2>2. clock - file.since >= Refresh => snapshot.checkedAt > file.since
      BY <1>0, <1>1
    <2> QED
      BY <1>0, <2>1, <2>2 DEF MandateInv, SnapshotFollows
  <1>2. CASE ~(clock - snapshot.checkedAt < Refresh) /\ file.stamp = snapshot.stamp
    <2>1. c = [snapshot EXCEPT !.checkedAt = clock]
      BY <1>2 DEF _refresh
    <2>2. /\ c \in Snapshots /\ c.loaded = snapshot.loaded /\ c.stamp = snapshot.stamp
          /\ c.revoked = snapshot.revoked /\ c.checkedAt = clock /\ c.invalid = snapshot.invalid
      BY <1>0, <2>1 DEF Snapshots
    <2> QED
      BY <1>0, <1>2, <2>2 DEF MandateInv, SnapshotFollows
  <1>3. CASE ~(clock - snapshot.checkedAt < Refresh) /\ file.stamp # snapshot.stamp
    <2>1. c = Load(snapshot)
      BY <1>3 DEF _refresh
    <2>2. snapshot.stamp <= file.stamp
      BY DEF MandateInv, SnapshotFollows
    <2> QED
      BY <1>0, <1>3, <2>1, <2>2, LoadFollows
  <1> QED
    BY <1>1, <1>2, <1>3

\* One more loss is one more budget.
LEMMA OneMore ==
  ASSUME NEW n \in Nat, NEW c \in Nat
  PROVE  n * c \in Nat /\ (1 + n) * c = n * c + c /\ (n + 1) * c = (1 + n) * c /\ 0 * c = 0
OBVIOUS

LEMMA MandateInitInv == MandateInit => MandateInv
  <1> SUFFICES ASSUME MandateInit PROVE MandateInv
    OBVIOUS
  <1>1. MandateTypes
    BY NeverIsNat, UnseenIsSnapshot DEF MandateInit, Nothing, MandateTypes, Files
  <1>2. SnapshotFollows
    BY UnseenIsSnapshot DEF MandateInit, SnapshotFollows
  <1>3. DebitedFirst /\ SpendWithinCap
    BY MandateAssumption, OneMore DEF MandateInit, Nothing, DebitedFirst, SpendWithinCap
  <1> QED
    BY <1>1, <1>2, <1>3 DEF MandateInv

LEMMA MandateStep == ASSUME MandateInv, [MandateNext]_mandateVars PROVE MandateInv'
  <1> USE DEF MandateInv
  <1>1. CASE Tick
    <2>1. MandateTypes'
      BY <1>1 DEF Tick, MandateTypes, Files
    <2>2. SnapshotFollows'
      BY <1>1 DEF Tick, MandateTypes, Files, Snapshots, SnapshotFollows
    <2>3. (DebitedFirst /\ SpendWithinCap)'
      BY <1>1 DEF Tick, DebitedFirst, SpendWithinCap
    <2> QED
      BY <2>1, <2>2, <2>3
  <1>2. CASE Publish
    <2>1. PICK ok \in BOOLEAN, gen \in {file.gen, file.gen + 1, 0},
               add \in SUBSET SigningKey, drop \in SUBSET SigningKey :
            file' = [stamp |-> file.stamp + 1, valid |-> ok, gen |-> gen, since |-> clock,
                     revoked |-> [k \in SigningKey |-> IF k \in drop THEN Never
                                     ELSE IF k \in add THEN clock ELSE file.revoked[k]]]
      BY <1>2 DEF Publish
    <2>2. file' \in Files /\ file'.since = clock /\ file'.stamp = file.stamp + 1
      BY <2>1, NeverIsNat DEF MandateTypes, Files
    <2>3. MandateTypes'
      BY <1>2, <2>2 DEF Publish, MandateTypes
    <2>4. SnapshotFollows'
      BY <1>2, <2>2 DEF Publish, MandateTypes, Files, Snapshots, SnapshotFollows
    <2>5. (DebitedFirst /\ SpendWithinCap)'
      BY <1>2 DEF Publish, DebitedFirst, SpendWithinCap
    <2> QED
      BY <2>3, <2>4, <2>5
  <1>3. CASE StartServer
    <2>1. /\ Load(Unseen) \in Snapshots
          /\ Load(Unseen).loaded =>
               /\ Load(Unseen).stamp <= file.stamp /\ Load(Unseen).checkedAt <= clock
               /\ Load(Unseen).stamp = file.stamp =>
                    file.valid /\ Load(Unseen).revoked = file.revoked
               /\ Load(Unseen).invalid \/ Load(Unseen).stamp = file.stamp
      BY UnseenIsSnapshot, LoadFollows DEF MandateTypes
    <2>2. \/ Load(Unseen).loaded /\ server' = "up" /\ snapshot' = Load(Unseen)
          \/ server' = "unconfigured" /\ snapshot' = Unseen
      BY <1>3 DEF StartServer
    <2>3. MandateTypes'
      BY <1>3, <2>1, <2>2, UnseenIsSnapshot DEF StartServer, MandateTypes
    <2>4. SnapshotFollows'
      BY <1>3, <2>1, <2>2, UnseenIsSnapshot DEF StartServer, SnapshotFollows
    <2>5. (DebitedFirst /\ SpendWithinCap)'
      BY <1>3 DEF StartServer, DebitedFirst, SpendWithinCap
    <2> QED
      BY <2>3, <2>4, <2>5
  <1>4. CASE StopServer
    <2>1. MandateTypes'
      BY <1>4, UnseenIsSnapshot DEF StopServer, MandateTypes
    <2>2. SnapshotFollows'
      BY <1>4, UnseenIsSnapshot DEF StopServer, SnapshotFollows
    <2>3. (DebitedFirst /\ SpendWithinCap)'
      BY <1>4 DEF StopServer, DebitedFirst, SpendWithinCap
    <2> QED
      BY <2>1, <2>2, <2>3
  <1>5. ASSUME NEW e \in Envelope, Refuse(e) PROVE MandateInv'
    <2>1. snapshot.loaded
      BY <1>5 DEF Refuse, MandateTypes
    <2>2. MandateTypes'
      BY <1>5, <2>1, RefreshFollows DEF Refuse, MandateTypes
    <2>3. SnapshotFollows'
      BY <1>5, <2>1, RefreshFollows DEF Refuse, SnapshotFollows
    <2>4. (DebitedFirst /\ SpendWithinCap)'
      BY <1>5 DEF Refuse, DebitedFirst, SpendWithinCap
    <2> QED
      BY <2>2, <2>3, <2>4
  <1>6. ASSUME NEW e \in Envelope, NEW cost \in Cost, NEW fits \in BOOLEAN, NEW bound \in BOOLEAN,
               Consume(e, cost, fits, bound)
        PROVE  MandateInv'
    <2>1. snapshot.loaded
      BY <1>6 DEF Consume, MandateTypes
    <2>2. call' \in Calls
      BY <1>6 DEF Consume, Calls
    <2>6. losses' = losses \/ losses' = [losses EXCEPT !["nonces"] = @ + 1]
      BY <1>6 DEF Consume, _read_json
    <2>7. losses' \in [nonces: Nat, spent: Nat] /\ losses'.spent = losses.spent
      BY <2>6 DEF MandateTypes
    <2>3. MandateTypes'
      BY <1>6, <2>1, <2>2, <2>7, RefreshFollows DEF Consume, MandateTypes
    <2>4. SnapshotFollows'
      BY <1>6, <2>1, RefreshFollows DEF Consume, SnapshotFollows
    <2>5. (DebitedFirst /\ SpendWithinCap)'
      BY <1>6, <2>7 DEF Consume, DebitedFirst, SpendWithinCap
    <2> QED
      BY <2>3, <2>4, <2>5
  <1>7. CASE RefuseLate
    <2>1. MandateTypes' /\ SnapshotFollows'
      BY <1>7 DEF RefuseLate, MandateTypes, SnapshotFollows
    <2>2. (DebitedFirst /\ SpendWithinCap)'
      BY <1>7 DEF RefuseLate, DebitedFirst, SpendWithinCap
    <2> QED
      BY <2>1, <2>2
  <1>8. CASE Debit
    <2> DEFINE m == call.env.id
    <2>1. call \in Calls
      BY <1>8 DEF Debit, MandateTypes, NoCall
    <2>2. m \in MandateId /\ call.cost \in Nat
      BY <2>1, MandateAssumption DEF Calls
    <2>3. PICK sum \in {spent, Nothing} :
            /\ _read_json("spent", spent, Nothing, sum)
            /\ spent' = [sum EXCEPT ![m] = @ + call.cost]
            /\ accepted' = IF within_budget(sum, m, call.cost) /\ call.bound
                             THEN [accepted EXCEPT ![m] = @ + call.cost] ELSE accepted
      BY <1>8 DEF Debit
    <2>4. call' = NoCall /\ UNCHANGED <<clock, file, server, snapshot>>
      BY <1>8 DEF Debit
    <2>5. /\ sum \in [MandateId -> Nat] /\ losses' \in [nonces: Nat, spent: Nat]
          /\ \/ sum = spent /\ losses'.spent = losses.spent
             \/ sum = Nothing /\ losses'.spent = losses.spent + 1
      BY <2>3 DEF _read_json, Nothing, MandateTypes
    <2>6. MandateTypes'
      BY <2>2, <2>3, <2>4, <2>5 DEF MandateTypes
    <2>7. SnapshotFollows'
      BY <2>4 DEF SnapshotFollows
    <2>8. ASSUME NEW x \in MandateId PROVE accepted[x] <= losses'.spent * Cap[x] + sum[x]
      <3>1. losses.spent \in Nat /\ Cap[x] \in Nat /\ accepted[x] \in Nat
        BY MandateAssumption DEF MandateTypes
      <3>2. CASE sum = spent /\ losses'.spent = losses.spent
        BY <3>2 DEF DebitedFirst
      <3>3. CASE sum = Nothing /\ losses'.spent = losses.spent + 1
        <4>1. accepted[x] <= (1 + losses.spent) * Cap[x] /\ sum[x] = 0
          BY <3>3 DEF SpendWithinCap, Nothing
        <4>2. losses'.spent * Cap[x] = (1 + losses.spent) * Cap[x] /\ (1 + losses.spent) * Cap[x] \in Nat
          BY <3>1, <3>3, OneMore
        <4> QED
          BY <3>1, <4>1, <4>2
      <3> QED
        BY <2>5, <3>2, <3>3
    <2>9. ASSUME NEW x \in MandateId
          PROVE  /\ accepted'[x] <= losses'.spent * Cap[x] + spent'[x]
                 /\ accepted'[x] <= (1 + losses'.spent) * Cap[x]
      <3> DEFINE n == losses'.spent * Cap[x]
      <3>1. /\ n \in Nat /\ (1 + losses'.spent) * Cap[x] = n + Cap[x]
            /\ Cap[x] \in Nat /\ accepted[x] \in Nat /\ sum[x] \in Nat
        <4>1. losses'.spent \in Nat /\ Cap[x] \in Nat
          BY <2>5, MandateAssumption
        <4> QED
          BY <2>5, <4>1, OneMore DEF MandateTypes
      <3>2. accepted[x] <= n + sum[x]
        BY <2>8
      <3>3. accepted[x] <= n + Cap[x]
        <4>1. losses.spent \in Nat /\ accepted[x] <= (1 + losses.spent) * Cap[x]
          BY DEF SpendWithinCap, MandateTypes
        <4>2. CASE losses'.spent = losses.spent
          BY <3>1, <4>1, <4>2
        <4>3. CASE losses'.spent = losses.spent + 1
          <5>1. (1 + losses.spent) * Cap[x] = n
            BY <3>1, <4>1, <4>3, OneMore
          <5> QED
            BY <3>1, <4>1, <5>1
        <4> QED
          BY <2>5, <4>2, <4>3
      <3>4. spent'[x] = IF x = m THEN sum[x] + call.cost ELSE sum[x]
        BY <2>2, <2>3, <2>5
      <3>5. CASE accepted' = accepted
        <4>1. sum[x] <= spent'[x] /\ spent'[x] \in Nat
          BY <2>2, <3>1, <3>4
        <4> HIDE DEF n
        <4> QED
          BY <3>1, <3>2, <3>3, <3>5, <4>1 DEF n
      <3>6. CASE /\ within_budget(sum, m, call.cost)
                 /\ accepted' = [accepted EXCEPT ![m] = @ + call.cost]
        <4>1. accepted'[x] = IF x = m THEN accepted[x] + call.cost ELSE accepted[x]
          BY <2>2, <3>6 DEF MandateTypes
        <4>2. x = m => sum[x] + call.cost <= Cap[x]
          BY <3>6 DEF within_budget
        <4> HIDE DEF n
        <4>3. accepted'[x] <= n + spent'[x] /\ accepted'[x] <= n + Cap[x]
          BY <2>2, <3>1, <3>2, <3>3, <3>4, <4>1, <4>2
        <4> QED
          BY <3>1, <4>3 DEF n
      <3> QED
        BY <2>3, <3>5, <3>6
    <2> QED
      BY <2>6, <2>7, <2>9 DEF DebitedFirst, SpendWithinCap
  <1>10. CASE WriteFails
    <2>1. /\ clock' = clock /\ file' = file /\ server' = server /\ losses' = losses
          /\ spent' = spent /\ accepted' = accepted /\ call' = NoCall
          /\ snapshot.loaded /\ snapshot' \in {snapshot, _refresh(snapshot)}
      BY <1>10 DEF WriteFails, MandateTypes
    <2>2. MandateTypes' /\ SnapshotFollows'
      BY <2>1, RefreshFollows DEF MandateTypes, SnapshotFollows
    <2>3. (DebitedFirst /\ SpendWithinCap)'
      BY <2>1 DEF DebitedFirst, SpendWithinCap
    <2> QED
      BY <2>2, <2>3
  <1>9. CASE UNCHANGED mandateVars
    BY <1>9 DEF mandateVars, MandateTypes, SnapshotFollows, DebitedFirst, SpendWithinCap
  <1> QED
    BY <1>1, <1>2, <1>3, <1>4, <1>5, <1>6, <1>7, <1>8, <1>9, <1>10 DEF MandateNext

\* A call whose nonce is consumed was not one that a published revocation, or a
\* file that cannot be trusted, had reached.
LEMMA RevocationStep ==
  ASSUME MandateInv, MandateNext, call = NoCall, call'.at = "consumed"
  PROVE  ~Reached(call'.env.key)
  <1>1. PICK e \in Envelope, cost \in Cost, fits, bound \in BOOLEAN : Consume(e, cost, fits, bound)
    BY DEF MandateNext, Tick, Publish, StartServer, StopServer, Refuse, RefuseLate, WriteFails, Debit,
           NoCall
  <1> DEFINE c == _refresh(snapshot)
             k == e.key
  <1>2. snapshot.loaded /\ call'.env.key = k
    BY <1>1 DEF Consume, MandateInv, MandateTypes
  <1>3. ~c.invalid /\ ~(c.revoked[k] <= clock)
    BY <1>1 DEF Consume, is_revoked
  <1>4. /\ clock - file.since >= Refresh => c.stamp = file.stamp
        /\ c.stamp = file.stamp => file.valid /\ c.revoked = file.revoked
    BY <1>2, <1>3, RefreshFollows
  <1>5. ASSUME Reached(k) PROVE FALSE
    BY <1>3, <1>4, <1>5 DEF Reached
  <1> QED
    BY <1>2, <1>5

\* The calls accepted under a mandate never cost more than its budget once and
\* once more for every time the register of the spend could not be read, for any
\* envelopes and costs, with the server dying between any two steps.
THEOREM SpendWithinCapHolds == MandateSpec => []SpendWithinCap
  <1>1. MandateInit => MandateInv
    BY MandateInitInv
  <1>2. MandateInv /\ [MandateNext]_mandateVars => MandateInv'
    BY MandateStep
  <1>3. MandateInv => SpendWithinCap
    BY DEF MandateInv
  <1> QED
    BY <1>1, <1>2, <1>3, PTL DEF MandateSpec

\* A revocation, or a file that cannot be trusted, stops every new call of its
\* key once it has been published for the refresh interval.
THEOREM RevocationReachesHolds == MandateSpec => RevocationReaches
  <1>1. MandateInit => MandateInv
    BY MandateInitInv
  <1>2. MandateInv /\ [MandateNext]_mandateVars => MandateInv'
    BY MandateStep
  <1>3. MandateInv /\ [MandateNext]_mandateVars =>
          [call = NoCall /\ call'.at = "consumed" => ~Reached(call'.env.key)]_mandateVars
    BY RevocationStep
  <1> QED
    BY <1>1, <1>2, <1>3, PTL DEF MandateSpec, RevocationReaches

-----------------------------------------------------------------------------
(* The execution graph: what can be reached *)

\* One pair is a way.
LEMMA ReachesByPair ==
  ASSUME NEW pairs, NEW p \in pairs PROVE Reaches(pairs, p[1], p[2])
BY DEF Reaches

\* What holds y holds whatever y reaches.
LEMMA ReachesOn ==
  ASSUME NEW pairs, NEW x, NEW y, NEW z, Reaches(pairs, x, y), Reaches(pairs, y, z)
  PROVE  Reaches(pairs, x, z)
<1>. SUFFICES ASSUME NEW ws \in SUBSET Work, \A p \in pairs : p[1] \in ws \cup {x} => p[2] \in ws
              PROVE z \in ws
  BY DEF Reaches
<1>1. y \in ws
  BY DEF Reaches
<1>2. \A p \in pairs : p[1] \in ws \cup {y} => p[2] \in ws
  BY <1>1
<1>. QED  BY <1>2 DEF Reaches

\* A walk can be taken one step further, or cut where it comes round.
LEMMA WalkOn ==
  ASSUME NEW parents, NEW len \in 1..Cardinality(Work), NEW path \in Walks(parents, len),
         parents[path[len]] \in Work
  PROVE  \E n \in 1..Cardinality(Work) : \E q \in Walks(parents, n) :
           q[1] = path[1] /\ q[n] = parents[path[len]]
<1>. DEFINE v == parents[path[len]]
<1>1. /\ len \in Nat /\ 1 <= len /\ path \in [1..len -> Work]
      /\ \A i \in 1..len - 1 : path[i + 1] = parents[path[i]]
      /\ \A i, j \in 1..len : path[i] = path[j] => i = j
  BY DEF Walks
<1>2. CASE \E i \in 1..len : path[i] = v
  <2>1. PICK i \in 1..len : path[i] = v
    BY <1>2
  <2>. DEFINE q == [j \in 1..i |-> path[j]]
  <2>2. i \in 1..Cardinality(Work)
    BY <1>1, <2>1, FS_CardinalityType, AtlasAssumption DEF AtlasAssumption
  <2>3. q \in Walks(parents, i) /\ q[1] = path[1] /\ q[i] = v
    BY <1>1, <2>1 DEF Walks
  <2>. QED  BY <2>2, <2>3
<1>3. CASE \A i \in 1..len : path[i] # v
  <2>. DEFINE q == [j \in 1..len + 1 |-> IF j = len + 1 THEN v ELSE path[j]]
  <2>1. q \in [1..len + 1 -> Work] /\ q[1] = path[1] /\ q[len + 1] = v
    BY <1>1
  <2>2. \A i, j \in 1..len + 1 : q[i] = q[j] => i = j
    BY <1>1, <1>3
  <2>3. \A i \in 1..len + 1 - 1 : q[i + 1] = parents[q[i]]
    BY <1>1
  <2>4. q \in Walks(parents, len + 1)
    BY <2>1, <2>2, <2>3 DEF Walks
  <2>5. q \in Injection(1..len + 1, Work)
    BY <2>1, <2>2, Zenon DEF Injection, IsInjective
  <2>6. Cardinality(1..len + 1) = len + 1
    BY <1>1, FS_Interval
  <2>7. len + 1 <= Cardinality(Work)
    <3>. HIDE DEF q
    <3>1. Cardinality(1..len + 1) <= Cardinality(Work)
      BY <2>5, FS_Injection, AtlasAssumption DEF AtlasAssumption
    <3>. QED  BY <2>6, <3>1
  <2>8. len + 1 \in 1..Cardinality(Work)
    BY <1>1, <2>7, FS_CardinalityType, AtlasAssumption DEF AtlasAssumption
  <2>. HIDE DEF q
  <2>. QED  BY <2>1, <2>4, <2>8
<1>. QED  BY <1>2, <1>3

\* Without the parents of those members nobody is above itself.
LEMMA ResolvedIsForest ==
  ASSUME NEW parents \in [Work -> Work \cup Maps \cup {NoIssue}], NEW cut,
         cut = [w \in Work |-> IF w \in find_containment_cycle_members(parents)
                                 THEN NoIssue ELSE parents[w]]
  PROVE  OnCycle({p \in Work \X Work : cut[p[1]] = p[2]}) = {}
<1>. DEFINE pairs == {p \in Work \X Work : cut[p[1]] = p[2]}
<1>. SUFFICES ASSUME NEW w \in Work, Reaches(pairs, w, w) PROVE FALSE
  BY DEF OnCycle
<1>0. NoIssue \notin Work /\ Cardinality(Work) \in Nat /\ 1 <= Cardinality(Work)
  <2>1. Cardinality(Work) \in Nat
    BY FS_CardinalityType, AtlasAssumption DEF AtlasAssumption
  <2>2. Cardinality(Work) # 0
    BY FS_EmptySet, AtlasAssumption DEF AtlasAssumption
  <2>. QED  BY <2>1, <2>2, AtlasAssumption DEF AtlasAssumption
<1>. DEFINE Above(y) == \E len \in 1..Cardinality(Work) : \E path \in Walks(parents, len) :
                          path[1] = parents[w] /\ path[len] = y
            ring == {y \in Work : Above(y)}
<1>1. ASSUME NEW p \in pairs, p[1] \in ring \cup {w} PROVE p[2] \in ring
  <2>1. p[1] \in Work /\ p[2] \in Work /\ p[2] = parents[p[1]]
    BY <1>0, <1>1
  <2>2. CASE p[1] = w
    <3>. DEFINE path == [i \in 1..1 |-> parents[w]]
    <3>1. path \in Walks(parents, 1) /\ path[1] = parents[w]
      BY <2>1, <2>2 DEF Walks
    <3>2. 1 \in 1..Cardinality(Work)
      BY <1>0
    <3>. HIDE DEF path
    <3>3. Above(p[2])
      BY <2>1, <2>2, <3>1, <3>2
    <3>. QED  BY <2>1, <3>3
  <2>3. CASE p[1] \in ring
    <3>0. PICK len \in 1..Cardinality(Work) : \E path \in Walks(parents, len) :
            path[1] = parents[w] /\ path[len] = p[1]
      BY <2>3
    <3>1. PICK path \in Walks(parents, len) : path[1] = parents[w] /\ path[len] = p[1]
      BY <3>0
    <3>2. Above(p[2])
      BY <2>1, <3>1, WalkOn
    <3>. QED  BY <2>1, <3>2
  <2>. QED  BY <1>1, <2>2, <2>3
<1>2. w \in ring
  <2>1. ring \in SUBSET Work
    OBVIOUS
  <2>. HIDE DEF ring
  <2>. QED  BY <1>1, <2>1 DEF Reaches
<1>3. w \in find_containment_cycle_members(parents)
  <2>0. PICK len \in 1..Cardinality(Work) : \E path \in Walks(parents, len) :
          path[1] = parents[w] /\ path[len] = w
    BY <1>2
  <2>1. PICK path \in Walks(parents, len) : path[1] = parents[w] /\ path[len] = w
    BY <2>0
  <2>2. 1 \in 1..len /\ len \in 1..len /\ parents[path[len]] = path[1]
    BY <1>0, <2>1
  <2>. QED  BY <2>1, <2>2 DEF find_containment_cycle_members
<1>4. \A p \in pairs : p[1] \in {} \cup {w} => p[2] \in {}
  BY <1>0, <1>3
<1>. HIDE DEF pairs
<1>. QED  BY <1>4 DEF Reaches

-----------------------------------------------------------------------------
(* The execution graph: the search *)

\* What the search keeps true between two of its steps: the gray nodes are the
\* stack, each reaches those above it, and whoever is reported is on a cycle.
StackIsPath ==
  /\ \A w \in Work : color[w] = "gray" <=> \E i \in 1..Len(stack) : stack[i] = w
  /\ \A i, j \in 1..Len(stack) : stack[i] = stack[j] => i = j
  /\ \A i, j \in 1..Len(stack) : i < j => Reaches(Edges(Work), stack[i], stack[j])
  /\ cyclic \subseteq OnCycle(Edges(Work))

\* A blocker that was looked at is finished or next on the stack, unless the
\* node that names it was reported.
LookedAt ==
  /\ \A w \in Work : todo[w] \subseteq edges[w] /\ (color[w] = "white" => todo[w] = edges[w])
  /\ \A i \in 1..Len(stack) : \A v \in edges[stack[i]] \ todo[stack[i]] :
       color[v] = "black" \/ stack[i] \in cyclic \/ (i < Len(stack) /\ v = stack[i + 1])
  /\ \A w \in Work \ cyclic : color[w] = "black" => \A v \in edges[w] : color[v] = "black"

\* Whatever is finished and not reported can be taken apart from its sources.
Source(ws) == \E s \in ws : \A w \in ws : s \notin edges[w]

FinishedIsAcyclic ==
  \A ws \in SUBSET {w \in Work \ cyclic : color[w] = "black"} : ws # {} => Source(ws)

SearchTypes ==
  /\ edges \in [Work -> SUBSET Work] /\ todo \in [Work -> SUBSET Work]
  /\ color \in [Work -> {"white", "gray", "black"}]
  /\ stack \in Seq(Work) /\ cyclic \in SUBSET Work

SearchInv == SearchTypes /\ StackIsPath /\ LookedAt /\ FinishedIsAcyclic

AtlasInv ==
  /\ ContainmentIsForest
  /\ color = <<>> => stack = <<>> /\ cyclic = {}
  /\ color # <<>> => SearchInv

\* A search that starts pushes a node, and a node a blocker that is new.
LEMMA PushInv ==
  ASSUME SearchInv, NEW n \in Work, color[n] = "white", Push(n), edges' = edges, cyclic' = cyclic,
         todo' \in [Work -> SUBSET Work],
         \A w \in Work : stack = <<>> \/ w # Top => todo'[w] = todo[w],
         stack # <<>> => todo'[Top] = todo[Top] \ {n} /\ n \in edges[Top]
  PROVE  SearchInv'
<1>1. /\ Len(stack) \in Nat /\ Len(stack') = Len(stack) + 1 /\ stack' \in Seq(Work)
      /\ stack'[Len(stack) + 1] = n
      /\ \A i \in 1..Len(stack) : stack'[i] = stack[i] /\ stack[i] \in Work /\ stack[i] # n
  BY DEF SearchInv, SearchTypes, StackIsPath, Push
<1>2. /\ color' = [color EXCEPT ![n] = "gray"] /\ SearchTypes'
      /\ \A w \in Work : color'[w] = IF w = n THEN "gray" ELSE color[w]
  BY <1>1 DEF SearchInv, SearchTypes, Push
<1>3. Edges(Work)' = Edges(Work)
  BY DEF Edges
<1>4. StackIsPath'
  <2>1. (\A w \in Work : color[w] = "gray" <=> \E i \in 1..Len(stack) : stack[i] = w)'
    BY <1>1, <1>2 DEF SearchInv, StackIsPath
  <2>2. (\A i, j \in 1..Len(stack) : stack[i] = stack[j] => i = j)'
    BY <1>1 DEF SearchInv, StackIsPath
  <2>3. ASSUME NEW i \in 1..Len(stack'), NEW j \in 1..Len(stack'), i < j
        PROVE  Reaches(Edges(Work), stack'[i], stack'[j])
    <3>1. CASE j <= Len(stack)
      BY <1>1, <2>3, <3>1 DEF SearchInv, StackIsPath
    <3>2. CASE j = Len(stack) + 1
      <4>1. stack # <<>> /\ Len(stack) \in 1..Len(stack) /\ i \in 1..Len(stack)
        BY <1>1, <2>3, <3>2
      <4>2. <<Top, n>> \in Edges(Work)
        BY <1>1, <4>1 DEF Edges, Top
      <4>3. Reaches(Edges(Work), Top, n)
        BY <4>2, ReachesByPair
      <4>4. i = Len(stack) \/ Reaches(Edges(Work), stack[i], Top)
        BY <1>1, <4>1 DEF SearchInv, StackIsPath, Top
      <4>5. Reaches(Edges(Work), stack[i], n)
        BY <4>3, <4>4, ReachesOn DEF Top
      <4>. QED  BY <1>1, <3>2, <4>1, <4>5
    <3>. QED  BY <1>1, <3>1, <3>2
  <2>4. (cyclic \subseteq OnCycle(Edges(Work)))'
    BY <1>3 DEF SearchInv, StackIsPath, OnCycle, Reaches
  <2>. QED  BY <1>3, <2>1, <2>2, <2>3, <2>4 DEF StackIsPath, Reaches
<1>5. LookedAt'
  <2>1. ASSUME NEW w \in Work
        PROVE  todo'[w] \subseteq edges[w] /\ (color'[w] = "white" => todo'[w] = edges[w])
    <3>1. CASE stack = <<>> \/ w # Top
      BY <1>2, <3>1 DEF SearchInv, LookedAt
    <3>2. CASE stack # <<>> /\ w = Top
      <4>1. color[w] = "gray"
        BY <1>1, <3>2 DEF SearchInv, SearchTypes, StackIsPath, Top
      <4>. QED  BY <1>2, <3>2, <4>1 DEF SearchInv, LookedAt
    <3>. QED  BY <3>1, <3>2
  <2>2. ASSUME NEW i \in 1..Len(stack'), NEW v \in edges[stack'[i]] \ todo'[stack'[i]]
        PROVE  \/ color'[v] = "black" \/ stack'[i] \in cyclic
               \/ i < Len(stack') /\ v = stack'[i + 1]
    <3>1. CASE i = Len(stack) + 1
      <4>1. stack = <<>> \/ n # Top
        BY <1>1 DEF SearchInv, SearchTypes, Top
      <4>2. todo'[n] = edges[n]
        BY <4>1 DEF SearchInv, LookedAt
      <4>. QED  BY <1>1, <2>2, <3>1, <4>2
    <3>2. CASE i < Len(stack)
      <4>1. stack # <<>> /\ stack[i] # Top /\ i \in 1..Len(stack) /\ stack[i] \in Work
        BY <1>1, <3>2 DEF SearchInv, StackIsPath, Top
      <4>2. v \in edges[stack[i]] \ todo[stack[i]] /\ v \in Work
        BY <1>1, <4>1 DEF SearchInv, SearchTypes
      <4>3. color[v] = "black" \/ stack[i] \in cyclic \/ v = stack[i + 1]
        BY <4>1, <4>2 DEF SearchInv, LookedAt
      <4>4. i + 1 \in 1..Len(stack) /\ i < Len(stack')
        BY <1>1, <3>2, <4>1
      <4>. QED  BY <1>1, <1>2, <4>1, <4>2, <4>3, <4>4
    <3>3. CASE i = Len(stack)
      <4>1. stack # <<>> /\ stack'[i] = Top /\ Top \in Work /\ i \in 1..Len(stack)
        BY <1>1, <3>3 DEF Top
      <4>2. v \in Work /\ (v = n \/ v \in edges[Top] \ todo[Top])
        BY <4>1 DEF SearchInv, SearchTypes
      <4>3. CASE v = n
        BY <1>1, <3>3, <4>3
      <4>4. CASE v \in edges[Top] \ todo[Top]
        <5>1. color[v] = "black" \/ Top \in cyclic
          BY <1>1, <3>3, <4>1, <4>4 DEF SearchInv, LookedAt, Top
        <5>. QED  BY <1>2, <4>1, <4>2, <5>1
      <4>. QED  BY <4>2, <4>3, <4>4
    <3>. QED  BY <1>1, <3>1, <3>2, <3>3
  <2>3. ASSUME NEW w \in Work \ cyclic, color'[w] = "black", NEW v \in edges[w]
        PROVE  color'[v] = "black"
    <3>1. v \in Work /\ color[w] = "black"
      BY <1>2, <2>3 DEF SearchInv, SearchTypes
    <3>2. color[v] = "black"
      BY <2>3, <3>1 DEF SearchInv, LookedAt
    <3>. QED  BY <1>2, <3>1, <3>2
  <2>. QED  BY <2>1, <2>2, <2>3 DEF LookedAt
<1>6. FinishedIsAcyclic'
  <2>1. {w \in Work \ cyclic : color'[w] = "black"} \subseteq {w \in Work \ cyclic : color[w] = "black"}
    BY <1>2
  <2>. QED  BY <2>1 DEF SearchInv, FinishedIsAcyclic, Source
<1>. QED  BY <1>2, <1>4, <1>5, <1>6 DEF SearchInv

\* A search starts with nothing on the stack.
LEMMA StartSearchInv ==
  ASSUME SearchInv, NEW n \in Work, StartSearch(n)
  PROVE  SearchInv'
<1>1. /\ color[n] = "white" /\ Push(n) /\ stack = <<>>
      /\ edges' = edges /\ cyclic' = cyclic /\ todo' = todo
  BY DEF StartSearch
<1>. QED  BY <1>1, PushInv DEF SearchInv, SearchTypes

\* A blocker on the stack closes a cycle, which is reported.
LEMMA LookAtInv ==
  ASSUME SearchInv, NEW v \in Work, LookAt(v)
  PROVE  SearchInv'
<1>1. /\ stack # <<>> /\ v \in todo[Top] /\ todo' = [todo EXCEPT ![Top] = @ \ {v}] /\ edges' = edges
      /\ Len(stack) \in 1..Len(stack) /\ Top \in Work /\ Top = stack[Len(stack)]
      /\ v \in edges[Top] /\ color[v] \in {"white", "gray", "black"}
      /\ \A i \in 1..Len(stack) : stack[i] \in Work
  BY DEF LookAt, SearchInv, SearchTypes, LookedAt, Top
<1>2. /\ todo' \in [Work -> SUBSET Work] /\ todo'[Top] = todo[Top] \ {v}
      /\ \A w \in Work : w # Top => todo'[w] = todo[w]
  BY <1>1 DEF SearchInv, SearchTypes
<1>3. CASE color[v] = "white"
  <2>1. Push(v) /\ cyclic' = cyclic
    BY <1>3 DEF LookAt
  <2>. QED  BY <1>1, <1>2, <1>3, <2>1, PushInv
<1>4. CASE color[v] # "white"
  <2>1. /\ color' = color /\ stack' = stack
        /\ cyclic' = IF color[v] = "gray"
                       THEN cyclic \cup {stack[k] : k \in {j \in DOMAIN stack : \E i \in 1..j : stack[i] = v}}
                       ELSE cyclic
    BY <1>4 DEF LookAt
  <2>2. DOMAIN stack = 1..Len(stack)
    BY DEF SearchInv, SearchTypes
  <2>3. ASSUME NEW w \in cyclic' \ cyclic
        PROVE  color[v] = "gray" /\ \E i \in 1..Len(stack), k \in 1..Len(stack) :
                  i <= k /\ stack[i] = v /\ stack[k] = w
    BY <2>1, <2>2, <2>3
  <2>4. SearchTypes' /\ cyclic \subseteq cyclic'
    BY <1>1, <1>2, <2>1, <2>2 DEF SearchInv, SearchTypes
  <2>5. Edges(Work)' = Edges(Work)
    BY <1>1 DEF Edges
  <2>6. cyclic' \subseteq OnCycle(Edges(Work))
    <3>. SUFFICES ASSUME NEW w \in cyclic' \ cyclic PROVE w \in OnCycle(Edges(Work))
      BY DEF SearchInv, StackIsPath
    <3>1. PICK i \in 1..Len(stack), k \in 1..Len(stack) : i <= k /\ stack[i] = v /\ stack[k] = w
      BY <2>3
    <3>2. k = Len(stack) \/ Reaches(Edges(Work), w, Top)
      BY <1>1, <3>1 DEF SearchInv, StackIsPath
    <3>3. <<Top, v>> \in Edges(Work)
      BY <1>1 DEF Edges
    <3>4. Reaches(Edges(Work), Top, v)
      BY <3>3, ReachesByPair
    <3>5. Reaches(Edges(Work), w, v)
      BY <1>1, <3>1, <3>2, <3>4, ReachesOn
    <3>6. i = k \/ Reaches(Edges(Work), v, w)
      BY <3>1 DEF SearchInv, StackIsPath
    <3>7. Reaches(Edges(Work), w, w)
      BY <3>1, <3>5, <3>6, ReachesOn
    <3>. QED  BY <1>1, <3>1, <3>7 DEF OnCycle
  <2>7. StackIsPath'
    BY <2>1, <2>5, <2>6 DEF SearchInv, StackIsPath, OnCycle, Reaches
  <2>8. LookedAt'
    <3>1. \A w \in Work : todo'[w] \subseteq edges[w] /\ (color[w] = "white" => todo'[w] = edges[w])
      <4>1. color[Top] = "gray"
        BY <1>1 DEF SearchInv, StackIsPath
      <4>. QED  BY <1>1, <1>2, <4>1 DEF SearchInv, LookedAt
    <3>2. ASSUME NEW i \in 1..Len(stack), NEW u \in edges[stack[i]] \ todo'[stack[i]]
          PROVE  color[u] = "black" \/ stack[i] \in cyclic' \/ (i < Len(stack) /\ u = stack[i + 1])
      <4>1. CASE u \notin todo[stack[i]]
        BY <2>4, <3>2, <4>1 DEF SearchInv, LookedAt
      <4>2. CASE u \in todo[stack[i]]
        <5>1. stack[i] = Top /\ u = v
          BY <1>1, <1>2, <3>2, <4>2
        <5>2. CASE color[v] = "gray"
          <6>1. \E j \in 1..Len(stack) : stack[j] = v
            BY <5>2 DEF SearchInv, StackIsPath
          <6>2. Top \in cyclic'
            BY <1>1, <2>1, <2>2, <5>2, <6>1
          <6>. QED  BY <5>1, <6>2
        <5>. QED  BY <1>1, <1>4, <5>1, <5>2
      <4>. QED  BY <4>1, <4>2
    <3>3. \A w \in Work \ cyclic' : color[w] = "black" => \A u \in edges[w] : color[u] = "black"
      BY <2>4 DEF SearchInv, LookedAt
    <3>. QED  BY <1>1, <2>1, <3>1, <3>2, <3>3 DEF LookedAt
  <2>9. FinishedIsAcyclic'
    <3>1. {w \in Work \ cyclic' : color[w] = "black"} \subseteq {w \in Work \ cyclic : color[w] = "black"}
      BY <2>4
    <3>. QED  BY <1>1, <2>1, <3>1 DEF SearchInv, FinishedIsAcyclic, Source
  <2>. QED  BY <2>4, <2>7, <2>8, <2>9 DEF SearchInv
<1>. QED  BY <1>3, <1>4

\* What is left of a sequence without its last element.
LEMMA FrontOf ==
  ASSUME NEW S, NEW s \in Seq(S), s # <<>>
  PROVE  /\ SubSeq(s, 1, Len(s) - 1) \in Seq(S) /\ Len(SubSeq(s, 1, Len(s) - 1)) = Len(s) - 1
         /\ \A i \in 1..Len(s) - 1 : SubSeq(s, 1, Len(s) - 1)[i] = s[i]
<1>. DEFINE n == Len(s) - 1
<1>1. n \in Nat /\ \A i \in 1..n : s[i] \in S
  OBVIOUS
<1>. HIDE DEF n
<1>2. SubSeq(s, 1, n) = [i \in 1..n |-> s[i]]
  BY <1>1
<1>3. [i \in 1..n |-> s[i]] \in Seq(S) /\ Len([i \in 1..n |-> s[i]]) = n
  BY <1>1
<1>4. \A i \in 1..n : SubSeq(s, 1, n)[i] = s[i]
  BY <1>2
<1>. QED  BY <1>2, <1>3, <1>4 DEF n

\* Nothing that is finished and not reported points at the node that finishes.
LEMMA RetreatInv ==
  ASSUME SearchInv, Retreat
  PROVE  SearchInv'
<1>1. /\ stack # <<>> /\ todo[Top] = {} /\ color' = [color EXCEPT ![Top] = "black"]
      /\ stack' = SubSeq(stack, 1, Len(stack) - 1)
      /\ edges' = edges /\ todo' = todo /\ cyclic' = cyclic
      /\ Len(stack) \in 1..Len(stack) /\ Top = stack[Len(stack)] /\ Top \in Work
      /\ \A i \in 1..Len(stack) : stack[i] \in Work
  BY DEF Retreat, SearchInv, SearchTypes, Top
<1>2. /\ Len(stack') = Len(stack) - 1 /\ stack' \in Seq(Work)
      /\ \A i \in 1..Len(stack) - 1 : stack'[i] = stack[i] /\ stack[i] # Top
  <2>1. stack \in Seq(Work) /\ Len(stack) \in Nat
    BY DEF SearchInv, SearchTypes
  <2>2. /\ stack' \in Seq(Work) /\ Len(stack') = Len(stack) - 1
        /\ \A i \in 1..Len(stack) - 1 : stack'[i] = stack[i]
    BY <1>1, <2>1, FrontOf
  <2>. QED  BY <1>1, <2>1, <2>2 DEF SearchInv, StackIsPath
<1>3. /\ SearchTypes' /\ color[Top] = "gray"
      /\ \A w \in Work : color'[w] = IF w = Top THEN "black" ELSE color[w]
  BY <1>1, <1>2 DEF SearchInv, SearchTypes, StackIsPath
<1>4. Edges(Work)' = Edges(Work)
  BY <1>1 DEF Edges
<1>5. StackIsPath'
  <2>1. (\A w \in Work : color[w] = "gray" <=> \E i \in 1..Len(stack) : stack[i] = w)'
    <3>1. ASSUME NEW w \in Work PROVE color'[w] = "gray" <=> \E i \in 1..Len(stack) - 1 : stack'[i] = w
      <4>1. CASE w = Top
        BY <1>2, <1>3, <4>1
      <4>2. CASE w # Top
        BY <1>1, <1>2, <1>3, <4>2 DEF SearchInv, StackIsPath
      <4>. QED  BY <4>1, <4>2
    <3>. QED  BY <1>2, <3>1
  <2>2. (\A i, j \in 1..Len(stack) : stack[i] = stack[j] => i = j)'
    BY <1>1, <1>2 DEF SearchInv, StackIsPath
  <2>3. \A i, j \in 1..Len(stack') : i < j => Reaches(Edges(Work), stack'[i], stack'[j])
    BY <1>1, <1>2 DEF SearchInv, StackIsPath
  <2>4. cyclic' \subseteq OnCycle(Edges(Work))
    BY <1>1 DEF SearchInv, StackIsPath
  <2>. QED  BY <1>4, <2>1, <2>2, <2>3, <2>4 DEF StackIsPath, OnCycle, Reaches
<1>6. Top \in cyclic \/ \A v \in edges[Top] : color[v] = "black"
  BY <1>1 DEF SearchInv, LookedAt
<1>7. LookedAt'
  <2>1. \A w \in Work : todo[w] \subseteq edges[w] /\ (color'[w] = "white" => todo[w] = edges[w])
    BY <1>3 DEF SearchInv, LookedAt
  <2>2. ASSUME NEW i \in 1..Len(stack'), NEW v \in edges[stack'[i]] \ todo[stack'[i]]
        PROVE  \/ color'[v] = "black" \/ stack'[i] \in cyclic
               \/ i < Len(stack') /\ v = stack'[i + 1]
    <3>1. i \in 1..Len(stack) /\ i < Len(stack) /\ stack'[i] = stack[i] /\ v \in Work
      BY <1>1, <1>2 DEF SearchInv, SearchTypes
    <3>2. color[v] = "black" \/ stack[i] \in cyclic \/ v = stack[i + 1]
      BY <2>2, <3>1 DEF SearchInv, LookedAt
    <3>3. CASE i + 1 = Len(stack)
      BY <1>1, <1>3, <3>1, <3>2, <3>3
    <3>4. CASE i + 1 < Len(stack)
      BY <1>1, <1>2, <1>3, <3>1, <3>2, <3>4
    <3>. QED  BY <1>1, <3>1, <3>3, <3>4
  <2>3. ASSUME NEW w \in Work \ cyclic, color'[w] = "black", NEW v \in edges[w]
        PROVE  color'[v] = "black"
    <3>1. v \in Work
      BY DEF SearchInv, SearchTypes
    <3>2. color[v] = "black"
      BY <1>3, <1>6, <2>3, <3>1 DEF SearchInv, LookedAt
    <3>. QED  BY <1>3, <3>1, <3>2
  <2>. QED  BY <1>1, <2>1, <2>2, <2>3 DEF LookedAt
<1>8. FinishedIsAcyclic'
  <2>. DEFINE done == {w \in Work \ cyclic : color[w] = "black"}
  <2>1. ASSUME NEW ws \in SUBSET {w \in Work \ cyclic : color'[w] = "black"}, ws # {}
        PROVE  Source(ws)
    <3>1. CASE Top \notin ws
      <4>1. ws \in SUBSET done
        BY <1>3, <3>1
      <4>. QED  BY <2>1, <4>1 DEF SearchInv, FinishedIsAcyclic
    <3>2. CASE Top \in ws
      <4>1. ASSUME NEW w \in ws PROVE Top \notin edges[w]
        <5>1. CASE w = Top
          BY <1>3, <1>6, <3>2, <5>1
        <5>2. CASE w # Top
          BY <1>3, <5>2 DEF SearchInv, LookedAt
        <5>. QED  BY <5>1, <5>2
      <4>. QED  BY <3>2, <4>1 DEF Source
    <3>. QED  BY <3>1, <3>2
  <2>. QED  BY <1>1, <2>1 DEF FinishedIsAcyclic, Source
<1>. QED  BY <1>3, <1>5, <1>7, <1>8 DEF SearchInv

\* A graph of no issue has no search.
LEMMA NoIssueNoSearch ==
  ASSUME NEW c \in [Work -> {"white", "gray", "black"}], NEW st \in Seq(Work), NEW cy \in SUBSET Work,
         c = <<>>
  PROVE  st = <<>> /\ cy = {}
<1>1. Work = {}
  <2>1. DOMAIN c = {}
    OBVIOUS
  <2>. QED  BY <2>1
<1>. QED  BY <1>1

\* No issue was reached yet, and the parents are a forest.
LEMMA ResolveInv ==
  ASSUME AtlasInv, Resolve
  PROVE  SearchInv' /\ ContainmentIsForest'
<1>. DEFINE parents == [w \in Work |-> resolve_containment(w)]
<1>1. /\ stack = <<>> /\ cyclic = {} /\ stack' = <<>> /\ cyclic' = {}
      /\ parent' = [w \in Work |-> IF w \in find_containment_cycle_members(parents)
                                     THEN NoIssue ELSE parents[w]]
      /\ edges' = [w \in Work |-> resolve_blocked_by(w)] /\ todo' = edges'
      /\ color' = [w \in Work |-> "white"]
  BY DEF AtlasInv, Resolve
<1>2. parents \in [Work -> Work \cup Maps \cup {NoIssue}]
  BY DEF resolve_containment
<1>3. OnCycle({p \in Work \X Work : parent'[p[1]] = p[2]}) = {}
  <2>. HIDE DEF parents
  <2>. QED  BY <1>1, <1>2, ResolvedIsForest
<1>4. SearchTypes'
  BY <1>1 DEF SearchTypes, resolve_blocked_by
<1>5. StackIsPath'
  BY <1>1 DEF StackIsPath
<1>6. LookedAt'
  BY <1>1 DEF LookedAt
<1>7. FinishedIsAcyclic'
  BY <1>1 DEF FinishedIsAcyclic, Source
<1>8. ContainmentIsForest'
  BY <1>3 DEF ContainmentIsForest, OnCycle, Reaches
<1>. QED  BY <1>4, <1>5, <1>6, <1>7, <1>8 DEF SearchInv

\* Every step of build_graph().
LEMMA AtlasStep ==
  ASSUME AtlasInv, [AtlasNext]_atlasVars PROVE AtlasInv'
<1>1. CASE Resolve
  <2>1. SearchInv' /\ ContainmentIsForest'
    BY <1>1, ResolveInv
  <2>2. (color = <<>> => stack = <<>> /\ cyclic = {})'
    BY <1>1 DEF Resolve, AtlasInv
  <2>. QED  BY <2>1, <2>2 DEF AtlasInv
<1>2. ASSUME Retreat \/ \E w \in Work : StartSearch(w) \/ LookAt(w)
      PROVE  AtlasInv'
  <2>1. color # <<>> /\ SearchInv
    BY <1>2 DEF AtlasInv, Retreat, StartSearch, LookAt
  <2>2. SearchInv'
    BY <1>2, <2>1, StartSearchInv, LookAtInv, RetreatInv
  <2>3. parent' = parent /\ (color' = color \/ color' # <<>>)
    BY <1>2 DEF Retreat, StartSearch, LookAt, Push
  <2>4. ContainmentIsForest'
    BY <2>1, <2>3 DEF AtlasInv, ContainmentIsForest, OnCycle, Reaches
  <2>5. (color = <<>> => stack = <<>> /\ cyclic = {})'
    BY <2>2, NoIssueNoSearch DEF SearchInv, SearchTypes
  <2>. QED  BY <2>2, <2>4, <2>5 DEF AtlasInv
<1>3. CASE UNCHANGED atlasVars
  <2>. USE <1>3 DEF atlasVars
  <2>1. ContainmentIsForest' <=> ContainmentIsForest
    BY DEF ContainmentIsForest, OnCycle, Reaches
  <2>2. SearchTypes' <=> SearchTypes
    BY DEF SearchTypes
  <2>3. StackIsPath' <=> StackIsPath
    BY DEF StackIsPath, OnCycle, Reaches, Edges
  <2>4. LookedAt' <=> LookedAt
    BY DEF LookedAt
  <2>5. FinishedIsAcyclic' <=> FinishedIsAcyclic
    BY DEF FinishedIsAcyclic, Source
  <2>. QED  BY <2>1, <2>2, <2>3, <2>4, <2>5 DEF AtlasInv, SearchInv
<1>. QED  BY <1>1, <1>2, <1>3 DEF AtlasNext

\* The invariant of the whole of build_graph().
LEMMA AtlasInvHolds == AtlasSpec => []AtlasInv
<1>1. AtlasInit => AtlasInv
  BY DEF AtlasInit, AtlasInv, ContainmentIsForest
<1>. QED  BY <1>1, AtlasStep, PTL DEF AtlasSpec

\* A graph whose every part has a source has no cycle: who is on one is reached
\* from himself without leaving the part that he reaches, source or not.
LEMMA SourcesEndCycles ==
  ASSUME NEW ws \in SUBSET Work, \A sub \in SUBSET ws : sub # {} => Source(sub)
  PROVE  OnCycle(Edges(ws)) = {}
<1>. SUFFICES ASSUME NEW w \in Work, Reaches(Edges(ws), w, w) PROVE FALSE
  BY DEF OnCycle
<1>. DEFINE near == {y \in ws : Reaches(Edges(ws), w, y)}
<1>1. ASSUME NEW p \in Edges(ws), p[1] \in near \cup {w} PROVE p[2] \in near
  <2>1. Reaches(Edges(ws), p[1], p[2]) /\ p[2] \in ws
    BY ReachesByPair DEF Edges
  <2>. QED  BY <1>1, <2>1, ReachesOn
<1>2. w \in near
  <2>1. near \in SUBSET Work
    OBVIOUS
  <2>. HIDE DEF near
  <2>. QED  BY <1>1, <2>1 DEF Reaches
<1>3. PICK s \in near : \A y \in near : s \notin edges[y]
  BY <1>2 DEF Source
<1>4. ASSUME NEW p \in Edges(ws), p[1] \in (near \ {s}) \cup {w} PROVE p[2] \in near \ {s}
  <2>1. p[1] \in near /\ p[2] \in near
    BY <1>1, <1>2, <1>4
  <2>2. p[2] \in edges[p[1]]
    BY DEF Edges
  <2>. QED  BY <1>3, <2>1, <2>2
<1>5. Reaches(Edges(ws), w, s) /\ near \ {s} \in SUBSET Work
  BY <1>3
<1>6. s \in near \ {s}
  <2>. HIDE DEF near
  <2>. QED  BY <1>4, <1>5 DEF Reaches
<1>. QED  BY <1>6

\* Whatever the issues state, the parents shown have no cycle: a walk up from an
\* issue on one stays in at most Work issues and so comes round at a member,
\* which lost its parent.
THEOREM ContainmentIsForestHolds == AtlasSpec => []ContainmentIsForest
BY AtlasInvHolds, PTL DEF AtlasInv

\* find_prereq_cycle_members reports nobody off a cycle, and with those it
\* reports taken away no cycle is left, whatever the order of the search.
THEOREM CyclesAreReportedHolds == AtlasSpec => []CyclesAreReported
<1>1. ASSUME AtlasInv PROVE CyclesAreReported
  <2>. SUFFICES ASSUME Searched
                PROVE  cyclic \subseteq OnCycle(Edges(Work)) /\ OnCycle(Edges(Work \ cyclic)) = {}
    BY DEF CyclesAreReported
  <2>1. SearchInv
    BY <1>1 DEF Searched, AtlasInv
  <2>2. \A sub \in SUBSET (Work \ cyclic) : sub # {} => Source(sub)
    BY <2>1 DEF Searched, SearchInv, FinishedIsAcyclic
  <2>. QED  BY <2>1, <2>2, SourcesEndCycles DEF SearchInv, StackIsPath
<1>. QED  BY <1>1, AtlasInvHolds, PTL

=============================================================================
