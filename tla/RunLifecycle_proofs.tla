------------------------ MODULE RunLifecycle_proofs -------------------------
(***************************************************************************)
(* The runs of the session log, for any servers, runs, engines and         *)
(* appends.  Whatever races on the unlocked log, the header of a session   *)
(* stays, an ended run does not go on saying "running", and an issue has   *)
(* at most one active run per server.                                      *)
(***************************************************************************)
EXTENDS RunLifecycle, FiniteSetTheorems, TLAPS

\* A stored session.
Stored(doc) ==
  /\ doc \in Seq(Event) /\ doc # <<>>
  /\ doc[1] \in {Created(i) : i \in Issue}
  /\ Len(doc) > 1 => doc[2] = RunCreated

\* Only the creator appends behind the first event, and it appends run.created.
HandOK(w) ==
  hand[w] = Free \/
    /\ hand[w] \in Hand /\ hand[w].session \in Session /\ hand[w].event \in Event
    /\ \/ /\ hand[w].at = "check"
          /\ hand[w].expected >= 1 \/ (hand[w].expected = 0 /\ hand[w].event = RunCreated)
       \/ /\ hand[w].at = "save"
          /\ Stored(hand[w].doc)
          /\ Len(hand[w].doc) = 1 => hand[w].event = RunCreated

HasHeader(r) == r \in Session /\ Len(log[r]) >= 2

\* A call that appends to a run knows it has its header, or writes it.
CallOK(s) ==
  /\ call[s].at \in {"saved", "start", "invoke", "found"} => HasHeader(call[s].run)
  /\ call[s].at \in {"header", "running"} => /\ hand[s] # Free /\ call[s].run \in Session
                                             /\ hand[s].session = call[s].run
  /\ call[s].at = "start" => hand[s] = Free
  /\ call[s].at = "found" => call[s].event \in Event
  /\ call[s].at = "create" => call[s].issue \in Issue

WorkerOK(r) == worker[r] \in {"invoke", "result", "retry"} => HasHeader(r)

HeaderInv ==
  /\ log \in [Session -> Seq(Event)] /\ DOMAIN hand = Writer
  /\ DOMAIN call = Server /\ DOMAIN worker = Session
  /\ \A r \in Session : (Exists(r) => Stored(log[r])) /\ WorkerOK(r)
  /\ \A w \in Writer : HandOK(w)
  /\ \A s \in Server : CallOK(s)

LEMMA EventTypes ==
  /\ \A i \in Issue : Created(i) \in Event /\ Created(i).type = "session.created"
  /\ RunCreated \in Event /\ Running \in Event /\ RunCreated.type = "run.created"
  /\ \A st \in Outcome \cup {"failed"}, sid \in BOOLEAN : Turn(st, sid) \in Event
  /\ \A k \in Key, p \in Payload : Submitted(k, p) \in Event
BY LifecycleAssumption DEF Created, RunCreated

\* A session that resolves has its header.
LEMMA ResolvedHasHeader ==
  ASSUME HeaderInv, NEW r \in Session, _resolve_for_context(r)
  PROVE  HasHeader(r)
<1>1. PICK n \in DOMAIN log[r] : log[r][n].type = "run.created"
  BY DEF _resolve_for_context, Of
<1>2. log[r] \in Seq(Event) /\ log[r] # <<>>
  BY <1>1 DEF HeaderInv
<1>3. log[r][1].type = "session.created"
  BY <1>2, EventTypes DEF HeaderInv, Stored, Exists
<1>4. n \in 1..Len(log[r]) /\ n # 1
  BY <1>1, <1>2, <1>3
<1>. QED  BY <1>2, <1>4 DEF HasHeader

\* What a save writes is a stored session with its header.
LEMMA SavedIsStored ==
  ASSUME NEW w \in Writer, HandOK(w), hand[w].at = "save"
  PROVE  Stored(Written(w)) /\ Len(Written(w)) >= 2 /\ Written(w) \in Seq(Event)
<1>1. /\ Stored(hand[w].doc) /\ hand[w].event \in Event
      /\ Len(hand[w].doc) = 1 => hand[w].event = RunCreated
  BY DEF HandOK, Free
<1>. DEFINE d == hand[w].doc
<1>2. d \in Seq(Event) /\ d # <<>> /\ Len(d) \in Nat /\ Len(d) >= 1
  BY <1>1 DEF Stored
<1>3. /\ Written(w) \in Seq(Event) /\ Len(Written(w)) = Len(d) + 1
      /\ \A n \in 1..Len(d) : Written(w)[n] = d[n]
      /\ Written(w)[Len(d) + 1] = hand[w].event
  BY <1>1, <1>2 DEF Written
<1>4. Written(w) # <<>> /\ Written(w)[1] = d[1]
  BY <1>2, <1>3
<1>5. Written(w)[2] = RunCreated
  <2>1. PICK n \in Nat : n = Len(d)
    BY <1>2
  <2>2. Len(d) = 1 => Written(w)[2] = RunCreated
    BY <1>1, <1>3
  <2>3. n >= 2 => Written(w)[2] = RunCreated
    BY <1>1, <1>3, <2>1 DEF Stored
  <2>4. n # 0
    BY <1>2, <2>1
  <2>5. n = 1 \/ n >= 2
    BY <2>4
  <2>. QED  BY <2>1, <2>2, <2>3, <2>5
<1>6. Stored(Written(w))
  BY <1>1, <1>2, <1>3, <1>4, <1>5 DEF Stored
<1>7. Len(Written(w)) >= 2
  BY <1>2, <1>3
<1>. QED  BY <1>3, <1>6, <1>7

\* A save keeps the state of everybody else in order.
LEMMA SaveKeeps ==
  ASSUME HeaderInv, NEW w \in Writer, SaveAppend(w)
  PROVE  /\ log' \in [Session -> Seq(Event)] /\ DOMAIN hand' = Writer
         /\ \A r \in Session : Exists(r)' => Stored(log[r])'
         /\ \A r \in Session : HasHeader(r) => HasHeader(r)'
         /\ \A r : r = hand[w].session => HasHeader(r)'
         /\ \A v \in Writer : HandOK(v)'
         /\ \A v \in Writer \ {w} : hand'[v] = hand[v]
<1>1. /\ hand[w].at = "save" /\ hand' = [hand EXCEPT ![w] = Free]
      /\ log' = [log EXCEPT ![hand[w].session] = Written(w)]
  BY DEF SaveAppend
<1>2. HandOK(w) /\ hand[w].session \in Session
  BY <1>1 DEF HeaderInv, HandOK, Free
<1>3. Stored(Written(w)) /\ Len(Written(w)) >= 2 /\ Written(w) \in Seq(Event)
  BY <1>1, <1>2, SavedIsStored
<1>4. log' \in [Session -> Seq(Event)] /\ DOMAIN hand' = Writer
  BY <1>1, <1>2, <1>3 DEF HeaderInv
<1>5. ASSUME NEW r \in Session PROVE /\ Exists(r)' => Stored(log[r])'
                                     /\ HasHeader(r) => HasHeader(r)'
  BY <1>1, <1>2, <1>3 DEF HeaderInv, Exists, Stored, HasHeader
<1>6. ASSUME NEW r, r = hand[w].session PROVE HasHeader(r)'
  BY <1>1, <1>2, <1>3, <1>6 DEF HeaderInv, HasHeader
<1>7. \A v \in Writer : HandOK(v)'
  BY <1>1 DEF HeaderInv, HandOK, Stored
<1>8. \A v \in Writer \ {w} : hand'[v] = hand[v]
  BY <1>1 DEF HeaderInv
<1>. QED  BY <1>4, <1>5, <1>6, <1>7, <1>8

\* An append that begins behind the header, or that writes the header.
LEMMA BeginKeeps ==
  ASSUME HeaderInv, NEW w \in Writer, NEW r \in Session, NEW n \in Nat, NEW e \in Event,
         BeginAppend(w, r, n, e), n >= 1 \/ (n = 0 /\ e = RunCreated)
  PROVE  /\ DOMAIN hand' = Writer /\ \A v \in Writer : HandOK(v)'
         /\ hand'[w] # Free /\ hand'[w].session = r
         /\ \A v \in Writer \ {w} : hand'[v] = hand[v]
<1>1. hand' = [hand EXCEPT ![w] = [at |-> "check", session |-> r, expected |-> n,
                                  doc |-> <<>>, event |-> e]]
  BY DEF BeginAppend
<1>2. [at |-> "check", session |-> r, expected |-> n, doc |-> <<>>, event |-> e] \in Hand
  BY DEF Hand
<1>3. DOMAIN hand' = Writer /\ \A v \in Writer \ {w} : hand'[v] = hand[v]
  BY <1>1 DEF HeaderInv
<1>4. hand'[w] = [at |-> "check", session |-> r, expected |-> n, doc |-> <<>>, event |-> e]
  BY <1>1 DEF HeaderInv
<1>5. HandOK(w)'
  BY <1>2, <1>4 DEF HandOK, Stored
<1>6. hand'[w] # Free /\ hand'[w].session = r
  BY <1>4 DEF Free
<1>7. \A v \in Writer \ {w} : HandOK(v)'
  BY <1>3 DEF HeaderInv, HandOK, Stored
<1>. QED  BY <1>3, <1>5, <1>6, <1>7

\* The same for _append_engine_turn and submit_for_review.
LEMMA TurnKeeps ==
  ASSUME HeaderInv, NEW w \in Writer, NEW r, HasHeader(r), NEW e \in Event, AppendTurn(w, r, e)
  PROVE  /\ log' = log /\ DOMAIN hand' = Writer /\ \A v \in Writer : HandOK(v)'
         /\ \A v \in Writer \ {w} : hand'[v] = hand[v]
<1>1. r \in Session /\ log[r] \in Seq(Event) /\ latest_sequence(log[r]) \in Nat
      /\ latest_sequence(log[r]) >= 1
  BY DEF HasHeader, HeaderInv, latest_sequence
<1>. QED  BY <1>1, BeginKeeps DEF AppendTurn

\* The check, the conflict and the failure of an append.
LEMMA CheckKeeps ==
  ASSUME HeaderInv, NEW w \in Writer, CheckAppend(w) \/ ConflictAppend(w) \/ FailAppend(w)
  PROVE  /\ log' = log /\ DOMAIN hand' = Writer /\ \A v \in Writer : HandOK(v)'
         /\ \A v \in Writer \ {w} : hand'[v] = hand[v]
         /\ CheckAppend(w) => hand'[w] # Free /\ hand'[w].session = hand[w].session
<1>1. CASE ConflictAppend(w) \/ FailAppend(w)
  <2>1. hand' = [hand EXCEPT ![w] = Free] /\ log' = log
    BY <1>1 DEF ConflictAppend, FailAppend
  <2>2. hand'[w] = Free
    BY <2>1 DEF HeaderInv
  <2>3. ~CheckAppend(w) \/ (hand'[w] # Free /\ hand'[w].session = hand[w].session)
    <3>1. CheckAppend(w) => hand'[w].at = "save"
      BY DEF CheckAppend, HeaderInv, HandOK, Hand, Free
    <3>. QED  BY <2>2, <3>1 DEF Free
  <2>. QED  BY <2>1, <2>3 DEF HeaderInv, HandOK, Stored
<1>2. CASE CheckAppend(w)
  <2>. DEFINE d == log[hand[w].session]
  <2>1. /\ hand[w].at = "check" /\ Len(d) - 1 = hand[w].expected /\ log' = log
        /\ hand' = [hand EXCEPT ![w].at = "save", ![w].doc = d]
    BY <1>2 DEF CheckAppend, Agrees, latest_sequence
  <2>2. /\ hand[w] \in Hand /\ hand[w].session \in Session /\ hand[w].event \in Event
        /\ hand[w].expected >= 1 \/ (hand[w].expected = 0 /\ hand[w].event = RunCreated)
    BY <2>1 DEF HeaderInv, HandOK, Free
  <2>3. d \in Seq(Event) /\ d # <<>> /\ (Len(d) = 1 => hand[w].event = RunCreated)
    <3>1. d \in Seq(Event)
      BY <2>2 DEF HeaderInv
    <3>2. PICK n \in Nat : n = Len(d) /\ n - 1 = hand[w].expected
      BY <2>1, <3>1
    <3>3. PICK x \in Nat : x = hand[w].expected
      BY <2>2 DEF Hand
    <3>4. (x >= 1 \/ (x = 0 /\ hand[w].event = RunCreated)) /\ n - 1 = x
      BY <2>2, <3>2, <3>3
    <3>5. n # 0 /\ (n = 1 => hand[w].event = RunCreated)
      BY <3>4
    <3>. QED  BY <3>1, <3>2, <3>5
  <2>4. Stored(d)
    <3>1. \A r \in Session : Exists(r) => Stored(log[r])
      BY DEF HeaderInv
    <3>2. Exists(hand[w].session)
      BY <2>3 DEF Exists
    <3>. QED  BY <2>2, <3>1, <3>2
  <2>5. hand'[w] = [hand[w] EXCEPT !.at = "save", !.doc = d]
    BY <2>1 DEF HeaderInv
  <2>6. HandOK(w)'
    <3>1. hand'[w] \in Hand
      BY <2>2, <2>3, <2>5 DEF Hand
    <3>2. /\ hand'[w].at = "save" /\ hand'[w].doc = d
          /\ hand'[w].session = hand[w].session /\ hand'[w].event = hand[w].event
      BY <2>2, <2>5 DEF Hand
    <3>. QED  BY <2>2, <2>3, <2>4, <3>1, <3>2 DEF HandOK, Stored
  <2>7. \A v \in Writer \ {w} : hand'[v] = hand[v] /\ HandOK(v)'
    BY <2>1 DEF HeaderInv, HandOK, Stored
  <2>8. hand'[w] # Free /\ hand'[w].session = hand[w].session
    <3>1. hand'[w].at = "save" /\ hand'[w].session = hand[w].session
      BY <2>2, <2>5 DEF Hand
    <3>. QED  BY <3>1 DEF Free
  <2>. QED  BY <2>1, <2>6, <2>7, <2>8 DEF HeaderInv
<1>. QED  BY <1>1, <1>2

LEMMA HeaderInitInv == Init => HeaderInv
<1>. SUFFICES ASSUME Init PROVE HeaderInv
  OBVIOUS
<1>1. log \in [Session -> Seq(Event)] /\ DOMAIN hand = Writer
      /\ DOMAIN call = Server /\ DOMAIN worker = Session
  BY DEF Init, LogInit
<1>2. \A r \in Session : (Exists(r) => Stored(log[r])) /\ WorkerOK(r)
  BY DEF Init, LogInit, Exists, WorkerOK
<1>3. \A w \in Writer : HandOK(w)
  BY DEF Init, LogInit, HandOK
<1>4. \A s \in Server : CallOK(s)
  BY DEF Init, CallOK, Idle
<1>. QED  BY <1>1, <1>2, <1>3, <1>4 DEF HeaderInv

\* Servers and worker threads are different writers.
LEMMA Writers == /\ \A s \in Server : s \in Writer /\ \A r \in Session : r # s
                 /\ \A r \in Session : r \in Writer
BY LifecycleAssumption

\* A step leaves the log alone and moves at most w's append, ...
HandKept(w) ==
  /\ log' = log /\ DOMAIN hand' = Writer /\ \A v \in Writer : HandOK(v)'
  /\ \A v \in Writer \ {w} : hand'[v] = hand[v]

\* ... at most w's call ...
CallKept(w) ==
  /\ DOMAIN call' = Server /\ \A s \in Server \ {w} : call'[s] = call[s]
  /\ w \in Server => CallOK(w)'

\* ... and leaves the workers in order.
WorkersKept ==
  /\ DOMAIN worker' = Session
  /\ \A r \in Session : \/ worker'[r] = worker[r]
                         \/ worker'[r] \notin {"invoke", "result", "retry"}
                         \/ HasHeader(r)

LEMMA QuietStep ==
  ASSUME HeaderInv, NEW w \in Writer, HandKept(w), CallKept(w), WorkersKept
  PROVE  HeaderInv'
<1>1. \A r \in Session : (Exists(r) => Stored(log[r]))' /\ WorkerOK(r)'
  BY DEF HeaderInv, HandKept, WorkersKept, WorkerOK, HasHeader, Exists, Stored
<1>2. ASSUME NEW s \in Server PROVE CallOK(s)'
  <2>1. CASE s = w
    BY <2>1 DEF CallKept
  <2>2. CASE s # w
    <3>1. call'[s] = call[s] /\ hand'[s] = hand[s] /\ CallOK(s) /\ log' = log
      BY <2>2, Writers DEF HeaderInv, HandKept, CallKept
    <3>. QED  BY <3>1 DEF CallOK, HasHeader
  <2>. QED  BY <2>1, <2>2
<1>. QED  BY <1>1, <1>2 DEF HeaderInv, HandKept, CallKept, WorkersKept

\* A step that saves w's append, moving at most its call and one worker.
LEMMA SaveStep ==
  ASSUME HeaderInv, NEW w \in Writer, SaveAppend(w),
         DOMAIN call' = Server, \A s \in Server \ {w} : call'[s] = call[s],
         w \in Server => CallOK(w)',
         DOMAIN worker' = Session,
         \A r \in Session : worker'[r] = worker[r] \/ worker'[r] = "over" \/ r = hand[w].session
  PROVE  HeaderInv'
<1>0. /\ log' \in [Session -> Seq(Event)] /\ DOMAIN hand' = Writer
      /\ \A r \in Session : Exists(r)' => Stored(log[r])'
      /\ \A r \in Session : HasHeader(r) => HasHeader(r)'
      /\ \A r : r = hand[w].session => HasHeader(r)'
      /\ \A v \in Writer : HandOK(v)'
      /\ \A v \in Writer \ {w} : hand'[v] = hand[v]
  BY SaveKeeps
<1>1. \A r \in Session : WorkerOK(r)'
  BY <1>0 DEF HeaderInv, WorkerOK
<1>2. ASSUME NEW s \in Server PROVE CallOK(s)'
  <2>1. CASE s = w
    BY <2>1
  <2>2. CASE s # w
    <3>1. call'[s] = call[s] /\ hand'[s] = hand[s] /\ CallOK(s)
      BY <1>0, <2>2, Writers DEF HeaderInv
    <3>2. \A r : HasHeader(r) => HasHeader(r)'
      BY <1>0 DEF HasHeader
    <3>. QED  BY <3>1, <3>2 DEF CallOK
  <2>. QED  BY <2>1, <2>2
<1>. QED  BY <1>0, <1>1, <1>2 DEF HeaderInv

\* create_run writes the header: nobody else appends behind the first event.
LEMMA CreateInv ==
  ASSUME HeaderInv, NEW s \in Server, NEW r \in Session, CreateSession(s, r)
  PROVE  HeaderInv'
<1>1. /\ log[r] = <<>> /\ log' = [log EXCEPT ![r] = <<Created(call[s].issue)>>]
      /\ BeginAppend(s, r, 0, RunCreated) /\ worker' = worker /\ call[s].at = "create"
      /\ call' = [call EXCEPT ![s].at = "header", ![s].run = r]
  BY DEF CreateSession, create, Exists
<1>2. s \in Writer /\ call[s].issue \in Issue
  BY <1>1, Writers DEF HeaderInv, CallOK
<1>3. RunCreated \in Event /\ Created(call[s].issue) \in Event
  BY <1>2, EventTypes
<1>4. /\ DOMAIN hand' = Writer /\ \A v \in Writer : HandOK(v)'
      /\ hand'[s] # Free /\ hand'[s].session = r
      /\ \A v \in Writer \ {s} : hand'[v] = hand[v]
  BY <1>1, <1>2, <1>3, BeginKeeps
<1>5. log' \in [Session -> Seq(Event)] /\ \A q \in Session \ {r} : log'[q] = log[q]
  BY <1>1, <1>3 DEF HeaderInv
<1>6. ASSUME NEW q \in Session PROVE (Exists(q) => Stored(log[q]))' /\ WorkerOK(q)'
  <2>1. CASE q = r
    <3>1. log'[q] = <<Created(call[s].issue)>> /\ Stored(log'[q])
      BY <1>1, <1>2, <1>3, <2>1 DEF HeaderInv, Stored
    <3>2. worker[q] \notin {"invoke", "result", "retry"}
      BY <1>1, <2>1 DEF HeaderInv, WorkerOK, HasHeader
    <3>. QED  BY <1>1, <3>1, <3>2 DEF WorkerOK, Stored
  <2>2. CASE q # r
    <3>1. (Exists(q) => Stored(log[q])) /\ WorkerOK(q) /\ log'[q] = log[q]
      BY <1>5, <2>2 DEF HeaderInv
    <3>. QED  BY <1>1, <3>1 DEF WorkerOK, HasHeader, Exists, Stored
  <2>. QED  BY <2>1, <2>2
<1>7. ASSUME NEW t \in Server PROVE CallOK(t)'
  <2>1. CASE t = s
    BY <1>1, <1>4, <2>1 DEF HeaderInv, CallOK
  <2>2. CASE t # s
    <3>1. call'[t] = call[t] /\ hand'[t] = hand[t] /\ CallOK(t)
      BY <1>1, <1>4, <2>2, Writers DEF HeaderInv
    <3>2. \A q : HasHeader(q) => HasHeader(q)'
      BY <1>1, <1>5 DEF HasHeader
    <3>. QED  BY <3>1, <3>2 DEF CallOK
  <2>. QED  BY <2>1, <2>2
<1>8. DOMAIN call' = Server /\ DOMAIN worker' = Session
  BY <1>1 DEF HeaderInv
<1>. QED  BY <1>4, <1>5, <1>6, <1>7, <1>8 DEF HeaderInv

\* The other steps of a server.
LEMMA ServerInv ==
  ASSUME HeaderInv, NEW s \in Server, ServerStep(s)
  PROVE  HeaderInv'
<1>. s \in Writer /\ \A r \in Session : r # s
  BY Writers
<1>1. ASSUME NEW i \in Issue, CreateScan(s, i) PROVE HeaderInv'
  <2>1. CallOK(s)'
    BY <1>1 DEF CreateScan, HeaderInv, CallOK, Idle
  <2>2. HandKept(s) /\ CallKept(s) /\ WorkersKept
    BY <1>1, <2>1 DEF CreateScan, logVars, HeaderInv, HandOK, Stored, HandKept, CallKept, WorkersKept
  <2>. QED  BY <2>2, QuietStep
<1>2. ASSUME NEW r \in Session, CreateSession(s, r) PROVE HeaderInv'
  BY <1>2, CreateInv
<1>3. CASE HeaderSaved(s)
  <2>1. /\ SaveAppend(s) /\ worker' = worker /\ call' = [call EXCEPT ![s].at = "saved"]
        /\ call[s].at = "header"
    BY <1>3 DEF HeaderSaved
  <2>2. hand[s].session = call[s].run
    BY <2>1 DEF HeaderInv, CallOK
  <2>3. HasHeader(call[s].run)'
    BY <2>1, <2>2, SaveKeeps
  <2>4. CallOK(s)'
    BY <2>1, <2>3 DEF HeaderInv, CallOK, HasHeader
  <2>. QED  BY <2>1, <2>4, SaveStep DEF HeaderInv
<1>4. CASE AppendRunning(s)
  <2>1. /\ BeginAppend(s, call[s].run, 1, Running) /\ log' = log /\ worker' = worker
        /\ call' = [call EXCEPT ![s].at = "running"] /\ HasHeader(call[s].run)
    BY <1>4 DEF AppendRunning, HeaderInv, CallOK
  <2>2. /\ DOMAIN hand' = Writer /\ \A v \in Writer : HandOK(v)'
        /\ hand'[s] # Free /\ hand'[s].session = call[s].run
        /\ \A v \in Writer \ {s} : hand'[v] = hand[v]
    <3>1. call[s].run \in Session /\ Running \in Event /\ 1 \in Nat /\ 1 >= 1
      BY <2>1, EventTypes DEF HasHeader
    <3>2. BeginAppend(s, call[s].run, 1, Running)
      BY <2>1
    <3>. DEFINE one == 1
    <3>3. one \in Nat /\ one >= 1 /\ BeginAppend(s, call[s].run, one, Running)
      BY <3>1, <3>2
    <3>. HIDE DEF one
    <3>. QED  BY <3>1, <3>3, BeginKeeps
  <2>3. CallOK(s)'
    BY <2>1, <2>2 DEF HeaderInv, CallOK, HasHeader
  <2>4. HandKept(s) /\ CallKept(s) /\ WorkersKept
    BY <2>1, <2>2, <2>3 DEF HeaderInv, HandKept, CallKept, WorkersKept
  <2>. QED  BY <2>4, QuietStep
<1>5. CASE RunningSaved(s)
  <2>1. /\ SaveAppend(s) /\ worker' = worker /\ call' = [call EXCEPT ![s].at = "start"]
        /\ hand[s].session = call[s].run
    BY <1>5 DEF RunningSaved, HeaderInv, CallOK
  <2>2. HasHeader(call[s].run)'
    BY <2>1, SaveKeeps
  <2>3. hand'[s] = Free
    BY <2>1 DEF SaveAppend, HeaderInv
  <2>4. CallOK(s)'
    BY <2>1, <2>2, <2>3 DEF HeaderInv, CallOK, HasHeader
  <2>. QED  BY <2>1, <2>4, SaveStep DEF HeaderInv
<1>15. CASE StartWorker(s)
  <2>1. /\ HasHeader(call[s].run) /\ UNCHANGED logVars /\ call' = [call EXCEPT ![s] = Idle]
        /\ worker' = worker \/ worker' = [worker EXCEPT ![call[s].run] = "invoke"]
    BY <1>15 DEF StartWorker, HeaderInv, CallOK
  <2>2. CallOK(s)'
    BY <2>1 DEF HeaderInv, CallOK, Idle
  <2>3. HandKept(s) /\ CallKept(s) /\ WorkersKept
    BY <2>1, <2>2 DEF logVars, HeaderInv, HandOK, Stored, HandKept, CallKept, WorkersKept
  <2>. QED  BY <2>3, QuietStep
<1>6. ASSUME NEW r \in Session, Resume(s, r) PROVE HeaderInv'
  <2>1. HasHeader(r)
    BY <1>6, ResolvedHasHeader DEF Resume
  <2>2. CallOK(s)'
    BY <1>6, <2>1 DEF Resume, logVars, HeaderInv, CallOK, HasHeader, Idle
  <2>3. HandKept(s) /\ CallKept(s) /\ WorkersKept
    BY <1>6, <2>2 DEF Resume, logVars, HeaderInv, HandOK, Stored, HandKept, CallKept, WorkersKept
  <2>. QED  BY <2>3, QuietStep
<1>7. CASE ResumeReturns(s)
  <2>1. PICK e \in Event : AppendTurn(s, call[s].run, e)
    BY <1>7, EventTypes DEF ResumeReturns
  <2>2. /\ HasHeader(call[s].run) /\ worker' = worker /\ call' = [call EXCEPT ![s].at = "turn"]
    BY <1>7 DEF ResumeReturns, HeaderInv, CallOK
  <2>3. CallOK(s)'
    BY <2>2 DEF HeaderInv, CallOK
  <2>4. HandKept(s)
    BY <2>1, <2>2, TurnKeeps DEF HandKept
  <2>5. CallKept(s) /\ WorkersKept
    BY <2>2, <2>3 DEF HeaderInv, CallKept, WorkersKept
  <2>. QED  BY <2>4, <2>5, QuietStep
<1>8. CASE ResumeSaved(s)
  <2>1. CallOK(s)'
    BY <1>8 DEF ResumeSaved, HeaderInv, CallOK, Idle
  <2>. QED  BY <1>8, <2>1, SaveStep DEF ResumeSaved, HeaderInv
<1>9. ASSUME NEW r \in Session, NEW k \in Key, NEW p \in Payload, Submit(s, r, k, p)
      PROVE HeaderInv'
  <2>1. HasHeader(r) /\ Submitted(k, p) \in Event
    BY <1>9, ResolvedHasHeader, EventTypes DEF Submit
  <2>2. CallOK(s)'
    BY <1>9, <2>1 DEF Submit, logVars, HeaderInv, CallOK, HasHeader, Idle
  <2>3. HandKept(s) /\ CallKept(s) /\ WorkersKept
    BY <1>9, <2>2 DEF Submit, logVars, HeaderInv, HandOK, Stored, HandKept, CallKept, WorkersKept
  <2>. QED  BY <2>3, QuietStep
<1>10. CASE SubmitLoad(s)
  <2>1. /\ AppendTurn(s, call[s].run, call[s].event) /\ HasHeader(call[s].run)
        /\ call[s].event \in Event /\ worker' = worker /\ call' = [call EXCEPT ![s].at = "submit"]
    BY <1>10 DEF SubmitLoad, HeaderInv, CallOK
  <2>2. CallOK(s)'
    BY <2>1 DEF HeaderInv, CallOK
  <2>3. HandKept(s)
    BY <2>1, TurnKeeps DEF HandKept
  <2>4. CallKept(s) /\ WorkersKept
    BY <2>1, <2>2 DEF HeaderInv, CallKept, WorkersKept
  <2>. QED  BY <2>3, <2>4, QuietStep
<1>11. CASE SubmitSaved(s)
  <2>1. CallOK(s)'
    BY <1>11 DEF SubmitSaved, HeaderInv, CallOK, Idle
  <2>. QED  BY <1>11, <2>1, SaveStep DEF SubmitSaved, HeaderInv
<1>12. CASE CallConflict(s)
  <2>1. CallOK(s)'
    BY <1>12 DEF CallConflict, HeaderInv, CallOK, Idle
  <2>2. UNCHANGED logVars \/ ConflictAppend(s) \/ FailAppend(s)
    BY <1>12 DEF CallConflict, AppendError
  <2>3. HandKept(s)
    BY <2>2, CheckKeeps DEF HandKept, logVars, HeaderInv, HandOK, Stored
  <2>4. CallKept(s) /\ WorkersKept
    BY <1>12, <2>1 DEF CallConflict, HeaderInv, CallKept, WorkersKept
  <2>. QED  BY <2>3, <2>4, QuietStep
<1>13. CASE Check(s)
  <2>1. CheckAppend(s) /\ call' = call /\ worker' = worker
    BY <1>13 DEF Check
  <2>2. hand'[s] # Free /\ hand'[s].session = hand[s].session /\ log' = log
    BY <2>1, CheckKeeps
  <2>6. hand[s] # Free
    BY <2>1 DEF CheckAppend, Free
  <2>3. CallOK(s)'
    BY <2>1, <2>2, <2>6 DEF HeaderInv, CallOK, HasHeader
  <2>4. HandKept(s)
    BY <2>1, CheckKeeps DEF HandKept
  <2>5. CallKept(s) /\ WorkersKept
    BY <2>1, <2>3 DEF HeaderInv, CallKept, WorkersKept
  <2>. QED  BY <2>4, <2>5, QuietStep
<1>14. CASE Crash(s)
  <2>1. /\ log' = log /\ DOMAIN hand' = Writer /\ call' = [call EXCEPT ![s] = Idle]
        /\ \A v \in Writer : hand'[v] = Free \/ hand'[v] = hand[v]
        /\ \A t \in Server \ {s} : hand'[t] = hand[t]
        /\ DOMAIN worker' = Session /\ \A r \in Session : worker'[r] = "over" \/ worker'[r] = worker[r]
    BY <1>14, Writers DEF Crash, Owned
  <2>2. \A v \in Writer : HandOK(v)'
    BY <2>1 DEF HeaderInv, HandOK, Stored
  <2>3. \A r \in Session : (Exists(r) => Stored(log[r]))' /\ WorkerOK(r)'
    BY <2>1 DEF HeaderInv, WorkerOK, HasHeader, Exists, Stored
  <2>4. \A t \in Server : CallOK(t)'
    BY <2>1 DEF HeaderInv, CallOK, HasHeader, Idle
  <2>. QED  BY <2>1, <2>2, <2>3, <2>4 DEF HeaderInv
<1>. QED  BY <1>1, <1>2, <1>3, <1>4, <1>5, <1>6, <1>7, <1>8, <1>9, <1>10, <1>11, <1>12, <1>13, <1>14,
             <1>15 DEF ServerStep

\* The steps of a worker thread.
LEMMA WorkerInv ==
  ASSUME HeaderInv, NEW r \in Session, WorkerStep(r)
  PROVE  HeaderInv'
<1>. r \in Writer /\ r \notin Server
  BY Writers
<1>1. CASE WorkerReturns(r)
  <2>1. PICK e \in Event : AppendTurn(r, r, e)
    BY <1>1, EventTypes DEF WorkerReturns
  <2>2. HasHeader(r) /\ call' = call
    BY <1>1 DEF WorkerReturns, HeaderInv, WorkerOK
  <2>3. \E x \in {"result", "error"} : worker' = [worker EXCEPT ![r] = x]
    BY <1>1 DEF WorkerReturns
  <2>4. HandKept(r)
    BY <2>1, <2>2, TurnKeeps DEF HandKept
  <2>5. CallKept(r) /\ WorkersKept
    BY <2>2, <2>3 DEF HeaderInv, CallKept, WorkersKept
  <2>. QED  BY <2>4, <2>5, QuietStep
<1>2. CASE WorkerSaved(r)
  <2>1. /\ SaveAppend(r) /\ call' = call /\ worker' = [worker EXCEPT ![r] = "over"]
        /\ DOMAIN call = Server /\ DOMAIN worker = Session
    BY <1>2 DEF WorkerSaved, HeaderInv
  <2>2. DOMAIN call' = Server /\ \A t \in Server \ {r} : call'[t] = call[t]
    BY <2>1
  <2>3. /\ DOMAIN worker' = Session
        /\ \A q \in Session : worker'[q] = worker[q] \/ worker'[q] = "over" \/ q = hand[r].session
    BY <2>1
  <2>. QED  BY <2>1, <2>2, <2>3, SaveStep
<1>3. CASE WorkerConflict(r)
  <2>1. HandKept(r)
    BY <1>3, CheckKeeps DEF WorkerConflict, AppendError, HandKept
  <2>2. CallKept(r)
    BY <1>3 DEF WorkerConflict, HeaderInv, CallKept
  <2>3. WorkersKept
    BY <1>3 DEF WorkerConflict, HeaderInv, WorkersKept, WorkerOK
  <2>. QED  BY <2>1, <2>2, <2>3, QuietStep
<1>4. CASE WorkerRetry(r)
  <2>1. PICK e \in Event : AppendTurn(r, r, e)
    BY <1>4, EventTypes DEF WorkerRetry
  <2>2. HasHeader(r) /\ call' = call
    BY <1>4 DEF WorkerRetry, HeaderInv, WorkerOK
  <2>3. worker' = [worker EXCEPT ![r] = "error"]
    BY <1>4 DEF WorkerRetry
  <2>4. HandKept(r)
    BY <2>1, <2>2, TurnKeeps DEF HandKept
  <2>5. CallKept(r) /\ WorkersKept
    BY <2>2, <2>3 DEF HeaderInv, CallKept, WorkersKept
  <2>. QED  BY <2>4, <2>5, QuietStep
<1>5. CASE WorkerDies(r)
  <2>1. HandKept(r)
    BY <1>5, CheckKeeps DEF WorkerDies, HandKept
  <2>2. CallKept(r)
    BY <1>5 DEF WorkerDies, HeaderInv, CallKept
  <2>3. WorkersKept
    BY <1>5 DEF WorkerDies, HeaderInv, WorkersKept
  <2>. QED  BY <2>1, <2>2, <2>3, QuietStep
<1>6. CASE Check(r)
  <2>1. HandKept(r)
    BY <1>6, CheckKeeps DEF Check, HandKept
  <2>2. CallKept(r)
    BY <1>6 DEF Check, HeaderInv, CallKept
  <2>3. WorkersKept
    BY <1>6 DEF Check, HeaderInv, WorkersKept
  <2>. QED  BY <2>1, <2>2, <2>3, QuietStep
<1>. QED  BY <1>1, <1>2, <1>3, <1>4, <1>5, <1>6 DEF WorkerStep

\* Whatever races on the store, every step keeps the invariant.
LEMMA HeaderStep == HeaderInv /\ [Next]_vars => HeaderInv'
<1>. SUFFICES ASSUME HeaderInv, [Next]_vars PROVE HeaderInv'
  OBVIOUS
<1>1. CASE UNCHANGED vars
  <2>1. log' = log /\ hand' = hand /\ call' = call /\ worker' = worker
    BY <1>1 DEF vars, logVars
  <2>. QED  BY <2>1 DEF HeaderInv, WorkerOK, HandOK, CallOK, HasHeader, Exists, Stored
<1>. QED  BY <1>1, ServerInv, WorkerInv DEF Next

\* The scope a run was created with is the scope later calls are held to.
THEOREM HeaderIsStable == Spec => []HeaderStable
<1>1. HeaderInv => HeaderStable
  BY DEF HeaderInv, HeaderStable, Stored
<1>. QED  BY <1>1, HeaderInitInv, HeaderStep, PTL DEF Spec

-----------------------------------------------------------------------------
(* The end of a run *)

\* What an append adds once the run is running.
Closing == {Turn(st, sid) : st \in Outcome \cup {"failed"}, sid \in BOOLEAN}
           \cup {Submitted(k, p) : k \in Key, p \in Payload}

Creating(s, r) == call[s].at \in {"header", "saved", "running", "start"} /\ call[s].run = r

\* Only the server that creates a run writes its header and run.running.
HandFrom(w) ==
  hand[w] # Free => \/ hand[w].event \in Closing
                    \/ w \in Server /\ Creating(w, hand[w].session)

\* The first append of a creation is of run.created behind the only event.
HeaderHand(s) ==
  call[s].at = "header" =>
    /\ hand[s].event = RunCreated
    /\ hand[s].at = "check" => hand[s].expected = 0
    /\ hand[s].at = "save" => Len(hand[s].doc) = 1

CreatorOK(s) ==
  /\ \A r \in Session : Creating(s, r) => Exists(r) /\ worker[r] = "none" /\ owner[r] = s
  /\ call[s].at = "found" => call[s].event \in Closing
  /\ HeaderHand(s)

WorkerHand(r) ==
  /\ worker[r] # "none" => Exists(r)
  /\ hand[r] # Free => worker[r] \in {"result", "error"} /\ hand[r].session = r

\* While a run says "running" nobody has appended behind its worker's back, so
\* its worker meets no conflict.
Fresh(r) ==
  Status(r) = "running" =>
    \/ worker[r] \in {"invoke", "retry"}
    \/ worker[r] \in {"result", "error"} /\ (hand[r].at = "check" => Agrees(r))
    \/ worker[r] = "none" /\ \E s \in Server : Starting(s, r)
    \/ worker[r] \in {"none", "over"} /\ r \in stranded

CallRecord == [at: {"idle", "create", "header", "saved", "running", "start", "invoke", "turn",
                    "found", "submit"},
               run: Session \cup {NoSession}, issue: Issue \cup {NoIssue},
               event: Event \cup {NoEvent}]

EndInv ==
  /\ DOMAIN owner = Session /\ call \in [Server -> CallRecord]
  /\ \A w \in Writer : HandFrom(w)
  /\ \A s \in Server : CreatorOK(s)
  /\ \A r \in Session : WorkerHand(r) /\ Fresh(r)

LEMMA ClosingEvents ==
  /\ Closing \subseteq Event
  /\ \A st \in Outcome \cup {"failed"}, sid \in BOOLEAN : Turn(st, sid) \in Closing
  /\ \A k \in Key, p \in Payload : Submitted(k, p) \in Closing
  /\ \A e \in Closing : \/ e.type = "run.engine_turn" /\ e.status \in Outcome \cup {"failed"}
                        \/ e.type = "run.review_submitted"
<1>1. Closing \subseteq Event
  BY EventTypes DEF Closing
<1>2. \A st \in Outcome \cup {"failed"}, sid \in BOOLEAN :
        Turn(st, sid).type = "run.engine_turn" /\ Turn(st, sid).status = st
  BY DEF Turn
<1>3. \A k \in Key, p \in Payload : Submitted(k, p).type = "run.review_submitted"
  BY DEF Submitted
<1>. QED  BY <1>1, <1>2, <1>3 DEF Closing

\* The last event of its kind is the one just appended.
LEMMA LastAppended ==
  ASSUME NEW doc \in Seq(Event), NEW e \in Event, NEW types, e.type \in types
  PROVE  Of(Append(doc, e), types) # {} /\ LastOf(Append(doc, e), types) = e
<1>. DEFINE d == Append(doc, e)
            n == Len(doc) + 1
            Highest(x) == \A m \in Of(d, types) : m <= x
<1>1. d \in Seq(Event) /\ Len(d) = n /\ n \in Nat /\ d[n] = e /\ DOMAIN d = 1..n
  OBVIOUS
<1>2. n \in Of(d, types) /\ Of(d, types) \subseteq 1..n
  BY <1>1 DEF Of
<1>3. Highest(n)
  BY <1>1, <1>2
<1>4. \A x \in Of(d, types) : Highest(x) => x = n
  BY <1>1, <1>2
<1>5. (CHOOSE x \in Of(d, types) : Highest(x)) = n
  BY <1>2, <1>3, <1>4
<1>. QED  BY <1>1, <1>2, <1>5 DEF LastOf

\* A run that a turn or a submission was appended to does not say "running".
LEMMA ClosingStatus ==
  ASSUME NEW doc \in Seq(Event), NEW e \in Closing
  PROVE  _last_run_status(Append(doc, e)) \in Outcome \cup {"failed", "review_submitted"}
<1>. DEFINE kinds == {"run.running", "run.engine_turn", "run.review_submitted"}
<1>1. e \in Event /\ e.type \in kinds /\ e.type # "run.running"
      /\ (e.type = "run.engine_turn" => e.status \in Outcome \cup {"failed"})
  BY ClosingEvents
<1>2. Of(Append(doc, e), kinds) # {} /\ LastOf(Append(doc, e), kinds) = e
  BY <1>1, LastAppended
<1>. QED  BY <1>1, <1>2 DEF _last_run_status

LEMMA ClosedIsNotRunning ==
  ASSUME NEW doc \in Seq(Event), NEW e \in Closing
  PROVE  _last_run_status(Append(doc, e)) # "running"
BY ClosingStatus, LifecycleAssumption

-----------------------------------------------------------------------------
(* What a step can move *)

LEMMA CallMoves ==
  ASSUME HeaderInv, [Next]_vars, NEW s \in Server
  PROVE  call'[s] = call[s] \/ ServerStep(s)
<1>1. DOMAIN call = Server
  BY DEF HeaderInv
<1>2. ASSUME NEW t \in Server, t # s, ServerStep(t) PROVE call'[s] = call[s]
  BY <1>1, <1>2 DEF ServerStep, HeaderSaved, AppendRunning, RunningSaved, ResumeReturns, ResumeSaved,
     SubmitLoad, SubmitSaved, CallConflict, AppendError, StartWorker, Check, Crash, CreateScan, CreateSession, Resume, Submit
<1>3. ASSUME NEW r \in Session, WorkerStep(r) PROVE call'[s] = call[s]
  BY <1>3 DEF WorkerStep, WorkerReturns, WorkerSaved, WorkerConflict, WorkerRetry, WorkerDies, AppendError, Check
<1>. QED  BY <1>2, <1>3 DEF Next, vars

\* Nobody else moves the append of a server, not even a crash.
LEMMA OtherHand ==
  ASSUME HeaderInv, NEW s \in Server
  PROVE  /\ \A t \in Server \ {s} : ServerStep(t) => hand'[s] = hand[s]
         /\ \A r \in Session : WorkerStep(r) => hand'[s] = hand[s]
<1>1. DOMAIN hand = Writer /\ s \in Writer /\ \A r \in Session : r # s
  BY Writers DEF HeaderInv
<1>2. ASSUME NEW v, v # s, \/ \E r, n, e : BeginAppend(v, r, n, e) \/ AppendTurn(v, r, e)
                           \/ CheckAppend(v) \/ ConflictAppend(v) \/ FailAppend(v) \/ SaveAppend(v)
      PROVE  hand'[s] = hand[s]
  BY <1>1, <1>2 DEF BeginAppend, AppendTurn, CheckAppend, ConflictAppend, FailAppend, SaveAppend
<1>3. ASSUME NEW t \in Server \ {s}, ServerStep(t) PROVE hand'[s] = hand[s]
  <2>1. CASE Crash(t)
    BY <1>1, <2>1 DEF Crash, Owned
  <2>2. CASE UNCHANGED hand
    BY <2>2
  <2>. QED  BY <1>2, <1>3, <2>1, <2>2
       DEF ServerStep, HeaderSaved, AppendRunning, RunningSaved, StartWorker, ResumeReturns,
           ResumeSaved, SubmitLoad, SubmitSaved, CallConflict, AppendError, Check, CreateScan,
           CreateSession, Resume, Submit, logVars
<1>4. ASSUME NEW r \in Session, WorkerStep(r) PROVE hand'[s] = hand[s]
  BY <1>1, <1>2, <1>4 DEF WorkerStep, WorkerReturns, WorkerSaved, WorkerConflict, WorkerRetry,
                          WorkerDies, AppendError, Check
<1>. QED  BY <1>3, <1>4

\* Only its writer moves an append, unless its server dies.
LEMMA HandMoves ==
  ASSUME HeaderInv, [Next]_vars, NEW w \in Writer
  PROVE  \/ hand'[w] = hand[w] \/ hand'[w] = Free
         \/ w \in Server /\ ServerStep(w)
         \/ w \in Session /\ WorkerStep(w)
<1>1. DOMAIN hand = Writer
  BY DEF HeaderInv
<1>2. ASSUME NEW v, v # w, \/ \E r, n, e : BeginAppend(v, r, n, e) \/ AppendTurn(v, r, e)
                           \/ CheckAppend(v) \/ ConflictAppend(v) \/ FailAppend(v) \/ SaveAppend(v)
      PROVE  hand'[w] = hand[w]
  BY <1>1, <1>2 DEF BeginAppend, AppendTurn, CheckAppend, ConflictAppend, FailAppend, SaveAppend
<1>3. ASSUME NEW s \in Server, s # w, ServerStep(s) PROVE hand'[w] = hand[w] \/ hand'[w] = Free
  <2>1. CASE Crash(s)
    BY <2>1 DEF Crash
  <2>2. CASE UNCHANGED hand
    BY <2>2
  <2>. QED  BY <1>2, <1>3, <2>1, <2>2
       DEF ServerStep, HeaderSaved, AppendRunning, RunningSaved, ResumeReturns, ResumeSaved,
           SubmitLoad, SubmitSaved, CallConflict, AppendError, StartWorker, Check, CreateScan, CreateSession, Resume, Submit,
           logVars
<1>4. ASSUME NEW r \in Session, r # w, WorkerStep(r) PROVE hand'[w] = hand[w]
  BY <1>2, <1>4 DEF WorkerStep, WorkerReturns, WorkerSaved, WorkerConflict, WorkerRetry, WorkerDies, AppendError,
                    Check
<1>. QED  BY <1>3, <1>4 DEF Next, vars, logVars

\* A session changes when it is created and when an append to it is saved.
LEMMA LogMoves ==
  ASSUME HeaderInv, [Next]_vars, NEW r \in Session
  PROVE  \/ log'[r] = log[r]
         \/ \E s \in Server : CreateSession(s, r)
         \/ \E w \in Writer : SaveAppend(w) /\ hand[w].session = r /\ log'[r] = Written(w)
<1>1. log \in [Session -> Seq(Event)]
  BY DEF HeaderInv
<1>2. ASSUME NEW w \in Writer, SaveAppend(w)
      PROVE  log'[r] = log[r] \/ (hand[w].session = r /\ log'[r] = Written(w))
  BY <1>1, <1>2 DEF SaveAppend
<1>3. ASSUME NEW s \in Server, NEW q \in Session, q # r, CreateSession(s, q)
      PROVE  log'[r] = log[r]
  BY <1>1, <1>3 DEF CreateSession, create
<1>4. ASSUME NEW s \in Server, ServerStep(s)
      PROVE  UNCHANGED log \/ SaveAppend(s) \/ \E q \in Session : CreateSession(s, q)
  BY <1>4 DEF ServerStep, HeaderSaved, AppendRunning, RunningSaved, ResumeReturns, ResumeSaved,
     SubmitLoad, SubmitSaved, CallConflict, AppendError, StartWorker, ConflictAppend, FailAppend, Check, CheckAppend, Crash, CreateScan,
     Resume, Submit, AppendTurn, logVars
<1>5. ASSUME NEW q \in Session, WorkerStep(q) PROVE UNCHANGED log \/ SaveAppend(q)
  BY <1>5 DEF WorkerStep, WorkerReturns, WorkerSaved, WorkerConflict, WorkerRetry, WorkerDies, AppendError, Check,
     CheckAppend, ConflictAppend, FailAppend, AppendTurn
<1>. QED  BY <1>2, <1>3, <1>4, <1>5, Writers DEF Next, vars, logVars

\* A server's append is saved by a step of that server.
LEMMA SavedByItself ==
  ASSUME HeaderInv, [Next]_vars, NEW s \in Server, SaveAppend(s)
  PROVE  ServerStep(s)
<1>1. hand'[s] # hand[s]
  BY Writers DEF SaveAppend, HeaderInv, Free
<1>. QED  BY <1>1, OtherHand DEF Next, vars, logVars

LEMMA ExistsStays ==
  ASSUME HeaderInv, [Next]_vars, NEW r \in Session, Exists(r)
  PROVE  Exists(r)' /\ ~\E s \in Server : CreateSession(s, r)
<1>1. ~\E s \in Server : CreateSession(s, r)
  BY DEF CreateSession, create
<1>2. ASSUME NEW w \in Writer, SaveAppend(w) PROVE Written(w) # <<>>
  BY <1>2, SavedIsStored DEF HeaderInv, SaveAppend, Stored
<1>. QED  BY <1>1, <1>2, LogMoves DEF Exists

\* A run's worker is moved by itself, by the server that starts it and by the
\* crash of that server.
LEMMA WorkerMoves ==
  ASSUME HeaderInv, [Next]_vars, NEW r \in Session
  PROVE  \/ worker'[r] = worker[r] /\ hand'[r] = hand[r]
         \/ WorkerStep(r)
         \/ \E s \in Server : StartWorker(s) /\ call[s].run = r /\ worker'[r] = "invoke"
                              /\ hand'[r] = hand[r]
         \/ \E s \in Server : Crash(s) /\ r \in Owned(s)
<1>1. DOMAIN hand = Writer /\ DOMAIN worker = Session /\ r \in Writer /\ \A s \in Server : r # s
  BY Writers DEF HeaderInv
<1>2. ASSUME NEW v, v # r, \/ \E q, n, e : BeginAppend(v, q, n, e) \/ AppendTurn(v, q, e)
                           \/ CheckAppend(v) \/ ConflictAppend(v) \/ FailAppend(v) \/ SaveAppend(v)
      PROVE  hand'[r] = hand[r]
  BY <1>1, <1>2 DEF BeginAppend, AppendTurn, CheckAppend, ConflictAppend, FailAppend, SaveAppend
<1>3. ASSUME NEW s \in Server, StartWorker(s)
      PROVE  /\ hand'[r] = hand[r]
             /\ worker'[r] = worker[r] \/ (call[s].run = r /\ worker'[r] = "invoke")
  BY <1>1, <1>3 DEF StartWorker, logVars
<1>4. ASSUME NEW s \in Server, Crash(s), r \notin Owned(s)
      PROVE  worker'[r] = worker[r] /\ hand'[r] = hand[r]
  BY <1>1, <1>4 DEF Crash
<1>5. ASSUME NEW s \in Server, ServerStep(s), ~StartWorker(s), ~Crash(s)
      PROVE  worker'[r] = worker[r] /\ hand'[r] = hand[r]
  BY <1>1, <1>2, <1>5
     DEF ServerStep, HeaderSaved, AppendRunning, RunningSaved, ResumeReturns, ResumeSaved,
         SubmitLoad, SubmitSaved, CallConflict, AppendError, Check, CreateScan, CreateSession, Resume, Submit,
         logVars
<1>6. ASSUME NEW q \in Session, q # r, WorkerStep(q)
      PROVE  worker'[r] = worker[r] /\ hand'[r] = hand[r]
  BY <1>1, <1>2, <1>6
     DEF WorkerStep, WorkerReturns, WorkerSaved, WorkerConflict, WorkerRetry, WorkerDies, AppendError, Check
<1>. QED  BY <1>3, <1>4, <1>5, <1>6 DEF Next, vars, logVars

LEMMA OwnerDomain ==
  ASSUME EndInv, [Next]_vars
  PROVE  DOMAIN owner' = Session /\ stranded \subseteq stranded'
<1>1. DOMAIN owner = Session
  BY DEF EndInv
<1>2. ASSUME NEW s \in Server, ServerStep(s)
      PROVE  DOMAIN owner' = Session /\ stranded \subseteq stranded'
  BY <1>1, <1>2 DEF ServerStep, HeaderSaved, AppendRunning, RunningSaved, ResumeReturns, ResumeSaved,
     SubmitLoad, SubmitSaved, CallConflict, AppendError, StartWorker, Check, Crash, CreateScan, CreateSession, Resume, Submit
<1>3. ASSUME NEW q \in Session, WorkerStep(q) PROVE owner' = owner /\ stranded \subseteq stranded'
  BY <1>3 DEF WorkerStep, WorkerReturns, WorkerSaved, WorkerConflict, WorkerRetry, WorkerDies, AppendError, Check
<1>. QED  BY <1>1, <1>2, <1>3 DEF Next, vars

LEMMA OwnerMoves ==
  ASSUME EndInv, [Next]_vars, NEW r \in Session
  PROVE  owner'[r] = owner[r] \/ \E s \in Server : CreateSession(s, r) /\ owner'[r] = s
<1>1. DOMAIN owner = Session
  BY DEF EndInv
<1>2. ASSUME NEW s \in Server, NEW q \in Session, CreateSession(s, q)
      PROVE  owner'[r] = owner[r] \/ (q = r /\ owner'[r] = s)
  BY <1>1, <1>2 DEF CreateSession
<1>3. ASSUME NEW s \in Server, ServerStep(s), \A q \in Session : ~CreateSession(s, q)
      PROVE  UNCHANGED owner
  BY <1>3 DEF ServerStep, HeaderSaved, AppendRunning, RunningSaved, ResumeReturns, ResumeSaved,
     SubmitLoad, SubmitSaved, CallConflict, AppendError, StartWorker, Check, Crash, CreateScan, Resume, Submit
<1>4. ASSUME NEW q \in Session, WorkerStep(q) PROVE UNCHANGED owner
  BY <1>4 DEF WorkerStep, WorkerReturns, WorkerSaved, WorkerConflict, WorkerRetry, WorkerDies, AppendError, Check
<1>. QED  BY <1>1, <1>2, <1>3, <1>4 DEF Next, vars

\* What a server's step makes of its call.
CallStep(s) ==
  \/ call'[s] = call[s] \/ call'[s] = Idle
  \/ \E i \in Issue : CreateScan(s, i) /\ call'[s].at = "create" /\ call'[s].issue = i
  \/ \E r \in Session : CreateSession(s, r) /\ call'[s].at = "header" /\ call'[s].run = r
  \/ /\ call[s].at \in {"header", "saved", "running"} /\ call'[s].run = call[s].run
     /\ call'[s].at \in {"saved", "running", "start"}
  \/ call[s] = Idle /\ call'[s].at = "found" /\ call'[s].event \in Closing
  \/ call'[s].at \in {"invoke", "turn", "submit"}

LEMMA CallSteps ==
  ASSUME HeaderInv, EndInv, NEW s \in Server, ServerStep(s)
  PROVE  CallStep(s) /\ call' \in [Server -> CallRecord]
<1>. USE DEF CallStep
<1>. DEFINE Goal == CallStep(s) /\ call' \in [Server -> CallRecord]
<1>0. call \in [Server -> CallRecord] /\ Idle \in CallRecord
  BY DEF EndInv, CallRecord, Idle
<1>1. CASE UNCHANGED call
  BY <1>0, <1>1
<1>2. CASE call' = [call EXCEPT ![s] = Idle]
  BY <1>0, <1>2
<1>3. ASSUME NEW i \in Issue, CreateScan(s, i) PROVE Goal
  BY <1>0, <1>3 DEF CreateScan, CallRecord
<1>4. ASSUME NEW r \in Session, CreateSession(s, r) PROVE Goal
  <2>1. call' = [call EXCEPT ![s].at = "header", ![s].run = r]
    BY <1>4 DEF CreateSession
  <2>2. call'[s].at = "header" /\ call'[s].run = r /\ call' \in [Server -> CallRecord]
    BY <1>0, <2>1 DEF CallRecord
  <2>. QED  BY <1>4, <2>2
<1>5. CASE HeaderSaved(s)
  BY <1>0, <1>5 DEF HeaderSaved, CallRecord
<1>6. CASE AppendRunning(s) \/ RunningSaved(s)
  BY <1>0, <1>6 DEF AppendRunning, RunningSaved, CallRecord
<1>7. ASSUME NEW r \in Session, Resume(s, r) PROVE Goal
  BY <1>0, <1>7 DEF Resume, CallRecord
<1>8. ASSUME NEW r \in Session, NEW k \in Key, NEW p \in Payload, Submit(s, r, k, p) PROVE Goal
  <2>1. Submitted(k, p) \in Event /\ Submitted(k, p) \in Closing
    BY ClosingEvents
  <2>2. call' = [call EXCEPT ![s].at = "found", ![s].run = r, ![s].event = Submitted(k, p)]
        /\ call[s] = Idle
    BY <1>8 DEF Submit
  <2>. QED  BY <1>0, <2>1, <2>2 DEF CallRecord
<1>9. CASE ResumeReturns(s)
  BY <1>0, <1>9 DEF ResumeReturns, CallRecord
<1>10. CASE SubmitLoad(s)
  BY <1>0, <1>10 DEF SubmitLoad, CallRecord
<1>. QED  BY <1>1, <1>2, <1>3, <1>4, <1>5, <1>6, <1>7, <1>8, <1>9, <1>10
     DEF ServerStep, StartWorker, ResumeSaved, SubmitSaved, CallConflict, Check, Crash

LEMMA EndInit == Init => EndInv
<1>. SUFFICES ASSUME Init PROVE EndInv
  OBVIOUS
<1>1. /\ \A w \in Writer : hand[w] = Free
      /\ \A s \in Server : call[s] = Idle
      /\ \A r \in Session : worker[r] = "none" /\ hand[r] = Free
      /\ DOMAIN owner = Session /\ call \in [Server -> CallRecord]
  BY Writers DEF Init, LogInit, Idle, CallRecord
<1>2. \A r \in Session : Of(log[r], {"run.running", "run.engine_turn", "run.review_submitted"}) = {}
  <2>1. \A r \in Session : log[r] = <<>>
    BY DEF Init, LogInit
  <2>2. DOMAIN <<>> = {}
    OBVIOUS
  <2>. QED  BY <2>1, <2>2 DEF Of
<1>3. \A r \in Session : Status(r) # "running"
  BY <1>2 DEF Status, _last_run_status
<1>. QED  BY <1>1, <1>3 DEF EndInv, HandFrom, CreatorOK, HeaderHand, Creating, WorkerHand, Fresh, Idle

LEMMA CallUntouched ==
  ASSUME NEW r \in Session, WorkerStep(r)
  PROVE  UNCHANGED call
BY DEF WorkerStep, WorkerReturns, WorkerSaved, WorkerConflict, WorkerRetry, WorkerDies, AppendError, Check

\* The append a server or a worker begins is its own, and checking keeps it.
LEMMA HandFromStep ==
  ASSUME HeaderInv, EndInv, [Next]_vars, NEW w \in Writer
  PROVE  HandFrom(w)'
<1>1. /\ DOMAIN hand = Writer /\ DOMAIN call = Server /\ HandFrom(w)
      /\ w \in Server => CreatorOK(w) /\ CallOK(w)
  BY DEF HeaderInv, EndInv
<1>2. ASSUME w \in Server, ServerStep(w) PROVE HandFrom(w)'
  <2>1. CASE UNCHANGED hand /\ call[w] = Idle
    BY <1>1, <2>1 DEF HandFrom, Creating, Idle
  <2>2. CASE hand'[w] = Free
    BY <2>2 DEF HandFrom
  <2>3. ASSUME NEW r \in Session, CreateSession(w, r) PROVE HandFrom(w)'
    BY <1>1, <1>2, <2>3 DEF CreateSession, BeginAppend, HandFrom, Creating
  <2>4. CASE AppendRunning(w)
    BY <1>1, <1>2, <2>4 DEF AppendRunning, BeginAppend, HandFrom, Creating
  <2>5. ASSUME NEW r, NEW e \in Closing, AppendTurn(w, r, e) PROVE HandFrom(w)'
    BY <1>1, <2>5 DEF AppendTurn, BeginAppend, HandFrom
  <2>6. CASE ResumeReturns(w)
    BY <2>5, <2>6, ClosingEvents DEF ResumeReturns
  <2>7. CASE SubmitLoad(w)
    BY <1>1, <1>2, <2>5, <2>7 DEF SubmitLoad, CreatorOK
  <2>8. CASE Check(w)
    BY <1>1, <2>8 DEF Check, CheckAppend, HandFrom, Creating, HeaderInv, HandOK, Free
  <2>9. ASSUME SaveAppend(w) \/ ConflictAppend(w) \/ FailAppend(w) \/ Crash(w) PROVE hand'[w] = Free
    BY <1>1, <2>9 DEF SaveAppend, ConflictAppend, FailAppend, Crash
  <2>10. CASE StartWorker(w)
    BY <1>1, <1>2, <2>2, <2>10 DEF StartWorker, CallOK, logVars
  <2>11. CASE CallConflict(w)
    <3>1. CASE AppendError(w)
      BY <2>2, <2>9, <3>1 DEF AppendError
    <3>2. CASE call[w].at = "create" /\ UNCHANGED logVars
      BY <1>1, <3>2 DEF HandFrom, Creating, logVars
    <3>. QED  BY <2>11, <3>1, <3>2 DEF CallConflict
  <2>. QED  BY <1>2, <2>1, <2>2, <2>3, <2>4, <2>6, <2>7, <2>8, <2>9, <2>10, <2>11
       DEF ServerStep, HeaderSaved, RunningSaved, ResumeSaved, SubmitSaved, CreateScan, Resume,
           Submit, logVars
<1>3. ASSUME w \in Session, WorkerStep(w) PROVE HandFrom(w)'
  <2>1. ASSUME NEW r, NEW e \in Closing, AppendTurn(w, r, e) PROVE HandFrom(w)'
    BY <1>1, <2>1 DEF AppendTurn, BeginAppend, HandFrom
  <2>2. CASE WorkerReturns(w) \/ WorkerRetry(w)
    BY <2>1, <2>2, ClosingEvents DEF WorkerReturns, WorkerRetry
  <2>3. CASE Check(w)
    BY <1>1, <1>3, <2>3 DEF Check, CheckAppend, HandFrom, Creating, HeaderInv, HandOK, Free
  <2>4. ASSUME SaveAppend(w) \/ ConflictAppend(w) \/ FailAppend(w) PROVE hand'[w] = Free
    BY <1>1, <2>4 DEF SaveAppend, ConflictAppend, FailAppend
  <2>. QED  BY <1>3, <2>2, <2>3, <2>4
       DEF WorkerStep, WorkerSaved, WorkerConflict, WorkerDies, AppendError, HandFrom
<1>4. CASE hand'[w] = Free
  BY <1>4 DEF HandFrom
<1>5. CASE hand'[w] = hand[w] /\ ~(w \in Server /\ ServerStep(w))
  BY <1>1, <1>5, CallMoves DEF HandFrom, Creating
<1>. QED  BY <1>2, <1>3, <1>4, <1>5, HandMoves

\* A run whose worker has a name on disk is past its creation.
LEMMA CreatingMoves ==
  ASSUME HeaderInv, EndInv, [Next]_vars, NEW s \in Server, NEW r \in Session, Creating(s, r)'
  PROVE  (Creating(s, r) /\ ~StartWorker(s)) \/ CreateSession(s, r)
<1>1. StartWorker(s) => call'[s] = Idle
  BY DEF StartWorker, EndInv
<1>2. ~StartWorker(s)
  BY <1>1 DEF Creating, Idle
<1>. QED  BY <1>2, CallMoves, CallSteps DEF CallStep, Creating, Idle

LEMMA WorkerActs ==
  ASSUME NEW r \in Session, WorkerHand(r), WorkerStep(r)
  PROVE  worker[r] # "none"
<1>1. hand[r].at \in {"check", "save"} => worker[r] # "none"
  BY DEF WorkerHand, Free
<1>2. CASE WorkerReturns(r) \/ WorkerConflict(r) \/ WorkerRetry(r) \/ WorkerDies(r)
  BY <1>2 DEF WorkerReturns, WorkerConflict, WorkerRetry, WorkerDies
<1>3. CASE WorkerSaved(r) \/ Check(r)
  BY <1>1, <1>3 DEF WorkerSaved, Check, SaveAppend, CheckAppend
<1>. QED  BY <1>2, <1>3 DEF WorkerStep

\* Nothing but its check moves the header's append while it is the server's.
LEMMA HeaderHandStep ==
  ASSUME HeaderInv, EndInv, [Next]_vars, NEW s \in Server
  PROVE  HeaderHand(s)'
<1>1. /\ DOMAIN call = Server /\ DOMAIN hand = Writer /\ s \in Writer /\ HeaderHand(s)
      /\ HandOK(s) /\ CallOK(s) /\ call \in [Server -> CallRecord]
  BY Writers DEF HeaderInv, EndInv, CreatorOK
<1>2. SUFFICES ASSUME call'[s].at = "header" PROVE HeaderHand(s)'
  BY DEF HeaderHand
<1>3. ASSUME NEW r \in Session, CreateSession(s, r) PROVE HeaderHand(s)'
  BY <1>1, <1>3 DEF CreateSession, BeginAppend, HeaderHand
<1>4. CASE Check(s)
  <2>1. /\ hand[s].at = "check" /\ latest_sequence(log[hand[s].session]) = hand[s].expected
        /\ hand' = [hand EXCEPT ![s].at = "save", ![s].doc = log[hand[s].session]]
        /\ call' = call
    BY <1>4 DEF Check, CheckAppend, Agrees
  <2>2. hand[s] \in Hand /\ hand[s].session \in Session
    BY <1>1, <2>1 DEF HandOK, Free
  <2>3. /\ hand'[s].at = "save" /\ hand'[s].doc = log[hand[s].session]
        /\ hand'[s].event = hand[s].event
    BY <1>1, <2>1, <2>2 DEF Hand
  <2>4. hand[s].event = RunCreated /\ hand[s].expected = 0
    BY <1>1, <1>2, <2>1 DEF HeaderHand
  <2>5. Len(log[hand[s].session]) = 1
    BY <2>1, <2>2, <2>4 DEF latest_sequence, HeaderInv
  <2>. QED  BY <2>3, <2>4, <2>5 DEF HeaderHand
<1>5. CASE call'[s] = call[s] /\ hand'[s] = hand[s]
  BY <1>1, <1>5 DEF HeaderHand
<1>6. CASE hand'[s] = Free /\ call'[s] = call[s] /\ ~ServerStep(s)
  <2>1. \A t \in Server \ {s} : ServerStep(t) => hand'[s] = hand[s]
    BY <1>1, OtherHand
  <2>2. \A r \in Session : WorkerStep(r) => hand'[s] = hand[s]
    BY <1>1, Writers, OtherHand
  <2>. QED  BY <1>5, <1>6, <2>1, <2>2 DEF Next, vars, logVars
<1>7. CASE ServerStep(s)
  <2>1. call'[s] = call[s] \/ \E r \in Session : CreateSession(s, r)
    BY <1>2, <1>7, CallSteps DEF CallStep, Idle
  <2>2. ASSUME call'[s] = call[s] PROVE Check(s)
    <3>1. call[s].at = "header" /\ call'[s] # Idle
      BY <1>2, <2>2 DEF Idle
    <3>2. ~HeaderSaved(s)
      <4>1. HeaderSaved(s) => call'[s].at = "saved"
        BY <1>1 DEF HeaderSaved, CallRecord
      <4>. QED  BY <1>2, <4>1
    <3>3. ~CallConflict(s) /\ ~Crash(s)
      BY <1>1, <3>1 DEF CallConflict, Crash
    <3>4. call[s] # Idle /\ call[s].at \notin {"idle", "create", "saved", "running", "start",
                                              "invoke", "turn", "found", "submit"}
      BY <3>1 DEF Idle
    <3>5. ~AppendRunning(s) /\ ~RunningSaved(s) /\ ~StartWorker(s) /\ ~ResumeReturns(s)
      BY <3>4 DEF AppendRunning, RunningSaved, StartWorker, ResumeReturns
    <3>6. ~ResumeSaved(s) /\ ~SubmitLoad(s) /\ ~SubmitSaved(s)
      BY <3>4 DEF ResumeSaved, SubmitLoad, SubmitSaved
    <3>7. /\ \A i \in Issue : ~CreateScan(s, i)
          /\ \A r \in Session : ~CreateSession(s, r) /\ ~Resume(s, r)
          /\ \A r \in Session, k \in Key, p \in Payload : ~Submit(s, r, k, p)
      BY <3>4 DEF CreateScan, CreateSession, Resume, Submit
    <3>. QED  BY <1>7, <3>2, <3>3, <3>5, <3>6, <3>7 DEF ServerStep
  <2>. QED  BY <1>3, <1>4, <2>1, <2>2
<1>. QED  BY <1>5, <1>6, <1>7, <1>1, CallMoves, HandMoves, Writers

LEMMA CreatorStep ==
  ASSUME HeaderInv, EndInv, [Next]_vars, NEW s \in Server
  PROVE  CreatorOK(s)'
<1>1. DOMAIN call = Server /\ DOMAIN worker = Session /\ DOMAIN owner = Session
  BY DEF HeaderInv, EndInv
<1>2. ASSUME NEW r \in Session, Creating(s, r)'
      PROVE  Exists(r)' /\ worker'[r] = "none" /\ owner'[r] = s
  <2>1. CASE CreateSession(s, r)
    <3>1. worker[r] = "none"
      BY <2>1 DEF EndInv, WorkerHand, CreateSession, create
    <3>2. log[r] \in Seq(Event) /\ log'[r] = <<Created(call[s].issue)>>
      BY <2>1 DEF CreateSession, create, HeaderInv
    <3>. QED  BY <1>1, <2>1, <3>1, <3>2 DEF CreateSession, Exists
  <2>2. CASE Creating(s, r) /\ ~StartWorker(s)
    <3>1. Exists(r) /\ worker[r] = "none" /\ owner[r] = s
      BY <2>2 DEF EndInv, CreatorOK
    <3>2. ~WorkerStep(r)
      BY <3>1, WorkerActs DEF EndInv
    <3>3. ASSUME NEW t \in Server, StartWorker(t), call[t].run = r PROVE FALSE
      BY <2>2, <3>1, <3>3 DEF EndInv, CreatorOK, Creating, StartWorker
    <3>4. \A t \in Server : r \notin Owned(t)
      BY <3>1 DEF Owned
    <3>. QED  BY <3>1, <3>2, <3>3, <3>4, WorkerMoves, OwnerMoves, ExistsStays
  <2>. QED  BY <1>2, <2>1, <2>2, CreatingMoves
<1>3. call'[s].at = "found" => call'[s].event \in Closing
  BY CallMoves, CallSteps DEF CallStep, EndInv, CreatorOK, Idle
<1>. QED  BY <1>2, <1>3, HeaderHandStep DEF CreatorOK

LEMMA WorkerHandStep ==
  ASSUME HeaderInv, EndInv, [Next]_vars, NEW r \in Session
  PROVE  WorkerHand(r)'
<1>1. /\ DOMAIN hand = Writer /\ DOMAIN worker = Session /\ r \in Writer /\ HandOK(r)
      /\ WorkerHand(r)
  BY Writers DEF HeaderInv, EndInv
<1>2. CASE WorkerStep(r)
  <2>1. worker[r] # "none"
    BY <1>1, <1>2, WorkerActs
  <2>2. Exists(r)'
    BY <1>1, <2>1, ExistsStays DEF WorkerHand
  <2>3. ASSUME NEW e, AppendTurn(r, r, e)
        PROVE  hand'[r].session = r
    BY <1>1, <2>3 DEF AppendTurn, BeginAppend
  <2>4. CASE WorkerReturns(r) \/ WorkerRetry(r)
    BY <1>1, <2>2, <2>3, <2>4 DEF WorkerReturns, WorkerRetry, WorkerHand
  <2>5. CASE Check(r)
    BY <1>1, <2>2, <2>5 DEF Check, CheckAppend, WorkerHand, HandOK, Free
  <2>6. ASSUME SaveAppend(r) \/ ConflictAppend(r) \/ FailAppend(r) PROVE WorkerHand(r)'
    BY <1>1, <2>2, <2>6 DEF SaveAppend, ConflictAppend, FailAppend, WorkerHand
  <2>. QED  BY <1>2, <2>4, <2>5, <2>6 DEF WorkerStep, WorkerSaved, WorkerConflict, WorkerDies, AppendError
<1>3. ASSUME NEW s \in Server, StartWorker(s), call[s].run = r, worker'[r] = "invoke",
             hand'[r] = hand[r]
      PROVE  WorkerHand(r)'
  <2>1. worker[r] = "none" /\ Exists(r)
    BY <1>3 DEF EndInv, CreatorOK, Creating, StartWorker
  <2>. QED  BY <1>1, <1>3, <2>1, ExistsStays DEF WorkerHand
<1>4. ASSUME NEW s \in Server, Crash(s), r \in Owned(s) PROVE WorkerHand(r)'
  <2>1. hand'[r] = Free /\ Exists(r)
    BY <1>1, <1>4 DEF Crash, WorkerHand, Owned
  <2>. QED  BY <2>1, <1>4, ExistsStays DEF WorkerHand
<1>5. CASE worker'[r] = worker[r] /\ hand'[r] = hand[r]
  BY <1>1, <1>5, ExistsStays DEF WorkerHand
<1>. QED  BY <1>2, <1>3, <1>4, <1>5, WorkerMoves

\* Neither the creation of a session nor its header makes a run "running".
LEMMA HeaderStatus ==
  ASSUME NEW doc \in Seq(Event),
         \A n \in DOMAIN doc : doc[n].type \in {"session.created", "run.created"}
  PROVE  _last_run_status(doc) # "running"
<1>1. Of(doc, {"run.running", "run.engine_turn", "run.review_submitted"}) = {}
  BY DEF Of
<1>. QED  BY <1>1 DEF _last_run_status

\* A run comes to say "running" by its creator's save and by nothing else.
LEMMA RunningStays ==
  ASSUME HeaderInv, EndInv, [Next]_vars, NEW r \in Session, Status(r)' = "running"
  PROVE  \/ log'[r] = log[r] /\ Status(r) = "running"
         \/ \E s \in Server : RunningSaved(s) /\ Creating(s, r)
<1>1. ASSUME NEW s \in Server, CreateSession(s, r) PROVE FALSE
  <2>1. log'[r] = <<Created(call[s].issue)>> /\ call[s].issue \in Issue
    BY <1>1 DEF CreateSession, create, HeaderInv, CallOK
  <2>2. Created(call[s].issue) \in Event /\ Created(call[s].issue).type = "session.created"
    BY <2>1, EventTypes
  <2>3. log'[r] \in Seq(Event) /\ \A n \in DOMAIN log'[r] : log'[r][n].type = "session.created"
    BY <2>1, <2>2
  <2>. QED  BY <2>3, HeaderStatus DEF Status
<1>2. ASSUME NEW w \in Writer, SaveAppend(w), hand[w].session = r, log'[r] = Written(w),
             log'[r] # log[r]
      PROVE  w \in Server /\ RunningSaved(w) /\ Creating(w, r)
  <2>1. /\ hand[w].doc \in Seq(Event) /\ hand[w].at = "save" /\ hand[w] # Free
        /\ Stored(hand[w].doc)
    BY <1>2 DEF HeaderInv, HandOK, SaveAppend, Stored, Free
  <2>2. hand[w].event \notin Closing
    BY <1>2, <2>1, ClosedIsNotRunning DEF Written, Status
  <2>3. w \in Server /\ Creating(w, r) /\ ServerStep(w) /\ HeaderHand(w)
    BY <1>2, <2>1, <2>2, SavedByItself DEF EndInv, HandFrom, CreatorOK
  <2>4. HeaderSaved(w) \/ RunningSaved(w)
    BY <1>2, <2>1, <2>3
       DEF ServerStep, AppendRunning, StartWorker, ResumeReturns, ResumeSaved, SubmitLoad,
           SubmitSaved, CallConflict, AppendError, ConflictAppend, FailAppend, Check, CheckAppend,
           Crash, CreateScan, CreateSession, Resume, Submit, BeginAppend, AppendTurn, logVars,
           Creating, Idle, Free
  <2>5. ASSUME HeaderSaved(w) PROVE FALSE
    <3>1. Len(hand[w].doc) = 1 /\ hand[w].event = RunCreated
      BY <2>1, <2>3, <2>5 DEF HeaderHand, HeaderSaved
    <3>2. hand[w].doc[1].type = "session.created"
      BY <2>1, EventTypes DEF Stored
    <3>3. Written(w) \in Seq(Event) /\ Len(Written(w)) = 2
          /\ Written(w)[1] = hand[w].doc[1] /\ Written(w)[2] = RunCreated
      <4>. DEFINE d == hand[w].doc
      <4>1. Written(w) = Append(d, RunCreated) /\ RunCreated \in Event /\ Len(d) = 1 /\ d \in Seq(Event)
        BY <2>1, <3>1, EventTypes DEF Written
      <4>. HIDE DEF d
      <4>0. \A x \in Seq(Event), e \in Event :
              /\ Append(x, e) \in Seq(Event) /\ Len(Append(x, e)) = Len(x) + 1
              /\ \A n \in 1..Len(x) : Append(x, e)[n] = x[n]
              /\ Append(x, e)[Len(x) + 1] = e
        OBVIOUS
      <4>2. Written(w) \in Seq(Event) /\ Len(Written(w)) = Len(d) + 1
        BY <4>0, <4>1
      <4>3. \A n \in 1..Len(d) : Append(d, RunCreated)[n] = d[n]
        BY <4>0, <4>1
      <4>4. Append(d, RunCreated)[Len(d) + 1] = RunCreated
        BY <4>0, <4>1, Zenon
      <4>5. 1 \in 1..Len(d) /\ Len(d) + 1 = 2
        BY <4>1
      <4>6. Written(w)[1] = d[1]
        BY <4>1, <4>3, <4>5
      <4>7. Written(w)[2] = RunCreated
        BY <4>1, <4>4, <4>5
      <4>8. Len(Written(w)) = 2
        BY <4>2, <4>5
      <4>. QED  BY <4>2, <4>6, <4>7, <4>8 DEF d
    <3>4. \A n \in DOMAIN Written(w) : Written(w)[n].type \in {"session.created", "run.created"}
      BY <3>2, <3>3, EventTypes
    <3>. QED  BY <1>2, <3>3, <3>4, HeaderStatus DEF Status
  <2>. QED  BY <2>3, <2>4, <2>5
<1>3. log'[r] = log[r] => Status(r) = "running"
  BY DEF Status
<1>. QED  BY <1>1, <1>2, <1>3, LogMoves

LEMMA FreshStep ==
  ASSUME HeaderInv, EndInv, [Next]_vars, NEW r \in Session
  PROVE  Fresh(r)'
<1>1. SUFFICES ASSUME Status(r)' = "running" PROVE Fresh(r)'
  BY DEF Fresh
<1>2. /\ DOMAIN hand = Writer /\ DOMAIN worker = Session /\ r \in Writer /\ HandOK(r)
      /\ WorkerHand(r) /\ Fresh(r) /\ call \in [Server -> CallRecord]
  BY Writers DEF HeaderInv, EndInv
<1>3. ASSUME NEW s \in Server, RunningSaved(s), Creating(s, r) PROVE Fresh(r)'
  <2>1. worker'[r] = "none"
    BY <1>3 DEF RunningSaved, EndInv, CreatorOK
  <2>2. Starting(s, r)'
    BY <1>2, <1>3 DEF RunningSaved, Starting, Creating, CallRecord
  <2>. QED  BY <2>1, <2>2 DEF Fresh
<1>4. SUFFICES ASSUME log'[r] = log[r], Status(r) = "running" PROVE Fresh(r)'
  BY <1>1, <1>3, RunningStays
<1>5. CASE worker'[r] = worker[r] /\ hand'[r] = hand[r]
  <2>1. hand[r].at = "check" => hand[r].session = r
    BY <1>2 DEF WorkerHand, Free
  <2>2. ASSUME NEW s \in Server, Starting(s, r), worker[r] = "none"
        PROVE  Starting(s, r)' \/ r \in stranded'
    <3>1. call[s].at = "start" /\ call[s].run = r /\ hand[s] = Free
      BY <2>2 DEF Starting, HeaderInv, CallOK
    <3>2. CASE StartWorker(s)
      BY <1>2, <1>5, <2>2, <3>1, <3>2 DEF StartWorker
    <3>3. CASE Crash(s)
      BY <2>2, <3>3 DEF Crash
    <3>5. ~CallConflict(s) /\ ~Check(s)
      BY <3>1 DEF CallConflict, AppendError, ConflictAppend, FailAppend, Check, CheckAppend, Free
    <3>6. call[s] # Idle /\ call[s].at \notin {"idle", "create", "header", "saved", "running",
                                              "invoke", "turn", "found", "submit"}
      BY <3>1 DEF Idle
    <3>7. ~HeaderSaved(s) /\ ~AppendRunning(s) /\ ~RunningSaved(s) /\ ~ResumeReturns(s)
      BY <3>6 DEF HeaderSaved, AppendRunning, RunningSaved, ResumeReturns
    <3>8. ~ResumeSaved(s) /\ ~SubmitLoad(s) /\ ~SubmitSaved(s)
      BY <3>6 DEF ResumeSaved, SubmitLoad, SubmitSaved
    <3>9. /\ \A i \in Issue : ~CreateScan(s, i)
          /\ \A q \in Session : ~CreateSession(s, q) /\ ~Resume(s, q)
          /\ \A q \in Session, k \in Key, p \in Payload : ~Submit(s, q, k, p)
      BY <3>6 DEF CreateScan, CreateSession, Resume, Submit
    <3>4. ServerStep(s) => StartWorker(s) \/ Crash(s)
      BY <3>5, <3>7, <3>8, <3>9 DEF ServerStep
    <3>. QED  BY <2>2, <3>2, <3>3, <3>4, CallMoves DEF Starting
  <2>. QED  BY <1>2, <1>4, <1>5, <2>1, <2>2, OwnerDomain DEF Fresh, Agrees
<1>6. CASE WorkerStep(r)
  <2>1. ASSUME NEW e, AppendTurn(r, r, e) PROVE Agrees(r)'
    BY <1>2, <1>4, <2>1 DEF AppendTurn, BeginAppend, Agrees
  <2>2. CASE WorkerReturns(r) \/ WorkerRetry(r)
    BY <1>2, <2>1, <2>2 DEF WorkerReturns, WorkerRetry, Fresh
  <2>3. CASE WorkerConflict(r)
    BY <1>2, <2>3 DEF WorkerConflict, Fresh
  <2>4. CASE WorkerDies(r)
    BY <1>2, <1>4, <2>4 DEF WorkerDies, ConflictAppend, Fresh
  <2>5. ASSUME WorkerSaved(r) PROVE FALSE
    <3>1. hand[r].at = "save" /\ hand[r].session = r /\ log' = [log EXCEPT ![r] = Written(r)]
      <4>1. hand[r].at = "save" /\ log' = [log EXCEPT ![hand[r].session] = Written(r)]
        BY <2>5 DEF WorkerSaved, SaveAppend
      <4>2. hand[r] # Free
        BY <4>1 DEF Free
      <4>. QED  BY <1>2, <4>1, <4>2 DEF WorkerHand
    <3>2. hand[r].event \in Closing /\ hand[r].doc \in Seq(Event)
      BY <1>2, <3>1, Writers DEF EndInv, HandFrom, HandOK, Stored, Free
    <3>3. log'[r] = Written(r)
      BY <3>1 DEF HeaderInv
    <3>. QED  BY <1>1, <3>2, <3>3, ClosedIsNotRunning DEF Status, Written
  <2>6. CASE Check(r)
    <3>1. hand[r] # Free /\ worker' = worker /\ hand'[r].at # "check"
      BY <1>2, <2>6 DEF Check, CheckAppend, Free, HandOK, Hand
    <3>. QED  BY <1>2, <3>1 DEF WorkerHand, Fresh
  <2>. QED  BY <1>6, <2>2, <2>3, <2>4, <2>5, <2>6 DEF WorkerStep
<1>7. ASSUME NEW s \in Server, Crash(s), r \in Owned(s) PROVE Fresh(r)'
  <2>1. worker'[r] = "over" /\ worker[r] # "none"
    BY <1>2, <1>7 DEF Crash, Owned
  <2>2. r \in stranded'
    BY <1>2, <1>4, <1>7, <2>1 DEF Crash, Fresh
  <2>. QED  BY <2>1, <2>2 DEF Fresh
<1>8. ASSUME NEW s \in Server, worker'[r] = "invoke" PROVE Fresh(r)'
  BY <1>8 DEF Fresh
<1>. QED  BY <1>5, <1>6, <1>7, <1>8, WorkerMoves

LEMMA EndStep == HeaderInv /\ EndInv /\ [Next]_vars => EndInv'
<1>. SUFFICES ASSUME HeaderInv, EndInv, [Next]_vars PROVE EndInv'
  OBVIOUS
<1>1. call' \in [Server -> CallRecord]
  BY CallSteps, CallUntouched DEF Next, vars, EndInv
<1>. QED  BY <1>1, OwnerDomain, HandFromStep, CreatorStep, WorkerHandStep, FreshStep DEF EndInv

LEMMA EndInvHolds == Spec => [](HeaderInv /\ EndInv)
<1>. QED  BY HeaderInitInv, HeaderStep, EndInit, EndStep, PTL DEF Spec

\* An ended run blocks its issue only when its server died under it, the disk
\* refused the append of its end, or its thread could not be started: whatever
\* races on its session, the worker of a "running" run meets no conflict, and an
\* append that got in between ends the "running" itself.
THEOREM EndedRunIsNotRunningHolds == Spec => []EndedRunIsNotRunning
<1>1. EndInv => EndedRunIsNotRunning
  BY DEF EndInv, Fresh, EndedRunIsNotRunning
<1>. QED  BY <1>1, EndInvHolds, PTL

-----------------------------------------------------------------------------
(* One active run per issue and server *)

IssueOf(r) == log[r][1].issue

\* The run is active, or its creation will still make it so.
May(r) == Exists(r) /\ (ActiveStatus(Status(r)) \/ Creating(owner[r], r))

SameHead(w) ==
  hand[w].at = "save" => Exists(hand[w].session) /\ hand[w].doc[1] = log[hand[w].session][1]

Scanned(s) ==
  call[s].at = "create" =>
    \A r \in Session : May(r) /\ owner[r] = s => IssueOf(r) # call[s].issue

\* A server's scan saw every run of the issue that it may itself have left active.
OneInv ==
  /\ \A w \in Writer : SameHead(w)
  /\ \A r \in Session : Exists(r) => owner[r] \in Server
  /\ \A r, q \in Session : May(r) /\ May(q) /\ owner[r] = owner[q] /\ IssueOf(r) = IssueOf(q)
                           => r = q
  /\ \A s \in Server : Scanned(s)

\* The first event of a session is never replaced by another.
LEMMA HeadStays ==
  ASSUME HeaderInv, OneInv, [Next]_vars, NEW r \in Session, Exists(r)
  PROVE  log'[r][1] = log[r][1]
<1>1. ASSUME NEW w \in Writer, SaveAppend(w), hand[w].session = r, log'[r] = Written(w)
      PROVE  log'[r][1] = log[r][1]
  <2>1. hand[w].doc[1] = log[r][1] /\ hand[w].doc \in Seq(Event) /\ hand[w].doc # <<>>
    BY <1>1 DEF OneInv, SameHead, HeaderInv, HandOK, Stored, SaveAppend, Free
  <2>. QED  BY <1>1, <2>1 DEF Written
<1>. QED  BY <1>1, LogMoves, ExistsStays

LEMMA SameHeadStep ==
  ASSUME HeaderInv, OneInv, [Next]_vars, NEW w \in Writer
  PROVE  SameHead(w)'
<1>1. DOMAIN hand = Writer /\ SameHead(w) /\ HandOK(w)
  BY DEF HeaderInv, OneInv
<1>2. ASSUME hand'[w] = hand[w], hand[w].at = "save" PROVE SameHead(w)'
  <2>1. hand[w].session \in Session /\ Exists(hand[w].session)
    BY <1>1, <1>2 DEF SameHead, HandOK, Free
  <2>. QED  BY <1>1, <1>2, <2>1, ExistsStays, HeadStays DEF SameHead
<1>3. ASSUME CheckAppend(w) PROVE SameHead(w)'
  <2>1. hand[w].session \in Session /\ hand[w] \in Hand /\ log' = log
        /\ hand' = [hand EXCEPT ![w].at = "save", ![w].doc = log[hand[w].session]]
    BY <1>1, <1>3 DEF CheckAppend, HandOK, Free
  <2>2. hand'[w].doc = log[hand[w].session] /\ hand'[w].session = hand[w].session
    BY <1>1, <2>1 DEF Hand
  <2>3. HandOK(w)'
    BY <1>3, CheckKeeps
  <2>4. hand'[w].at = "save" => hand'[w].doc # <<>>
    BY <2>3 DEF HandOK, Stored, Free
  <2>. QED  BY <2>1, <2>2, <2>4 DEF SameHead, Exists
<1>4. ASSUME hand'[w].at # "save" PROVE SameHead(w)'
  BY <1>4 DEF SameHead
<1>5. ASSUME NEW r, NEW n, NEW e, BeginAppend(w, r, n, e) \/ AppendTurn(w, r, e)
      PROVE  hand'[w].at # "save"
  BY <1>1, <1>5 DEF BeginAppend, AppendTurn
<1>6. ASSUME SaveAppend(w) \/ ConflictAppend(w) \/ FailAppend(w) PROVE hand'[w] = Free
  BY <1>1, <1>6 DEF SaveAppend, ConflictAppend, FailAppend
<1>7. hand'[w] = Free => SameHead(w)'
  BY DEF SameHead, Free
<1>8. ASSUME ServerStep(w), w \in Server PROVE SameHead(w)'
  <2>1. Crash(w) => hand'[w] = Free
    BY <1>1 DEF Crash
  <2>2. UNCHANGED hand => SameHead(w)'
    BY <1>2, <1>4
  <2>. QED  BY <1>3, <1>4, <1>5, <1>6, <1>7, <1>8, <2>1, <2>2
       DEF ServerStep, HeaderSaved, AppendRunning, RunningSaved, ResumeReturns, ResumeSaved,
           SubmitLoad, SubmitSaved, CallConflict, AppendError, StartWorker, Check, CreateScan, CreateSession, Resume, Submit,
           logVars
<1>9. ASSUME WorkerStep(w), w \in Session PROVE SameHead(w)'
  BY <1>3, <1>4, <1>5, <1>6, <1>7, <1>9
     DEF WorkerStep, WorkerReturns, WorkerSaved, WorkerConflict, WorkerRetry, WorkerDies, AppendError, Check
<1>. QED  BY <1>2, <1>4, <1>7, <1>8, <1>9, HandMoves

\* Only a creation makes a run active, if the engines report terminal statuses.
LEMMA MaySteps ==
  ASSUME Outcome \subseteq Terminal, HeaderInv, EndInv, OneInv, [Next]_vars,
         NEW r \in Session, May(r)'
  PROVE  \/ May(r) /\ owner'[r] = owner[r] /\ log'[r][1] = log[r][1]
         \/ \E s \in Server : CreateSession(s, r) /\ owner'[r] = s
<1>1. SUFFICES ASSUME ~\E s \in Server : CreateSession(s, r)
               PROVE  May(r) /\ owner'[r] = owner[r] /\ log'[r][1] = log[r][1]
  BY OwnerMoves DEF CreateSession, EndInv
<1>2. owner'[r] = owner[r]
  BY <1>1, OwnerMoves
<1>3. Exists(r)
  <2>1. ASSUME NEW w \in Writer, SaveAppend(w), hand[w].session = r PROVE Exists(r)
    BY <2>1 DEF OneInv, SameHead, SaveAppend
  <2>. QED  BY <1>1, <2>1, LogMoves DEF May, Exists
<1>4. owner[r] \in Server
  BY <1>3 DEF OneInv
<1>5. Creating(owner[r], r)' => Creating(owner[r], r)
  BY <1>1, <1>2, <1>4, CreatingMoves DEF Creating
<1>6. ASSUME NEW w \in Writer, SaveAppend(w), hand[w].session = r, log'[r] = Written(w),
             ActiveStatus(Status(r))'
      PROVE  Creating(owner[r], r)
  <2>1. hand[w].doc \in Seq(Event) /\ hand[w] # Free
    BY <1>6 DEF HeaderInv, HandOK, SaveAppend, Stored, Free
  <2>2. ASSUME hand[w].event \in Closing PROVE FALSE
    <3>1. _last_run_status(Written(w)) \in Outcome \cup {"failed", "review_submitted"}
      BY <2>1, <2>2, ClosingStatus DEF Written
    <3>. QED  BY <1>6, <3>1 DEF Status, ActiveStatus, Terminal
  <2>3. w \in Server /\ Creating(w, r)
    BY <1>6, <2>1, <2>2 DEF EndInv, HandFrom
  <2>. QED  BY <2>3 DEF EndInv, CreatorOK
<1>7. May(r)
  <2>1. CASE Creating(owner[r], r)'
    BY <1>3, <1>5, <2>1 DEF May
  <2>2. CASE ActiveStatus(Status(r))'
    <3>1. log'[r] = log[r] => ActiveStatus(Status(r))
      BY <2>2 DEF Status
    <3>. QED  BY <1>1, <1>3, <1>6, <2>2, <3>1, LogMoves DEF May
  <2>. QED  BY <1>2, <2>1, <2>2 DEF May, Creating
<1>. QED  BY <1>2, <1>3, <1>7, HeadStays

LEMMA OneStep ==
  ASSUME Outcome \subseteq Terminal, HeaderInv, EndInv, OneInv, [Next]_vars
  PROVE  OneInv'
<1>0. log \in [Session -> Seq(Event)] /\ DOMAIN call = Server /\ DOMAIN owner = Session
  BY DEF HeaderInv, EndInv
<1>1. ASSUME NEW s \in Server, NEW r \in Session, CreateSession(s, r)
      PROVE  /\ IssueOf(r)' = call[s].issue /\ call[s].at = "create"
             /\ call'[s].at = "header" /\ call'[s].run = r /\ owner'[r] = s
             /\ \A q \in Session \ {r} : log'[q] = log[q]
  <2>1. log'[r] = <<Created(call[s].issue)>> /\ \A q \in Session \ {r} : log'[q] = log[q]
    BY <1>0, <1>1 DEF CreateSession, create
  <2>2. call[s] \in CallRecord
    BY DEF EndInv
  <2>3. call'[s].at = "header" /\ call'[s].run = r /\ call[s].at = "create" /\ owner'[r] = s
    BY <1>0, <1>1, <2>2 DEF CreateSession, CallRecord
  <2>. QED  BY <2>1, <2>3 DEF IssueOf, Created
<1>2. ASSUME NEW r \in Session, Exists(r)' PROVE owner'[r] \in Server
  <2>1. ASSUME NEW w \in Writer, SaveAppend(w), hand[w].session = r PROVE Exists(r)
    BY <2>1 DEF OneInv, SameHead, SaveAppend
  <2>2. Exists(r) \/ \E s \in Server : CreateSession(s, r)
    BY <1>2, <2>1, LogMoves DEF Exists
  <2>. QED  BY <1>1, <2>2, OwnerMoves DEF OneInv
<1>3. ASSUME NEW s \in Server, NEW r \in Session, CreateSession(s, r),
             NEW q \in Session, May(q), owner[q] = s, log'[q][1] = log[q][1],
             IssueOf(q)' = IssueOf(r)'
      PROVE  FALSE
  <2>1. IssueOf(q) = call[s].issue /\ call[s].at = "create"
    BY <1>1, <1>3 DEF IssueOf
  <2>. QED  BY <1>3, <2>1 DEF OneInv, Scanned
<1>4. ASSUME NEW r \in Session, NEW q \in Session, May(r)', May(q)', owner'[r] = owner'[q],
             IssueOf(r)' = IssueOf(q)'
      PROVE  r = q
  <2>. DEFINE Kept(x) == May(x) /\ owner'[x] = owner[x] /\ log'[x][1] = log[x][1]
              Made(x) == \E s \in Server : CreateSession(s, x) /\ owner'[x] = s
  <2>1. (Kept(r) \/ Made(r)) /\ (Kept(q) \/ Made(q))
    BY <1>4, MaySteps
  <2>2. CASE Kept(r) /\ Kept(q)
    BY <1>4, <2>2 DEF OneInv, IssueOf
  <2>3. ~(Made(r) /\ Kept(q))
    BY <1>3, <1>4
  <2>4. ~(Made(q) /\ Kept(r))
    BY <1>3, <1>4
  <2>5. CASE Made(r) /\ Made(q)
    <3>1. PICK s \in Server : CreateSession(s, r) /\ owner'[r] = s
      BY <2>5
    <3>2. CreateSession(s, q)
      BY <1>4, <2>5, <3>1
    <3>. QED  BY <1>1, <3>1, <3>2
  <2>. QED  BY <2>1, <2>2, <2>3, <2>4, <2>5
<1>5. ASSUME NEW s \in Server, call'[s].at = "create", NEW r \in Session, May(r)', owner'[r] = s
      PROVE  IssueOf(r)' # call'[s].issue
  <2>1. ~\E t \in Server : CreateSession(t, r) /\ owner'[r] = t
    BY <1>1, <1>5
  <2>2. May(r) /\ owner[r] = s /\ log'[r][1] = log[r][1]
    BY <1>5, <2>1, MaySteps
  <2>3. CASE call'[s] = call[s]
    BY <1>5, <2>2, <2>3 DEF OneInv, Scanned, IssueOf
  <2>4. ASSUME NEW i \in Issue, CreateScan(s, i), call'[s].issue = i
        PROVE  IssueOf(r)' # call'[s].issue
    <3>1. ~Creating(s, r) /\ ActiveRuns(i) = {}
      BY <2>4 DEF CreateScan, Creating, Idle, _active_run_for_issue
    <3>2. Exists(r) /\ ActiveStatus(Status(r))
      BY <2>2, <3>1 DEF May
    <3>. QED  BY <2>2, <2>4, <3>1, <3>2 DEF ActiveRuns, IssueOf
  <2>. QED  BY <1>1, <1>5, <2>3, <2>4, CallMoves, CallSteps DEF CallStep, Idle
<1>. QED  BY <1>2, <1>4, <1>5, SameHeadStep DEF OneInv, Scanned

LEMMA OneInit == Init => OneInv
<1>. SUFFICES ASSUME Init PROVE OneInv
  OBVIOUS
<1>1. /\ \A w \in Writer : hand[w] = Free
      /\ \A s \in Server : call[s] = Idle
      /\ \A r \in Session : ~Exists(r)
  BY DEF Init, LogInit, Exists
<1>. QED  BY <1>1 DEF OneInv, SameHead, May, Scanned, Idle, Free

\* Every active run of an issue was created by another server.
LEMMA OwnersBound ==
  ASSUME OneInv, IsFiniteSet(Server), NEW i \in Issue
  PROVE  Cardinality(ActiveRuns(i)) <= Cardinality(Server)
<1>. DEFINE f == [r \in ActiveRuns(i) |-> owner[r]]
<1>1. \A r \in ActiveRuns(i) : r \in Session /\ May(r) /\ IssueOf(r) = i /\ owner[r] \in Server
  BY DEF ActiveRuns, May, IssueOf, OneInv
<1>2. f \in Injection(ActiveRuns(i), Server)
  BY <1>1 DEF Injection, IsInjective, OneInv
<1>. QED  BY <1>2, FS_Injection

\* An issue has at most one active run per server: a server's own scan sees
\* whatever it created, and no other append makes an ended run active again.
\* The engine adapters (runtime/adapters) report terminal statuses.
THEOREM ActiveRunsBoundedHolds ==
  ASSUME Outcome \subseteq Terminal, IsFiniteSet(Server)
  PROVE  Spec => []ActiveRunsBounded
<1>1. OneInv => ActiveRunsBounded
  BY OwnersBound DEF ActiveRunsBounded
<1>2. HeaderInv /\ EndInv /\ OneInv /\ [Next]_vars => OneInv'
  BY OneStep
<1>. QED  BY <1>1, <1>2, OneInit, EndInvHolds, PTL DEF Spec

=============================================================================
