--------------------------- MODULE Dialogue_proofs ---------------------------
(***************************************************************************)
(* Theorems about Dialogue, for any sessions, request threads, agents,     *)
(* turns and troubles: whatever answers late, dies or is started again,    *)
(* what a session has in memory and what its log says stay in step.        *)
(***************************************************************************)
EXTENDS Dialogue, TLAPS

USE DialogueAssumption

Step == [op : {"idle", "connect", "send", "cancel"},
         at : {"", "check", "count", "stale", "spawn", "record", "register", "start", "remember",
               "launch"},
         s : Chat \cup {NoOne}, t : Turn \cup {NoOne}, c : Conn \cup {NoOne},
         q : RequestId \cup {NoOne}, load : BOOLEAN]

\* The worker is to clear open_turn_id, or ended with an uncaught exception.
Busy == AtWork \cup {"died"}

Place == Busy \cup {"none", "unregister", "failing", "done"}

Types ==
  /\ bound \in [Chat -> BOOLEAN] /\ DOMAIN seen = Chat
  /\ turns \in [Chat -> Seq(Turn)] /\ pend \in [Chat -> Seq(Turn)]
  /\ outcome \in [Turn -> Outcomes] /\ verdict \in [Turn -> Outcomes]
  /\ worker \in [Turn -> Place]
  /\ conn \in [Chat -> Conn \cup {NoOne}] /\ open \in [Chat -> Turn \cup {NoOne}]
  /\ prompt \in [Conn -> Turn \cup {NoOne}] /\ agent \in [Conn -> {"none", "up", "gone"}]
  /\ owner \in [Conn -> Chat \cup {NoOne}]
  /\ request \in [Thread -> Step]
  /\ started \in 0..MaxTurns /\ events \in 0..MaxEvents

In(t, s) == t \in Range(turns[s])

\* A turn is in one log, and was started.
TurnsOK ==
  /\ \A s \in Chat, t \in Turn : In(t, s) => t <= started
  /\ \A s, u \in Chat, t \in Turn : In(t, s) /\ In(t, u) => s = u

Remembers(k) == request[k].op = "send" /\ request[k].at \in {"remember", "launch"}

\* Turn t is remembered, and a request is about to start its worker.
Launching(t) == worker[t] = "none" /\ \E k \in Thread : Launches(k, t)

\* No request that is about to start a worker moves.
LaunchesStay ==
  \A k \in Thread : request'[k] = request[k] \/ request[k].op # "send" \/ request[k].at # "launch"

\* A turn that is in the log and whose worker is not started yet has one thread
\* that will remember it and start the worker.
RequestsOK ==
  /\ \A k \in Thread :
       /\ request[k].op # "idle" => request[k].s \in Chat
       /\ request[k].op = "connect" /\ request[k].at \in {"record", "register"}
            => request[k].c \in Conn
       /\ request[k].op = "cancel" => request[k].c \in Conn
       /\ Remembers(k) => /\ request[k].t \in Turn /\ In(request[k].t, request[k].s)
                          /\ worker[request[k].t] = "none"
  /\ \A j, k \in Thread :
       Remembers(j) /\ Remembers(k) /\ request[j].t = request[k].t => j = k

\* open_turn_id names a turn of the session whose worker is at work, about to be
\* started, or dead.
OpenOK ==
  \A s \in Chat : open[s] # NoOne =>
    In(open[s], s) /\ (worker[open[s]] \in Busy \/ Launching(open[s]))

\* A turn is prompted once, by its worker, and has no verdict of success before
\* the prompt is answered.
PromptOK ==
  /\ \A c \in Conn : prompt[c] # NoOne =>
       worker[prompt[c]] \notin {"none", "start"} /\ verdict[prompt[c]] # "completed"
  /\ \A c, d \in Conn : prompt[c] # NoOne /\ prompt[c] = prompt[d] => c = d

WorkersOK ==
  \A t \in Turn :
    /\ worker[t] # "none" => \E s \in Chat : In(t, s)
    /\ worker[t] \in {"none", "start", "wait"} => verdict[t] = "open"
    /\ worker[t] \in {"ended", "drained", "finished", "unregister"} => verdict[t] # "open"
    /\ outcome[t] = "completed" => verdict[t] = "completed"

\* The last drain of a completed turn is behind it.
Closed(t) == verdict[t] = "completed" /\ (worker[t] = "drained" \/ outcome[t] = "completed")

PendOK ==
  \A s \in Chat : \A t \in Range(pend[s]) : In(t, s) /\ ~Closed(t)

DialogueInv ==
  Types /\ TurnsOK /\ OneOpenTurn /\ RequestsOK /\ OpenOK /\ PromptOK /\ WorkersOK /\ PendOK

-----------------------------------------------------------------------------
(* The logs *)

LEMMA NoTurn == NoOne \notin Turn /\ NoOne \notin Conn /\ Turn \subseteq Nat
BY DEF Turn

LEMMA RangeOf ==
  ASSUME NEW S, NEW q \in Seq(S)
  PROVE  /\ Range(q) \subseteq S
         /\ \A i \in 1..Len(q) : q[i] \in Range(q)
         /\ \A e \in Range(q) : \E i \in 1..Len(q) : q[i] = e
BY DEF Range

LEMMA RangeEmpty == Range(<<>>) = {}
BY DEF Range

LEMMA RangeAppend ==
  ASSUME NEW S, NEW q \in Seq(S), NEW e \in S
  PROVE  Append(q, e) \in Seq(S) /\ Range(Append(q, e)) = Range(q) \cup {e}
<1> DEFINE a == Append(q, e)
<1>1. /\ a \in Seq(S) /\ DOMAIN a = 1..Len(q) + 1 /\ DOMAIN q = 1..Len(q) /\ Len(q) \in Nat
      /\ \A i \in 1..Len(q) : a[i] = q[i]
      /\ a[Len(q) + 1] = e
  OBVIOUS
<1> HIDE DEF a
<1>2. ASSUME NEW x \in Range(a) PROVE x \in Range(q) \cup {e}
  <2>1. PICK i \in 1..Len(q) + 1 : x = a[i]
    BY <1>1 DEF Range
  <2>2. CASE i = Len(q) + 1
    BY <1>1, <2>1, <2>2
  <2>3. CASE i \in 1..Len(q)
    BY <1>1, <2>1, <2>3 DEF Range
  <2> QED BY <1>1, <2>2, <2>3
<1>3. ASSUME NEW x \in Range(q) PROVE x \in Range(a)
  <2>1. PICK i \in 1..Len(q) : x = q[i]
    BY <1>1 DEF Range
  <2>2. i \in DOMAIN a /\ a[i] = x
    BY <1>1, <2>1
  <2> QED BY <2>2 DEF Range
<1>4. e \in Range(a)
  <2>1. Len(q) + 1 \in DOMAIN a
    BY <1>1
  <2> QED BY <1>1, <2>1 DEF Range
<1> QED BY <1>1, <1>2, <1>3, <1>4 DEF a

\* chatOf() finds the session of a turn.
LEMMA ChatOf ==
  ASSUME TurnsOK, NEW s \in Chat, NEW t \in Turn, In(t, s)
  PROVE  chatOf(t) = s
BY DEF TurnsOK, chatOf, In

LEMMA WorkerChat ==
  ASSUME TurnsOK, WorkersOK, NEW t \in Turn, worker[t] # "none"
  PROVE  chatOf(t) \in Chat /\ In(t, chatOf(t)) /\ \A s \in Chat : In(t, s) => s = chatOf(t)
BY ChatOf DEF WorkersOK

\* What open_turn() says of a log.
LEMMA OpenTurn ==
  ASSUME Types, NEW s \in Chat
  PROVE  /\ open_turn(s) \in Turn \cup {NoOne}
         /\ open_turn(s) # NoOne => In(open_turn(s), s) /\ outcome[open_turn(s)] = "open"
         /\ open_turn(s) = NoOne => \/ turns[s] = <<>>
                                    \/ outcome[turns[s][Len(turns[s])]] # "open"
<1>1. turns[s] \in Seq(Turn)
  BY DEF Types
<1>2. turns[s] # <<>> => /\ Len(turns[s]) \in 1..Len(turns[s])
                         /\ Last(turns[s]) = turns[s][Len(turns[s])] /\ Last(turns[s]) \in Turn
  BY <1>1 DEF Last
<1>3. turns[s] # <<>> => Last(turns[s]) \in Range(turns[s])
  BY <1>1, <1>2, RangeOf
<1> QED BY <1>1, <1>2, <1>3, NoTurn DEF open_turn, In

\* A log that no step appends to, and whose closed turns stay closed.
LEMMA LogPart ==
  ASSUME Types, TurnsOK, OneOpenTurn, UNCHANGED <<turns, started>>,
         \A t \in Turn : outcome[t] # "open" => outcome'[t] # "open"
  PROVE  TurnsOK' /\ OneOpenTurn'
<1>1. TurnsOK'
  BY DEF TurnsOK, In
<1>2. ASSUME NEW s \in Chat, NEW i \in 1..Len(turns[s]) - 1 PROVE outcome'[turns[s][i]] # "open"
  <2>1. turns[s][i] \in Turn
    BY DEF Types
  <2> QED BY <2>1 DEF OneOpenTurn
<1> QED BY <1>1, <1>2 DEF OneOpenTurn

-----------------------------------------------------------------------------
(* Requests *)

\* A request that moves without adding a turn.
LEMMA RequestMoves ==
  ASSUME Types, RequestsOK, NEW k \in Thread, NEW r \in Step, Becomes(k, r),
         UNCHANGED <<turns, worker>>,
         r.op # "idle" => r.s \in Chat,
         r.op = "connect" /\ r.at \in {"record", "register"} => r.c \in Conn,
         r.op = "cancel" => r.c \in Conn,
         ~(r.op = "send" /\ r.at \in {"remember", "launch"}),
         request[k].op # "send" \/ request[k].at # "launch"
  PROVE  request' \in [Thread -> Step] /\ RequestsOK' /\ LaunchesStay
<1>1. request' \in [Thread -> Step]
  BY DEF Types, Becomes
<1>2. request'[k] = r /\ \A j \in Thread : j # k => request'[j] = request[j]
  BY DEF Types, Becomes
<1>3. ~Remembers(k)' /\ \A j \in Thread : j # k => (Remembers(j)' <=> Remembers(j))
  BY <1>2 DEF Remembers
<1> QED BY <1>1, <1>2, <1>3 DEF RequestsOK, In, LaunchesStay

LEMMA IdleStep == Idle \in Step /\ Idle.op = "idle" /\ Idle.at = ""
BY DEF Idle, Step

\* The requests wait while the workers work.
LEMMA RequestPart ==
  ASSUME RequestsOK, UNCHANGED <<turns, request>>,
         \A t \in Turn : worker[t] = "none" => worker'[t] = "none"
  PROVE  RequestsOK'
BY DEF RequestsOK, Remembers, In

\* A turn that is about to be attended stays so.
LEMMA LaunchingPart ==
  ASSUME LaunchesStay, \A t \in Turn : worker[t] = "none" => worker'[t] = "none"
  PROVE  \A t \in Turn : Launching(t) => Launching(t)'
BY DEF LaunchesStay, Launching, Launches

\* The open turns in memory, when only turns that are no longer open anywhere
\* stop being at work.
LEMMA OpenPart ==
  ASSUME Types, OpenOK, UNCHANGED turns, LaunchesStay,
         \A t \in Turn : worker[t] = "none" => worker'[t] = "none",
         \A s \in Chat : /\ open'[s] = open[s] \/ open'[s] = NoOne
                         /\ open'[s] # NoOne /\ worker[open[s]] \in Busy => worker'[open[s]] \in Busy
  PROVE  OpenOK'
<1>1. \A t \in Turn : Launching(t) => Launching(t)'
  BY LaunchingPart
<1>2. ASSUME NEW s \in Chat, open'[s] # NoOne
      PROVE  In(open[s], s)' /\ (worker'[open'[s]] \in Busy \/ Launching(open[s])')
             /\ open'[s] = open[s]
  BY <1>1, <1>2 DEF OpenOK, In, Types
<1>3. \A s \in Chat : open'[s] # NoOne =>
        In(open[s], s)' /\ (worker'[open'[s]] \in Busy \/ Launching(open[s])')
  BY <1>2
<1> QED BY <1>2, <1>3 DEF OpenOK, In, Launching, Launches

\* The sink and the workers wait while a request moves.
LEMMA QuietStep ==
  ASSUME DialogueInv, Types', RequestsOK', LaunchesStay, UNCHANGED <<turns, started, outcome, open, pend>>,
         UNCHANGED <<prompt, worker, verdict>>
  PROVE  DialogueInv'
<1>1. TurnsOK' /\ OneOpenTurn'
  BY LogPart DEF DialogueInv
<1>2. PromptOK' /\ WorkersOK' /\ PendOK'
  BY DEF DialogueInv, PromptOK, WorkersOK, PendOK, Closed, In
<1>3. OpenOK'
  BY OpenPart DEF LaunchesStay, DialogueInv
<1> QED BY <1>1, <1>2, <1>3 DEF DialogueInv

LEMMA DialogueStart == DialogueInit => DialogueInv
<1> SUFFICES ASSUME DialogueInit PROVE DialogueInv
  OBVIOUS
<1>1. Types
  <2>1. <<>> \in Seq(Turn)
    OBVIOUS
  <2>2. 0 \in 0..MaxTurns /\ 0 \in 0..MaxEvents
    OBVIOUS
  <2> QED BY <2>1, <2>2, IdleStep DEF DialogueInit, Types, Outcomes, Place, Busy, AtWork
<1>2. \A s \in Chat : turns[s] = <<>> /\ pend[s] = <<>> /\ Range(turns[s]) = {}
                      /\ Range(pend[s]) = {}
  BY RangeEmpty DEF DialogueInit
<1>3. TurnsOK /\ PendOK
  BY <1>2 DEF TurnsOK, PendOK, In
<1>6. OneOpenTurn
  <2>1. \A s \in Chat : Len(turns[s]) = 0
    BY <1>2
  <2>2. \A s \in Chat : 1..Len(turns[s]) - 1 = {}
    BY <2>1
  <2> QED BY <2>2 DEF OneOpenTurn
<1>4. RequestsOK
  BY IdleStep DEF DialogueInit, RequestsOK, Remembers
<1>5. OpenOK /\ PromptOK /\ WorkersOK
  BY DEF DialogueInit, OpenOK, PromptOK, WorkersOK
<1> QED BY <1>1, <1>3, <1>4, <1>5, <1>6 DEF DialogueInv

-----------------------------------------------------------------------------
(* connect() *)

\* The rest of a step whose request is typed.
LEMMA RequestTypes ==
  ASSUME Types, request' \in [Thread -> Step],
         UNCHANGED <<bound, turns, outcome, open, pend, seen, agentVars, owner, started, events>>,
         conn' \in [Chat -> Conn \cup {NoOne}]
  PROVE  Types'
BY DEF Types, agentVars

LEMMA RecordMove ==
  ASSUME Types, NEW k \in Thread
  PROVE  /\ request[k] \in Step
         /\ \A a \in {"count", "stale", "spawn", "register"} :
              /\ [request[k] EXCEPT !.at = a] \in Step
              /\ [request[k] EXCEPT !.at = a].op = request[k].op
              /\ [request[k] EXCEPT !.at = a].at = a
              /\ [request[k] EXCEPT !.at = a].s = request[k].s
              /\ [request[k] EXCEPT !.at = a].c = request[k].c
<1>1. request[k] \in Step
  BY DEF Types
<1> QED BY <1>1 DEF Step

LEMMA ReadsStep ==
  ASSUME DialogueInv, NEW k \in Thread, NEW s \in Chat,
         \/ ConnectReads(k, s) \/ CancelChecks(k, s)
         \/ \E q \in RequestId : SendChecks(k, s, q)
  PROVE  DialogueInv'
<1>1. Types /\ RequestsOK
  BY DEF DialogueInv
<1>2. open_turn(s) \in Turn \cup {NoOne} /\ bound[s] \in BOOLEAN
  BY <1>1, OpenTurn DEF Types
<1>3. CASE ConnectReads(k, s)
  <2> DEFINE r == [Idle EXCEPT !.op = "connect", !.at = "check", !.s = s,
                               !.t = open_turn(s), !.load = bound[s]]
  <2>1. r \in Step /\ r.op = "connect" /\ r.at = "check" /\ r.s = s
    BY <1>2 DEF Idle, Step
  <2>2. request' \in [Thread -> Step] /\ RequestsOK' /\ LaunchesStay
    BY <1>1, <1>3, <2>1, IdleStep, RequestMoves DEF ConnectReads, Takes, dialogueStoreVars,
       agentVars
  <2>3. Types'
    BY <1>1, <1>3, <2>2, RequestTypes DEF ConnectReads, dialogueStoreVars, memoryVars,
       historyVars, Types
  <2> QED BY <1>3, <2>2, <2>3, QuietStep DEF ConnectReads, dialogueStoreVars, memoryVars,
          historyVars, agentVars
<1>4. CASE CancelChecks(k, s)
  <2> DEFINE r == [Idle EXCEPT !.op = "cancel", !.s = s, !.c = conn[s]]
  <2>1. conn[s] \in Conn
    BY <1>1, <1>4 DEF CancelChecks, Types
  <2>2. r \in Step /\ r.op = "cancel" /\ r.s = s /\ r.c \in Conn
    BY <2>1 DEF Idle, Step
  <2>3. request' \in [Thread -> Step] /\ RequestsOK' /\ LaunchesStay
    BY <1>1, <1>4, <2>2, IdleStep, RequestMoves DEF CancelChecks, Takes, dialogueStoreVars,
       agentVars
  <2>4. Types'
    BY <1>1, <1>4, <2>3, RequestTypes DEF CancelChecks, dialogueStoreVars, memoryVars,
       historyVars, Types
  <2> QED BY <1>4, <2>3, <2>4, QuietStep DEF CancelChecks, dialogueStoreVars, memoryVars,
          historyVars, agentVars
<1>5. ASSUME NEW q \in RequestId, SendChecks(k, s, q) PROVE DialogueInv'
  <2> DEFINE r == [Idle EXCEPT !.op = "send", !.at = "start", !.s = s, !.q = q]
  <2>1. r \in Step /\ r.op = "send" /\ r.at = "start" /\ r.s = s
    BY DEF Idle, Step
  <2>2. request' \in [Thread -> Step] /\ RequestsOK' /\ LaunchesStay
    BY <1>1, <1>5, <2>1, IdleStep, RequestMoves DEF SendChecks, Takes, dialogueStoreVars,
       agentVars
  <2>3. Types'
    BY <1>1, <1>5, <2>2, RequestTypes DEF SendChecks, dialogueStoreVars, memoryVars,
       historyVars, Types
  <2> QED BY <1>5, <2>2, <2>3, QuietStep DEF SendChecks, dialogueStoreVars, memoryVars,
          historyVars, agentVars
<1> QED BY <1>3, <1>4, <1>5

\* The steps of connect() and cancel_turn() that write at most conn.
LEMMA ChecksStep ==
  ASSUME DialogueInv, NEW k \in Thread,
         ConnectChecks(k) \/ ConnectCounts(k) \/ SpawnFails(k) \/ CancelSends(k)
  PROVE  DialogueInv'
<1>1. Types /\ RequestsOK /\ request[k].op # "send"
  BY DEF DialogueInv, ConnectChecks, ConnectCounts, SpawnFails, CancelSends
<1>2. /\ UNCHANGED <<dialogueStoreVars, open, pend, seen, agentVars, started, events, owner>>
      /\ conn' \in [Chat -> Conn \cup {NoOne}]
  BY <1>1 DEF ConnectChecks, ConnectCounts, SpawnFails, CancelSends, memoryVars, historyVars,
     Types, RequestsOK
<1>3. request' \in [Thread -> Step] /\ RequestsOK' /\ LaunchesStay
  <2>1. UNCHANGED <<turns, worker>>
    BY <1>2 DEF dialogueStoreVars, agentVars
  <2>2. CASE Becomes(k, Idle)
    BY <1>1, <2>1, <2>2, IdleStep, RequestMoves
  <2>3. ASSUME NEW a \in {"count", "stale"}, request[k].op = "connect",
               Becomes(k, [request[k] EXCEPT !.at = a])
        PROVE  request' \in [Thread -> Step] /\ RequestsOK' /\ LaunchesStay
    <3> DEFINE r == [request[k] EXCEPT !.at = a]
    <3>1. r \in Step /\ r.op = "connect" /\ r.at = a /\ r.s = request[k].s
      BY <1>1, <2>3, RecordMove
    <3>2. request[k].s \in Chat
      BY <1>1, <2>3 DEF RequestsOK
    <3> HIDE DEF r
    <3>3. Becomes(k, r)
      BY <2>3 DEF r
    <3> QED BY <1>1, <2>1, <3>1, <3>2, <3>3, RequestMoves
  <2> QED BY <2>2, <2>3 DEF ConnectChecks, ConnectCounts, SpawnFails, CancelSends
<1>4. Types'
  BY <1>1, <1>2, <1>3, RequestTypes DEF dialogueStoreVars
<1> QED BY <1>2, <1>3, <1>4, QuietStep DEF dialogueStoreVars, agentVars

LEMMA FinishStaleStep ==
  ASSUME DialogueInv, NEW k \in Thread, FinishStale(k) PROVE DialogueInv'
<1> DEFINE t == request[k].t
           s == request[k].s
<1>1. /\ Types /\ RequestsOK /\ TurnsOK /\ OneOpenTurn /\ request[k] \in Step /\ s \in Chat
      /\ request[k].at # "launch"
  BY RecordMove DEF DialogueInv, RequestsOK, FinishStale
<1>2. UNCHANGED <<bound, turns, memoryVars, agentVars, historyVars>>
  BY DEF FinishStale
<1>3. \/ UNCHANGED outcome
      \/ t \in Turn /\ outcome' = [outcome EXCEPT ![t] = "interrupted"]
  BY <1>1 DEF FinishStale, Step
<1>4. /\ outcome' \in [Turn -> Outcomes]
      /\ \A u \in Turn : outcome'[u] = outcome[u] \/ outcome'[u] = "interrupted"
  BY <1>1, <1>3 DEF Types, Outcomes
<1>5. request' \in [Thread -> Step] /\ RequestsOK' /\ LaunchesStay
  <2>1. UNCHANGED <<turns, worker>>
    BY <1>2 DEF agentVars
  <2>2. CASE Becomes(k, Idle)
    BY <1>1, <2>1, <2>2, IdleStep, RequestMoves
  <2>3. CASE Becomes(k, [request[k] EXCEPT !.at = "spawn"])
    <3> DEFINE r == [request[k] EXCEPT !.at = "spawn"]
    <3>1. r \in Step /\ r.op = "connect" /\ r.at = "spawn" /\ r.s = s
      BY <1>1, RecordMove DEF FinishStale
    <3> HIDE DEF r
    <3>2. Becomes(k, r)
      BY <2>3 DEF r
    <3> QED BY <1>1, <2>1, <3>1, <3>2, RequestMoves
  <2> QED BY <2>2, <2>3 DEF FinishStale
<1>6. Types'
  BY <1>1, <1>2, <1>4, <1>5 DEF Types, memoryVars, agentVars, historyVars
<1>7. TurnsOK' /\ OneOpenTurn'
  BY <1>1, <1>2, <1>4, LogPart DEF historyVars
<1>8. OpenOK' /\ PromptOK'
  BY <1>1, <1>2, <1>5, OpenPart DEF DialogueInv, PromptOK, memoryVars, agentVars
<1>9. WorkersOK'
  BY <1>2, <1>4 DEF DialogueInv, WorkersOK, In, agentVars
<1>10. PendOK'
  <2>1. \A u \in Turn : Closed(u)' => Closed(u)
    BY <1>2, <1>4 DEF Closed, agentVars
  <2>2. \A x \in Chat : Range(pend[x]) \subseteq Turn
    BY <1>1, RangeOf DEF Types
  <2> QED BY <1>2, <2>1, <2>2 DEF DialogueInv, PendOK, In, memoryVars
<1> QED BY <1>5, <1>6, <1>7, <1>8, <1>9, <1>10 DEF DialogueInv

LEMMA SpawnStep ==
  ASSUME DialogueInv, NEW k \in Thread, NEW c \in Conn, Spawn(k, c) PROVE DialogueInv'
<1> DEFINE r == [request[k] EXCEPT !.at = "record", !.c = c]
<1>1. Types /\ RequestsOK /\ request[k] \in Step /\ request[k].s \in Chat
      /\ request[k].op = "connect" /\ request[k].at # "launch"
  BY RecordMove DEF DialogueInv, RequestsOK, Spawn
<1>2. r \in Step /\ r.op = "connect" /\ r.at = "record" /\ r.s = request[k].s /\ r.c = c
  BY <1>1 DEF Step
<1>3. UNCHANGED <<dialogueStoreVars, memoryVars, prompt, worker, verdict, started, events>>
      /\ Becomes(k, r)
  BY DEF Spawn
<1> HIDE DEF r
<1>4. request' \in [Thread -> Step] /\ RequestsOK' /\ LaunchesStay
  BY <1>1, <1>2, <1>3, RequestMoves DEF dialogueStoreVars
<1>5. agent' \in [Conn -> {"none", "up", "gone"}] /\ owner' \in [Conn -> Chat \cup {NoOne}]
  BY <1>1 DEF Spawn, Types
<1>6. Types'
  BY <1>1, <1>3, <1>4, <1>5 DEF Types, dialogueStoreVars, memoryVars
<1> QED BY <1>3, <1>4, <1>6, QuietStep DEF dialogueStoreVars, memoryVars

LEMMA RegisterStep ==
  ASSUME DialogueInv, NEW k \in Thread, Register(k) PROVE DialogueInv'
<1> DEFINE r == request[k]
<1>1. Types /\ RequestsOK /\ TurnsOK /\ OneOpenTurn /\ r.s \in Chat /\ r.c \in Conn
  BY DEF DialogueInv, RequestsOK, Register
<1>2. UNCHANGED <<dialogueStoreVars, open, seen, agentVars, historyVars>>
  BY DEF Register
<1>3. request' \in [Thread -> Step] /\ RequestsOK' /\ LaunchesStay
  BY <1>1, <1>2, IdleStep, RequestMoves DEF Register, dialogueStoreVars, agentVars
<1>4. /\ pend' \in [Chat -> Seq(Turn)] /\ conn' \in [Chat -> Conn \cup {NoOne}]
      /\ \A s \in Chat : pend'[s] = pend[s] \/ pend'[s] = <<>>
  <2>1. <<>> \in Seq(Turn)
    OBVIOUS
  <2> QED BY <1>1, <2>1 DEF Register, Types
<1>5. Types'
  BY <1>1, <1>2, <1>3, <1>4 DEF Types, dialogueStoreVars, agentVars, historyVars
<1>6. TurnsOK' /\ OneOpenTurn'
  BY <1>1, <1>2, LogPart DEF dialogueStoreVars, historyVars
<1>7. OpenOK' /\ PromptOK' /\ WorkersOK'
  BY <1>1, <1>2, <1>3, OpenPart DEF DialogueInv, PromptOK, WorkersOK, In, dialogueStoreVars,
     agentVars
<1>8. PendOK'
  <2>1. \A s \in Chat : Range(pend'[s]) \subseteq Range(pend[s])
    BY <1>4, RangeEmpty
  <2> QED BY <1>2, <2>1 DEF DialogueInv, PendOK, Closed, In, dialogueStoreVars, agentVars
<1> QED BY <1>3, <1>5, <1>6, <1>7, <1>8 DEF DialogueInv

-----------------------------------------------------------------------------
(* send_turn() *)

LEMMA StartTurnStep ==
  ASSUME DialogueInv, NEW k \in Thread, StartTurn(k) PROVE DialogueInv'
<1> DEFINE r == request[k]
           s == request[k].s
           t == started + 1
<1>1. Types /\ RequestsOK /\ TurnsOK /\ OneOpenTurn /\ r \in Step /\ s \in Chat
      /\ r.op = "send" /\ r.at = "start"
  BY RecordMove DEF DialogueInv, RequestsOK, StartTurn
<1>2. UNCHANGED <<bound, outcome, memoryVars, agentVars, events, owner>>
  BY DEF StartTurn
<1>3. CASE Becomes(k, Idle) /\ UNCHANGED <<started, turns>>
  <2>1. request' \in [Thread -> Step] /\ RequestsOK' /\ LaunchesStay
    BY <1>1, <1>2, <1>3, IdleStep, RequestMoves DEF agentVars
  <2>2. Types'
    BY <1>1, <1>2, <1>3, <2>1, RequestTypes DEF memoryVars, Types
  <2> QED BY <1>2, <1>3, <2>1, <2>2, QuietStep DEF memoryVars, agentVars
<1>4. CASE /\ bound[s] /\ open_turn(s) = NoOne /\ started < MaxTurns
           /\ started' = t /\ turns' = [turns EXCEPT ![s] = Append(@, t)]
           /\ Becomes(k, [r EXCEPT !.at = "remember", !.t = t])
  <2>1. t \in Turn /\ started \in Nat /\ t \in 0..MaxTurns
    BY <1>1, <1>4 DEF Types, Turn
  <2>2. /\ turns' \in [Chat -> Seq(Turn)] /\ turns'[s] = Append(turns[s], t)
        /\ turns[s] \in Seq(Turn) /\ \A x \in Chat : x # s => turns'[x] = turns[x]
    BY <1>1, <1>4, <2>1 DEF Types
  <2>3. Range(turns'[s]) = Range(turns[s]) \cup {t}
    BY <2>1, <2>2, RangeAppend
  <2>4. \A x \in Chat : ~In(t, x)
    BY <1>1, <2>1 DEF TurnsOK
  <2>5. \A x \in Chat, u \in Turn : In(u, x)' <=> (In(u, x) \/ (x = s /\ u = t))
    BY <2>2, <2>3 DEF In
  <2>6. worker[t] = "none"
    BY <2>1, <2>4 DEF DialogueInv, WorkersOK
  <2>7. TurnsOK'
    <3>1. \A x \in Chat, u \in Turn : In(u, x)' => u <= started'
      BY <1>1, <1>4, <2>1, <2>5 DEF TurnsOK, Turn
    <3>2. \A x, y \in Chat, u \in Turn : In(u, x)' /\ In(u, y)' => x = y
      BY <1>1, <2>4, <2>5 DEF TurnsOK
    <3> QED BY <3>1, <3>2 DEF TurnsOK
  <2>8. OneOpenTurn'
    <3>1. ASSUME NEW x \in Chat, NEW i \in 1..Len(turns'[x]) - 1
          PROVE  outcome'[turns'[x][i]] # "open"
      <4>1. CASE x # s
        BY <1>1, <1>2, <2>2, <3>1, <4>1 DEF OneOpenTurn
      <4>2. CASE x = s
        <5>1. Len(turns'[x]) = Len(turns[s]) + 1 /\ Len(turns[s]) \in Nat
          BY <2>1, <2>2, <4>2
        <5>2. i \in 1..Len(turns[s]) /\ turns'[x][i] = turns[s][i]
          BY <2>1, <2>2, <3>1, <4>2, <5>1
        <5>3. CASE i = Len(turns[s])
          <6>1. turns[s] # <<>>
            BY <5>2
          <6> QED BY <1>1, <1>2, <1>4, <5>2, <5>3, <6>1, OpenTurn
        <5>4. CASE i \in 1..Len(turns[s]) - 1
          BY <1>1, <1>2, <5>2, <5>4 DEF OneOpenTurn
        <5> QED BY <5>1, <5>2, <5>3, <5>4
      <4> QED BY <4>1, <4>2
    <3> QED BY <3>1 DEF OneOpenTurn
  <2>9. request' \in [Thread -> Step] /\ RequestsOK'
    <3> DEFINE n == [r EXCEPT !.at = "remember", !.t = t]
    <3>1. n \in Step /\ n.op = "send" /\ n.at = "remember" /\ n.s = s /\ n.t = t
      BY <1>1, <2>1 DEF Step
    <3> HIDE DEF n
    <3>2. request' = [request EXCEPT ![k] = n]
      BY <1>4 DEF n, Becomes
    <3>3. /\ request' \in [Thread -> Step] /\ request'[k] = n
          /\ \A j \in Thread : j # k => request'[j] = request[j]
      BY <1>1, <3>1, <3>2 DEF Types
    <3>4. \A j \in Thread : j # k => /\ Remembers(j)' <=> Remembers(j)
                                     /\ Remembers(j) => request[j].t # t
      BY <1>1, <2>4, <3>3 DEF Remembers, RequestsOK
    <3>5. worker' = worker
      BY <1>2 DEF agentVars
    <3>6. \A j \in Thread :
       /\ request'[j].op # "idle" => request'[j].s \in Chat
       /\ request'[j].op = "connect" /\ request'[j].at \in {"record", "register"}
            => request'[j].c \in Conn
       /\ request'[j].op = "cancel" => request'[j].c \in Conn
      BY <1>1, <3>1, <3>3 DEF RequestsOK
    <3>7. ASSUME NEW j \in Thread, Remembers(j)'
          PROVE  request'[j].t \in Turn /\ In(request[j].t, request[j].s)'
                 /\ worker'[request'[j].t] = "none"
      <4>1. CASE j = k
        BY <1>1, <2>1, <2>5, <2>6, <3>1, <3>3, <3>5, <4>1 DEF In
      <4>2. CASE j # k
        <5>1. /\ request[j].t \in Turn /\ In(request[j].t, request[j].s)
              /\ request[j].s \in Chat /\ worker[request[j].t] = "none"
          BY <1>1, <3>4, <3>7, <4>2 DEF RequestsOK, Remembers
        <5> QED BY <2>5, <3>3, <3>5, <4>2, <5>1 DEF In
      <4> QED BY <4>1, <4>2
    <3>8. \A i, j \in Thread :
            Remembers(i)' /\ Remembers(j)' /\ request'[i].t = request'[j].t => i = j
      <4>1. ASSUME NEW i \in Thread, NEW j \in Thread, Remembers(i)', Remembers(j)',
                   request'[i].t = request'[j].t
            PROVE  i = j
        <5>1. i # k /\ j # k => i = j
          BY <1>1, <3>3, <3>4, <4>1 DEF RequestsOK
        <5>2. i = k /\ j # k => FALSE
          BY <3>1, <3>3, <3>4, <4>1
        <5>3. i # k /\ j = k => FALSE
          BY <3>1, <3>3, <3>4, <4>1
        <5> QED BY <5>1, <5>2, <5>3
      <4> QED BY <4>1
    <3> QED BY <3>3, <3>6, <3>7, <3>8 DEF RequestsOK, In
  <2>10. Types'
    BY <1>1, <1>2, <1>4, <2>1, <2>2, <2>9 DEF Types, memoryVars, agentVars
  <2>11. OpenOK' /\ PromptOK' /\ WorkersOK'
    <3>1. OpenOK'
      <4>1. worker' = worker /\ open' = open
        BY <1>2 DEF memoryVars, agentVars
      <4>2. LaunchesStay
        BY <1>1, <1>4 DEF LaunchesStay, Becomes, Types
      <4>3. \A u \in Turn : Launching(u) => Launching(u)'
        BY <4>1, <4>2, LaunchingPart
      <4>4. ASSUME NEW x \in Chat, open[x] # NoOne
            PROVE  In(open[x], x)' /\ (worker[open[x]] \in Busy \/ Launching(open[x])')
        BY <1>1, <2>5, <4>1, <4>3, <4>4 DEF DialogueInv, OpenOK, Types, In
      <4> QED BY <4>1, <4>4 DEF OpenOK, In, Launching, Launches
    <3>2. PromptOK'
      BY <1>2 DEF DialogueInv, PromptOK, agentVars
    <3>3. WorkersOK'
      BY <1>2, <2>5 DEF DialogueInv, WorkersOK, agentVars
    <3> QED BY <3>1, <3>2, <3>3
  <2>12. PendOK'
    <3>1. \A x \in Chat : Range(pend[x]) \subseteq Turn
      BY <1>1, RangeOf DEF Types
    <3> QED BY <1>2, <2>5, <3>1 DEF DialogueInv, PendOK, Closed, memoryVars, agentVars
  <2> QED BY <2>7, <2>8, <2>9, <2>10, <2>11, <2>12 DEF DialogueInv
<1> QED BY <1>3, <1>4 DEF StartTurn

LEMMA RecordTurnStep ==
  ASSUME DialogueInv, NEW k \in Thread, RecordTurn(k) PROVE DialogueInv'
<1> DEFINE r == request[k]
           s == request[k].s
           t == request[k].t
           n == [r EXCEPT !.at = "launch"]
<1>1. /\ Types /\ RequestsOK /\ TurnsOK /\ OneOpenTurn /\ s \in Chat /\ Remembers(k)
      /\ t \in Turn /\ In(t, s) /\ worker[t] = "none" /\ r \in Step /\ r.at = "remember"
  BY RecordMove DEF DialogueInv, RequestsOK, RecordTurn, Remembers
<1>2. /\ UNCHANGED <<dialogueStoreVars, conn, pend, agentVars, historyVars>>
      /\ request' = [request EXCEPT ![k] = n]
      /\ seen' = [seen EXCEPT ![s] = @ \cup {r.q}] /\ open' = [open EXCEPT ![s] = t]
  BY DEF RecordTurn, Becomes
<1>3. n \in Step /\ n.op = "send" /\ n.at = "launch" /\ n.s = s /\ n.t = t
  BY <1>1 DEF Step, Remembers
<1> HIDE DEF n
<1>4. /\ request' \in [Thread -> Step] /\ request'[k] = n
      /\ \A j \in Thread : j # k => request'[j] = request[j]
  BY <1>1, <1>2, <1>3 DEF Types
<1>5. /\ open' \in [Chat -> Turn \cup {NoOne}] /\ open'[s] = t
      /\ \A x \in Chat : x # s => open'[x] = open[x]
  BY <1>1, <1>2 DEF Types
<1>6. Types'
  BY <1>1, <1>2, <1>4, <1>5 DEF Types, dialogueStoreVars, agentVars, historyVars
<1>7. TurnsOK' /\ OneOpenTurn'
  BY <1>1, <1>2, LogPart DEF dialogueStoreVars, historyVars
<1>8. RequestsOK'
  <2>1. /\ \A j \in Thread : Remembers(j)' <=> Remembers(j)
        /\ \A j \in Thread : request'[j].t = request[j].t /\ request'[j].s = request[j].s
    BY <1>1, <1>3, <1>4 DEF Remembers
  <2>2. turns' = turns /\ worker' = worker
    BY <1>2 DEF dialogueStoreVars, agentVars
  <2>4. \A j \in Thread :
       /\ request'[j].op # "idle" => request'[j].s \in Chat
       /\ request'[j].op = "connect" /\ request'[j].at \in {"record", "register"}
            => request'[j].c \in Conn
       /\ request'[j].op = "cancel" => request'[j].c \in Conn
    <3>1. ASSUME NEW j \in Thread, j # k
          PROVE  /\ request'[j].op # "idle" => request'[j].s \in Chat
                 /\ request'[j].op = "connect" /\ request'[j].at \in {"record", "register"}
                      => request'[j].c \in Conn
                 /\ request'[j].op = "cancel" => request'[j].c \in Conn
      BY <1>1, <1>4, <3>1 DEF RequestsOK
    <3>2. request'[k].s \in Chat /\ request'[k].op # "connect" /\ request'[k].op # "cancel"
      BY <1>1, <1>3, <1>4
    <3> QED BY <3>1, <3>2
  <2>5. ASSUME NEW j \in Thread, Remembers(j)'
        PROVE  request'[j].t \in Turn /\ In(request[j].t, request[j].s)'
               /\ worker'[request'[j].t] = "none"
    BY <1>1, <2>1, <2>2, <2>5 DEF RequestsOK, In
  <2>6. \A i, j \in Thread :
          Remembers(i)' /\ Remembers(j)' /\ request'[i].t = request'[j].t => i = j
    BY <1>1, <2>1 DEF RequestsOK
  <2> QED BY <2>4, <2>5, <2>6 DEF RequestsOK, In
<1>9. OpenOK'
  <2>1. \A u \in Turn : Launching(u) => Launching(u)'
    BY <1>1, <1>2, <1>4 DEF Launching, Launches, agentVars
  <2>2. \A u \in Turn : u = t => Launching(u)'
    BY <1>1, <1>2, <1>3, <1>4 DEF Launching, Launches, agentVars
  <2>3. ASSUME NEW x \in Chat, open'[x] # NoOne
        PROVE  In(open[x], x)' /\ (worker'[open'[x]] \in Busy \/ Launching(open[x])')
    <3>1. CASE x = s
      <4>1. open'[x] = t /\ turns' = turns /\ In(t, x)
        BY <1>1, <1>2, <1>5, <3>1 DEF dialogueStoreVars
      <4>2. In(open[x], x)'
        BY <4>1 DEF In
      <4>3. Launching(open[x])'
        BY <1>1, <2>2, <4>1 DEF Launching, Launches
      <4> QED BY <4>2, <4>3
    <3>2. CASE x # s
      <4>1. open'[x] = open[x] /\ open[x] \in Turn
        BY <1>1, <1>5, <2>3, <3>2 DEF Types
      <4>2. In(open[x], x) /\ (worker[open[x]] \in Busy \/ Launching(open[x]))
        BY <2>3, <4>1 DEF DialogueInv, OpenOK
      <4> QED BY <1>2, <2>1, <4>1, <4>2 DEF In, Launching, Launches, dialogueStoreVars, agentVars
    <3> QED BY <3>1, <3>2
  <2> QED BY <2>3 DEF OpenOK, In, Launching, Launches
<1>10. PromptOK' /\ WorkersOK'
  BY <1>2 DEF DialogueInv, PromptOK, WorkersOK, In, dialogueStoreVars, agentVars
<1>11. PendOK'
  BY <1>2 DEF DialogueInv, PendOK, Closed, In, dialogueStoreVars, agentVars
<1> QED BY <1>6, <1>7, <1>8, <1>9, <1>10, <1>11 DEF DialogueInv

LEMMA StartWorkerStep ==
  ASSUME DialogueInv, NEW k \in Thread, StartWorker(k) PROVE DialogueInv'
<1> DEFINE r == request[k]
           s == request[k].s
           t == request[k].t
<1>1. /\ Types /\ RequestsOK /\ TurnsOK /\ OneOpenTurn /\ s \in Chat /\ Remembers(k)
      /\ t \in Turn /\ In(t, s) /\ worker[t] = "none" /\ verdict[t] = "open"
  BY DEF DialogueInv, RequestsOK, StartWorker, Remembers, WorkersOK
<1>2. /\ UNCHANGED <<dialogueStoreVars, memoryVars, agent, prompt, verdict, started, events, owner>>
      /\ request' = [request EXCEPT ![k] = Idle]
  BY DEF StartWorker, Becomes
<1>3. /\ request' \in [Thread -> Step] /\ request'[k] = Idle
      /\ \A j \in Thread : j # k => request'[j] = request[j]
  BY <1>1, <1>2, IdleStep DEF Types
<1>4. /\ worker' \in [Turn -> Place] /\ worker'[t] \in {"start", "died"}
      /\ \A u \in Turn : u # t => worker'[u] = worker[u]
  BY <1>1 DEF StartWorker, Types, Place, Busy, AtWork
<1>6. Types'
  BY <1>1, <1>2, <1>3, <1>4 DEF Types, dialogueStoreVars, memoryVars
<1>7. TurnsOK' /\ OneOpenTurn'
  BY <1>1, <1>2, LogPart DEF dialogueStoreVars
<1>8. RequestsOK'
  <2>1. ~Remembers(k)' /\ \A j \in Thread : j # k => (Remembers(j)' <=> Remembers(j))
    BY <1>3, IdleStep DEF Remembers
  <2>2. \A j \in Thread : j # k /\ Remembers(j) => request[j].t # t
    BY <1>1 DEF RequestsOK
  <2>3. turns' = turns
    BY <1>2 DEF dialogueStoreVars
  <2>4. \A j \in Thread :
       /\ request'[j].op # "idle" => request'[j].s \in Chat
       /\ request'[j].op = "connect" /\ request'[j].at \in {"record", "register"}
            => request'[j].c \in Conn
       /\ request'[j].op = "cancel" => request'[j].c \in Conn
    BY <1>1, <1>3, IdleStep DEF RequestsOK
  <2>5. ASSUME NEW j \in Thread, Remembers(j)'
        PROVE  request'[j].t \in Turn /\ In(request[j].t, request[j].s)'
               /\ worker'[request'[j].t] = "none"
    BY <1>1, <1>3, <1>4, <2>1, <2>2, <2>3, <2>5 DEF RequestsOK, In
  <2>6. \A i, j \in Thread :
          Remembers(i)' /\ Remembers(j)' /\ request'[i].t = request'[j].t => i = j
    BY <1>1, <1>3, <2>1 DEF RequestsOK
  <2> QED BY <2>4, <2>5, <2>6 DEF RequestsOK, In
<1>9. OpenOK'
  <2>1. ASSUME NEW x \in Chat, open[x] # NoOne
        PROVE  In(open[x], x)' /\ (worker'[open[x]] \in Busy \/ Launching(open[x])')
    <3>1. /\ open[x] \in Turn /\ In(open[x], x)
          /\ worker[open[x]] \in Busy \/ Launching(open[x])
      BY <1>1, <2>1 DEF DialogueInv, OpenOK, Types
    <3>2. open'[x] = open[x] /\ In(open[x], x)'
      BY <1>2, <3>1 DEF In, dialogueStoreVars, memoryVars
    <3>3. CASE open[x] = t
      BY <1>4, <3>2, <3>3 DEF Busy, AtWork
    <3>4. CASE open[x] # t
      <4>1. worker'[open[x]] = worker[open[x]]
        BY <1>4, <3>1, <3>4
      <4>2. ASSUME NEW j \in Thread, Launches(j, open[x]) PROVE request'[j] = request[j]
        BY <1>3, <3>4, <4>2 DEF Launches
      <4> QED BY <3>1, <3>2, <4>1, <4>2 DEF Launching, Launches
    <3> QED BY <3>3, <3>4
  <2>2. open' = open
    BY <1>2 DEF memoryVars
  <2> QED BY <2>1, <2>2 DEF OpenOK, In, Launching, Launches
<1>10. PromptOK'
  <2>1. \A c \in Conn : prompt[c] # t
    BY <1>1, NoTurn DEF DialogueInv, PromptOK
  <2> QED BY <1>1, <1>2, <1>4, <2>1 DEF DialogueInv, PromptOK, Types
<1>11. WorkersOK'
  BY <1>1, <1>2, <1>4 DEF DialogueInv, WorkersOK, In, dialogueStoreVars
<1>12. PendOK'
  <2>1. \A x \in Chat : Range(pend[x]) \subseteq Turn
    BY <1>1, RangeOf DEF Types
  <2>2. \A u \in Turn : Closed(u)' => Closed(u)
    BY <1>2, <1>4 DEF Closed, dialogueStoreVars
  <2> QED BY <1>2, <2>1, <2>2 DEF DialogueInv, PendOK, In, dialogueStoreVars, memoryVars
<1> QED BY <1>6, <1>7, <1>8, <1>9, <1>10, <1>11, <1>12 DEF DialogueInv

-----------------------------------------------------------------------------
(* The end of a connection *)

\* What happens to the turns when some connections end: a prompt they cut off
\* was never answered, so no turn gains or loses a verdict of success.
TurnsMove(W, at) ==
  /\ \A t \in Turn \ W : \/ worker'[t] = worker[t] /\ verdict'[t] = verdict[t]
                         \/ /\ worker[t] = "wait" /\ worker'[t] = "ended"
                            /\ verdict'[t] = "interrupted"
  /\ \A t \in W : /\ worker'[t] = at
                  /\ verdict'[t] = verdict[t] \/ (worker[t] = "wait" /\ verdict'[t] = "interrupted")

LEMMA EndedMoves ==
  ASSUME DialogueInv, NEW D, NEW W \in SUBSET Turn, NEW at \in {"", "failing", "done"},
         W # {} => at # "", \A t \in W : worker[t] \notin {"none", "start"}, Ended(D, W, at)
  PROVE  /\ agent' \in [Conn -> {"none", "up", "gone"}]
         /\ prompt' \in [Conn -> Turn \cup {NoOne}]
         /\ worker' \in [Turn -> Place] /\ verdict' \in [Turn -> Outcomes]
         /\ TurnsMove(W, at) /\ PromptOK'
<1> DEFINE cut == {t \in Turn : worker[t] = "wait" /\ \E c \in D : prompt[c] = t}
<1>1. Types /\ PromptOK
  BY DEF DialogueInv
<1>2. /\ agent' = [c \in Conn |-> IF c \in D THEN "gone" ELSE agent[c]]
      /\ prompt' = [c \in Conn |-> IF c \in D THEN NoOne ELSE prompt[c]]
      /\ worker' = [t \in Turn |-> IF t \in W THEN at
                                   ELSE IF t \in cut THEN "ended" ELSE worker[t]]
      /\ verdict' = [t \in Turn |-> IF t \in cut THEN "interrupted" ELSE verdict[t]]
  BY DEF Ended
<1>3. \A t \in cut : worker[t] = "wait"
  OBVIOUS
<1> HIDE DEF cut
<1>4. agent' \in [Conn -> {"none", "up", "gone"}] /\ prompt' \in [Conn -> Turn \cup {NoOne}]
  BY <1>1, <1>2 DEF Types
<1>5. worker' \in [Turn -> Place]
  BY <1>1, <1>2 DEF Types, Place, Busy, AtWork
<1>6. verdict' \in [Turn -> Outcomes]
  BY <1>1, <1>2 DEF Types, Outcomes
<1>7. TurnsMove(W, at)
  BY <1>2, <1>3 DEF TurnsMove
<1>8. PromptOK'
  <2>1. \A c \in Conn : prompt'[c] # NoOne => prompt'[c] = prompt[c] /\ prompt[c] \in Turn
    BY <1>1, <1>2 DEF Types
  <2>2. \A t \in Turn : worker[t] \notin {"none", "start"} /\ verdict[t] # "completed"
                        => worker'[t] \notin {"none", "start"} /\ verdict'[t] # "completed"
    BY <1>7 DEF TurnsMove
  <2>3. \A c \in Conn : prompt'[c] # NoOne =>
          worker'[prompt'[c]] \notin {"none", "start"} /\ verdict'[prompt'[c]] # "completed"
    BY <1>1, <2>1, <2>2 DEF PromptOK
  <2>4. \A c, d \in Conn : prompt'[c] # NoOne /\ prompt'[c] = prompt'[d] => c = d
    BY <1>1, <2>1 DEF PromptOK
  <2> QED BY <2>3, <2>4 DEF PromptOK
<1> QED BY <1>4, <1>5, <1>6, <1>7, <1>8

\* The parts of the invariant that turns moved like that keep.
LEMMA MovedTurns ==
  ASSUME DialogueInv, NEW W \in SUBSET Turn, NEW at \in {"", "failing", "done"},
         W # {} => at # "", \A t \in W : worker[t] \notin {"none", "start"},
         TurnsMove(W, at), UNCHANGED <<turns, outcome>>
  PROVE  /\ WorkersOK' /\ \A t \in Turn : worker[t] = "none" => worker'[t] = "none"
         /\ \A t \in Turn : Closed(t)' => Closed(t)
         /\ \A t \in Turn \ W : worker[t] \in Busy => worker'[t] \in Busy
<1>1. ASSUME NEW t \in Turn \ W
      PROVE  /\ worker'[t] = "none" <=> worker[t] = "none"
             /\ worker'[t] \in {"none", "start", "wait"} =>
                  worker[t] = worker'[t] /\ verdict'[t] = verdict[t]
             /\ worker'[t] \in {"ended", "drained", "finished", "unregister"} =>
                  verdict'[t] = "interrupted" \/ (worker'[t] = worker[t] /\ verdict'[t] = verdict[t])
             /\ verdict'[t] = "completed" <=> verdict[t] = "completed"
             /\ worker'[t] = "drained" => worker[t] = "drained"
             /\ worker[t] \in Busy => worker'[t] \in Busy
  BY DEF DialogueInv, TurnsMove, Busy, AtWork, WorkersOK
<1>2. ASSUME NEW t \in W
      PROVE  /\ worker[t] # "none" /\ worker'[t] \in {"failing", "done"}
             /\ verdict'[t] = "completed" <=> verdict[t] = "completed"
  <2>1. t \in Turn /\ worker'[t] \in {"failing", "done"} /\ worker[t] # "none"
    BY DEF TurnsMove
  <2>2. worker[t] = "wait" => verdict[t] = "open"
    BY <2>1 DEF DialogueInv, WorkersOK
  <2> QED BY <2>1, <2>2 DEF TurnsMove
<1>3. WorkersOK'
  <2>1. ASSUME NEW t \in Turn
        PROVE  /\ worker'[t] # "none" => \E s \in Chat : In(t, s)
               /\ worker'[t] \in {"none", "start", "wait"} => verdict'[t] = "open"
               /\ worker'[t] \in {"ended", "drained", "finished", "unregister"} => verdict'[t] # "open"
               /\ outcome[t] = "completed" => verdict'[t] = "completed"
    <3>1. CASE t \in W
      BY <1>2, <3>1 DEF DialogueInv, WorkersOK
    <3>2. CASE t \notin W
      BY <1>1, <3>2 DEF DialogueInv, WorkersOK
    <3> QED BY <3>1, <3>2
  <2> QED BY <2>1 DEF WorkersOK, In
<1>4. \A t \in Turn : Closed(t)' => Closed(t)
  BY <1>1, <1>2 DEF Closed
<1> QED BY <1>1, <1>2, <1>3, <1>4

\* What waits in memory stays or goes, and no turn is closed.
LEMMA PendPart ==
  ASSUME Types, PendOK, UNCHANGED turns, \A t \in Turn : Closed(t)' => Closed(t),
         \A s \in Chat : pend'[s] = pend[s] \/ pend'[s] = <<>>
  PROVE  PendOK'
<1>1. \A s \in Chat : Range(pend'[s]) \subseteq Range(pend[s])
  BY RangeEmpty
<1>2. \A s \in Chat : Range(pend[s]) \subseteq Turn
  BY RangeOf DEF Types
<1> QED BY <1>1, <1>2 DEF PendOK, In

\* A request that closes the agent it has spawned and gives up.
LEMMA RequestCloses ==
  ASSUME DialogueInv, NEW k \in Thread, NEW c \in Conn, request[k].at # "launch",
         Ended({c}, {}, ""), Becomes(k, Idle),
         UNCHANGED <<bound, turns, outcome, memoryVars, started, events, owner>>
  PROVE  DialogueInv'
<1>0. Types /\ RequestsOK /\ TurnsOK /\ OneOpenTurn /\ OpenOK /\ PendOK
  BY DEF DialogueInv
<1>1. /\ agent' \in [Conn -> {"none", "up", "gone"}]
      /\ prompt' \in [Conn -> Turn \cup {NoOne}]
      /\ worker' \in [Turn -> Place] /\ verdict' \in [Turn -> Outcomes]
      /\ TurnsMove({}, "") /\ PromptOK'
  <2> DEFINE D == {c}
             W == {}
  <2>1. W \in SUBSET Turn /\ Ended(D, W, "") /\ W = {}
    BY <1>0
  <2> HIDE DEF D, W
  <2>2. /\ agent' \in [Conn -> {"none", "up", "gone"}]
        /\ prompt' \in [Conn -> Turn \cup {NoOne}]
        /\ worker' \in [Turn -> Place] /\ verdict' \in [Turn -> Outcomes]
        /\ TurnsMove(W, "") /\ PromptOK'
    BY <2>1, EndedMoves
  <2> QED BY <2>1, <2>2
<1>2. /\ WorkersOK' /\ \A t \in Turn : worker[t] = "none" => worker'[t] = "none"
      /\ \A t \in Turn : Closed(t)' => Closed(t)
      /\ \A t \in Turn : worker[t] \in Busy => worker'[t] \in Busy
  <2> DEFINE W == {}
  <2>1. W \in SUBSET Turn /\ TurnsMove(W, "") /\ W = {}
    BY <1>1
  <2> HIDE DEF W
  <2> QED BY <1>0, <2>1, MovedTurns
<1>3. /\ request' \in [Thread -> Step] /\ request'[k] = Idle
      /\ \A j \in Thread : j # k => request'[j] = request[j]
  BY <1>0, IdleStep DEF Types, Becomes
<1>4. RequestsOK'
  <2>1. ~Remembers(k)' /\ \A j \in Thread : j # k => (Remembers(j)' <=> Remembers(j))
    BY <1>3, IdleStep DEF Remembers
  <2> QED BY <1>0, <1>2, <1>3, <2>1, IdleStep DEF RequestsOK, In
<1>5. Types'
  BY <1>0, <1>1, <1>3 DEF Types, memoryVars, historyVars
<1>6. TurnsOK' /\ OneOpenTurn'
  BY <1>0, LogPart DEF historyVars
<1>7. OpenOK'
  <2>1. LaunchesStay
    BY <1>3 DEF LaunchesStay
  <2> QED BY <1>0, <1>2, <2>1, OpenPart DEF memoryVars, Types
<1>8. PendOK'
  BY <1>0, <1>2, PendPart DEF memoryVars
<1> QED BY <1>1, <1>2, <1>4, <1>5, <1>6, <1>7, <1>8 DEF DialogueInv

LEMMA RecordConnectStep ==
  ASSUME DialogueInv, NEW k \in Thread, RecordConnect(k) PROVE DialogueInv'
<1> DEFINE r == request[k]
<1>1. /\ Types /\ RequestsOK /\ TurnsOK /\ OneOpenTurn /\ OpenOK /\ PendOK
      /\ r \in Step /\ r.s \in Chat /\ r.c \in Conn /\ r.op = "connect" /\ r.at = "record"
  BY RecordMove DEF DialogueInv, RequestsOK, RecordConnect
<1>2. UNCHANGED <<turns, outcome, memoryVars, historyVars>>
  BY DEF RecordConnect
<1>3. CASE /\ bound' = [bound EXCEPT ![r.s] = TRUE]
           /\ Becomes(k, [r EXCEPT !.at = "register"]) /\ UNCHANGED agentVars
  <2> DEFINE n == [r EXCEPT !.at = "register"]
  <2>1. n \in Step /\ n.op = "connect" /\ n.s = r.s /\ n.c = r.c
    BY <1>1, RecordMove
  <2> HIDE DEF n
  <2>2. Becomes(k, n)
    BY <1>3 DEF n
  <2>3. request' \in [Thread -> Step] /\ RequestsOK' /\ LaunchesStay
    BY <1>1, <1>2, <1>3, <2>1, <2>2, RecordMove, RequestMoves DEF agentVars, n
  <2>4. bound' \in [Chat -> BOOLEAN]
    BY <1>1, <1>3 DEF Types
  <2>5. Types'
    BY <1>1, <1>2, <1>3, <2>3, <2>4 DEF Types, memoryVars, historyVars, agentVars
  <2> QED BY <1>2, <1>3, <2>3, <2>5, QuietStep DEF memoryVars, historyVars, agentVars
<1>4. CASE Ended({r.c}, {}, "") /\ Becomes(k, Idle) /\ UNCHANGED bound
  BY <1>1, <1>2, <1>4, RequestCloses DEF historyVars
<1> QED BY <1>3, <1>4 DEF RecordConnect

LEMMA StoreFailsStep ==
  ASSUME DialogueInv, NEW k \in Thread, StoreFails(k) PROVE DialogueInv'
<1>1. /\ Types /\ RequestsOK /\ request[k].at # "launch" /\ Becomes(k, Idle)
      /\ UNCHANGED <<dialogueStoreVars, memoryVars, started, events, owner>>
  BY DEF DialogueInv, StoreFails
<1>2. CASE request[k].at = "record" /\ Ended({request[k].c}, {}, "")
  <2>1. request[k].c \in Conn
    BY <1>1, <1>2 DEF RequestsOK, StoreFails
  <2> QED BY <1>1, <1>2, <2>1, RequestCloses DEF dialogueStoreVars
<1>3. CASE UNCHANGED agentVars
  <2>1. request' \in [Thread -> Step] /\ RequestsOK' /\ LaunchesStay
    BY <1>1, <1>3, IdleStep, RequestMoves DEF dialogueStoreVars, agentVars
  <2>2. Types'
    BY <1>1, <1>3, <2>1 DEF Types, dialogueStoreVars, memoryVars, agentVars
  <2> QED BY <1>1, <1>3, <2>1, <2>2, QuietStep DEF dialogueStoreVars, memoryVars, agentVars
<1> QED BY <1>2, <1>3 DEF StoreFails

\* The steps that end connections, the requests waiting.
LEMMA EndsStep ==
  ASSUME DialogueInv, NEW D, NEW W \in SUBSET Turn, NEW at \in {"", "failing", "done"},
         W # {} => at # "", \A t \in W : worker[t] \notin {"none", "start"}, Ended(D, W, at),
         UNCHANGED <<bound, turns, outcome, seen, request, started, events, owner>>,
         conn' \in [Chat -> Conn \cup {NoOne}],
         open' \in [Chat -> Turn \cup {NoOne}], pend' \in [Chat -> Seq(Turn)],
         \A s \in Chat : /\ open'[s] = open[s] \/ open'[s] = NoOne
                         /\ open'[s] \notin W
                         /\ pend'[s] = pend[s] \/ pend'[s] = <<>>
  PROVE  DialogueInv'
<1>1. Types /\ RequestsOK /\ TurnsOK /\ OneOpenTurn /\ OpenOK /\ PendOK
  BY DEF DialogueInv
<1>2. /\ agent' \in [Conn -> {"none", "up", "gone"}]
      /\ prompt' \in [Conn -> Turn \cup {NoOne}]
      /\ worker' \in [Turn -> Place] /\ verdict' \in [Turn -> Outcomes]
      /\ TurnsMove(W, at) /\ PromptOK'
  BY EndedMoves
<1>3. /\ WorkersOK' /\ \A t \in Turn : worker[t] = "none" => worker'[t] = "none"
      /\ \A t \in Turn : Closed(t)' => Closed(t)
      /\ \A t \in Turn \ W : worker[t] \in Busy => worker'[t] \in Busy
  BY <1>2, MovedTurns
<1>4. Types'
  BY <1>1, <1>2 DEF Types
<1>5. TurnsOK' /\ OneOpenTurn'
  BY <1>1, LogPart
<1>6. RequestsOK'
  BY <1>1, <1>3, RequestPart
<1>7. OpenOK'
  <2>1. ASSUME NEW s \in Chat, open'[s] # NoOne
        PROVE  worker[open[s]] \in Busy => worker'[open[s]] \in Busy
    <3>1. open[s] \in Turn \ W
      BY <1>1, <2>1 DEF Types
    <3> QED BY <1>3, <3>1
  <2> QED BY <1>1, <1>3, <2>1, OpenPart DEF LaunchesStay
<1>8. PendOK'
  BY <1>1, <1>3, PendPart
<1> QED BY <1>2, <1>3, <1>4, <1>5, <1>6, <1>7, <1>8 DEF DialogueInv

\* open_turn_id of another session is not this turn.
LEMMA OpenElsewhere ==
  ASSUME DialogueInv, NEW t \in Turn, NEW s \in Chat, open[s] = t
  PROVE  worker[t] \in Busy \cup {"none"} /\ s = chatOf(t)
<1>1. In(t, s) /\ worker[t] \in Busy \cup {"none"}
  BY NoTurn DEF DialogueInv, OpenOK, Launching
<1> QED BY <1>1, ChatOf DEF DialogueInv

LEMMA StoreFailureStep ==
  ASSUME DialogueInv, NEW t \in Turn, worker[t] \notin {"none", "start"}, _store_failure(t),
         UNCHANGED <<bound, turns, outcome, seen, request, started, events, owner>>,
         pend' \in [Chat -> Seq(Turn)],
         \A s \in Chat : pend'[s] = pend[s] \/ pend'[s] = <<>>
  PROVE  DialogueInv'
<1> DEFINE s == chatOf(t)
<1>1. Types /\ s \in Chat
  BY WorkerChat DEF DialogueInv
<1>2. /\ conn' = [conn EXCEPT ![s] = NoOne] /\ open' = [open EXCEPT ![s] = NoOne]
      /\ Ended({conn[s]} \ {NoOne}, {t}, "failing")
  BY DEF _store_failure
<1>3. conn' \in [Chat -> Conn \cup {NoOne}] /\ open' \in [Chat -> Turn \cup {NoOne}]
  BY <1>1, <1>2 DEF Types
<1>4. \A x \in Chat : (open'[x] = open[x] \/ open'[x] = NoOne) /\ open'[x] # t
  <2>1. ASSUME NEW x \in Chat PROVE (open'[x] = open[x] \/ open'[x] = NoOne) /\ open'[x] # t
    <3>1. CASE x = s
      BY <1>1, <1>2, <3>1, NoTurn DEF Types
    <3>2. CASE x # s
      BY <1>1, <1>2, <3>2, OpenElsewhere DEF Types
    <3> QED BY <3>1, <3>2
  <2> QED BY <2>1
<1> DEFINE W == {t}
           D == {conn[s]} \ {NoOne}
<1>5. /\ W \in SUBSET Turn /\ Ended(D, W, "failing")
      /\ \A u \in W : worker[u] \notin {"none", "start"} /\ \A x \in Chat : open'[x] \notin W
  BY <1>2, <1>4
<1> HIDE DEF W, D
<1> QED BY <1>3, <1>4, <1>5, EndsStep

-----------------------------------------------------------------------------
(* _TurnWorker *)

\* A step of one worker that leaves the rest of the service alone.
LEMMA WorkerMoves ==
  ASSUME Types, RequestsOK, NEW t \in Turn, NEW p \in Place, worker[t] # "none",
         worker' = [worker EXCEPT ![t] = p], UNCHANGED <<turns, request>>
  PROVE  /\ worker' \in [Turn -> Place] /\ worker'[t] = p
         /\ \A u \in Turn : u # t => worker'[u] = worker[u]
         /\ RequestsOK'
<1>1. /\ worker' \in [Turn -> Place] /\ worker'[t] = p
      /\ \A u \in Turn : u # t => worker'[u] = worker[u]
  BY DEF Types
<1>2. \A u \in Turn : worker[u] = "none" => worker'[u] = "none"
  BY <1>1
<1> QED BY <1>1, <1>2, RequestPart

\* A worker that ends with an uncaught exception.
LEMMA DiesStep ==
  ASSUME DialogueInv, NEW t \in Turn, worker[t] # "none", Dies(t),
         UNCHANGED <<bound, turns, outcome, seen, request, started, events, owner>>,
         pend' \in [Chat -> Seq(Turn)],
         \A s \in Chat : pend'[s] = pend[s] \/ pend'[s] = <<>>
  PROVE  DialogueInv'
<1>1. Types /\ RequestsOK /\ TurnsOK /\ OneOpenTurn /\ OpenOK /\ PendOK
  BY DEF DialogueInv
<1>2. worker' = [worker EXCEPT ![t] = "died"] /\ UNCHANGED <<conn, open, agent, prompt, verdict>>
  BY DEF Dies
<1>3. /\ worker' \in [Turn -> Place] /\ worker'[t] = "died"
      /\ \A u \in Turn : u # t => worker'[u] = worker[u]
      /\ RequestsOK'
  BY <1>1, <1>2, WorkerMoves DEF Place, Busy
<1>4. Types'
  BY <1>1, <1>2, <1>3 DEF Types
<1>5. TurnsOK' /\ OneOpenTurn'
  BY <1>1, LogPart
<1>6. OpenOK'
  BY <1>1, <1>2, <1>3, OpenPart DEF LaunchesStay, Types, Busy
<1>7. PromptOK' /\ WorkersOK'
  BY <1>1, <1>2, <1>3 DEF DialogueInv, PromptOK, WorkersOK, In, Types
<1>8. PendOK'
  <2>1. \A u \in Turn : Closed(u)' => Closed(u)
    BY <1>2, <1>3 DEF Closed
  <2> QED BY <1>1, <2>1, PendPart
<1> QED BY <1>3, <1>4, <1>5, <1>6, <1>7, <1>8 DEF DialogueInv

LEMMA PromptStep ==
  ASSUME DialogueInv, NEW t \in Turn, _prompt_on_helper(t) PROVE DialogueInv'
<1> DEFINE c == conn[chatOf(t)]
<1>1. /\ Types /\ RequestsOK /\ TurnsOK /\ OneOpenTurn /\ OpenOK /\ PendOK
      /\ chatOf(t) \in Chat /\ In(t, chatOf(t)) /\ worker[t] = "start" /\ verdict[t] = "open"
  BY WorkerChat DEF DialogueInv, _prompt_on_helper, WorkersOK
<1>2. UNCHANGED <<dialogueStoreVars, memoryVars, request, agent, historyVars>>
  BY DEF _prompt_on_helper
<1>3. PICK p \in {"wait", "ended"} : worker' = [worker EXCEPT ![t] = p]
  BY DEF _prompt_on_helper
<1>4. /\ worker' \in [Turn -> Place] /\ worker'[t] = p
      /\ \A u \in Turn : u # t => worker'[u] = worker[u]
      /\ RequestsOK'
  BY <1>1, <1>2, <1>3, WorkerMoves DEF dialogueStoreVars, Place, Busy, AtWork
<1>5. \A d \in Conn : prompt[d] # t
  BY <1>1, NoTurn DEF DialogueInv, PromptOK
<1>6. /\ verdict' \in [Turn -> Outcomes] /\ \A u \in Turn : u # t => verdict'[u] = verdict[u]
      /\ verdict'[t] # "completed"
      /\ p = "wait" => verdict'[t] = "open"
      /\ p = "ended" => verdict'[t] # "open"
  <2>1. CASE p = "wait"
    <3>1. verdict' = verdict
      BY <1>1, <1>3, <1>4, <2>1 DEF _prompt_on_helper, Types
    <3> QED BY <1>1, <2>1, <3>1 DEF Types
  <2>2. CASE p = "ended"
    <3>1. PICK v \in {"interrupted", "failed"} : verdict' = [verdict EXCEPT ![t] = v]
      BY <1>1, <1>3, <1>4, <2>2 DEF _prompt_on_helper, Types
    <3> QED BY <1>1, <2>2, <3>1 DEF Types, Outcomes
  <2> QED BY <2>1, <2>2
<1>7. /\ prompt' \in [Conn -> Turn \cup {NoOne}]
      /\ UNCHANGED prompt \/ (c \in Conn /\ prompt' = [prompt EXCEPT ![c] = t])
  <2>1. c \in Conn \cup {NoOne} /\ prompt \in [Conn -> Turn \cup {NoOne}]
    BY <1>1 DEF Types
  <2>2. UNCHANGED prompt \/ (c # NoOne /\ prompt' = [prompt EXCEPT ![c] = t])
    BY DEF _prompt_on_helper
  <2> QED BY <2>1, <2>2
<1>8. Types'
  BY <1>1, <1>2, <1>4, <1>6, <1>7 DEF Types, dialogueStoreVars, memoryVars, historyVars
<1>9. TurnsOK' /\ OneOpenTurn'
  BY <1>1, <1>2, LogPart DEF dialogueStoreVars, historyVars
<1>10. OpenOK'
  BY <1>1, <1>2, <1>4, OpenPart DEF LaunchesStay, dialogueStoreVars, memoryVars, Types, Busy, AtWork
<1>11. PromptOK'
  <2>1. ASSUME NEW d \in Conn, prompt'[d] # NoOne
        PROVE  /\ worker'[prompt'[d]] \notin {"none", "start"} /\ verdict'[prompt'[d]] # "completed"
               /\ prompt'[d] = prompt[d] \/ (prompt'[d] = t /\ d = c)
    BY <1>1, <1>4, <1>6, <1>7, <2>1 DEF DialogueInv, PromptOK, Types
  <2>2. ASSUME NEW d \in Conn, NEW e \in Conn, prompt'[d] # NoOne, prompt'[d] = prompt'[e]
        PROVE  d = e
    BY <1>5, <2>1, <2>2 DEF DialogueInv, PromptOK
  <2> QED BY <2>1, <2>2 DEF PromptOK
<1>12. WorkersOK'
  <2>1. outcome[t] # "completed"
    BY <1>1 DEF DialogueInv, WorkersOK
  <2> QED BY <1>1, <1>2, <1>4, <1>6, <2>1 DEF DialogueInv, WorkersOK, In, dialogueStoreVars
<1>13. PendOK'
  <2>1. \A u \in Turn : Closed(u)' => Closed(u)
    BY <1>2, <1>4, <1>6 DEF Closed, dialogueStoreVars
  <2> QED BY <1>1, <1>2, <2>1, PendPart DEF dialogueStoreVars, memoryVars
<1> QED BY <1>4, <1>8, <1>9, <1>10, <1>11, <1>12, <1>13 DEF DialogueInv

LEMMA HelperFailsStep ==
  ASSUME DialogueInv, NEW t \in Turn, HelperFails(t) PROVE DialogueInv'
<1>1. /\ worker[t] # "none" /\ Dies(t) /\ pend' = pend
      /\ UNCHANGED <<bound, turns, outcome, seen, request, started, events, owner>>
  BY DEF HelperFails, dialogueStoreVars
<1>2. pend \in [Chat -> Seq(Turn)]
  BY DEF DialogueInv, Types
<1> QED BY <1>1, <1>2, DiesStep

LEMMA FlushStep ==
  ASSUME DialogueInv, NEW t \in Turn, _flush_once(t) PROVE DialogueInv'
<1> DEFINE s == chatOf(t)
<1>1. Types /\ RequestsOK /\ TurnsOK /\ OneOpenTurn /\ OpenOK /\ PendOK /\ s \in Chat
      /\ worker[t] \notin {"none", "start"}
  BY WorkerChat DEF DialogueInv, _flush_once
<1>2. /\ UNCHANGED <<bound, turns, outcome, seen, request, started, events, owner>>
      /\ pend' = [pend EXCEPT ![s] = <<>>]
  BY DEF _flush_once
<1>3. /\ pend' \in [Chat -> Seq(Turn)]
      /\ \A x \in Chat : pend'[x] = pend[x] \/ pend'[x] = <<>>
  <2>1. <<>> \in Seq(Turn)
    OBVIOUS
  <2> QED BY <1>1, <1>2, <2>1 DEF Types
<1>4. CASE _store_failure(t)
  BY <1>1, <1>2, <1>3, <1>4, StoreFailureStep
<1>5. CASE UNCHANGED <<conn, open, agentVars>>
  <2>1. Types'
    BY <1>1, <1>2, <1>3, <1>5 DEF Types, agentVars
  <2>2. TurnsOK' /\ OneOpenTurn'
    BY <1>1, <1>2, LogPart
  <2>3. OpenOK' /\ PromptOK' /\ WorkersOK' /\ RequestsOK'
    BY <1>2, <1>5 DEF DialogueInv, OpenOK, Launching, Launches, PromptOK, WorkersOK, RequestsOK, Remembers, In, agentVars
  <2>4. PendOK'
    <3>1. \A u \in Turn : Closed(u)' => Closed(u)
      BY <1>2, <1>5 DEF Closed, agentVars
    <3> QED BY <1>1, <1>2, <1>3, <3>1, PendPart
  <2> QED BY <2>1, <2>2, <2>3, <2>4 DEF DialogueInv
<1>6. CASE Dies(t)
  BY <1>1, <1>2, <1>3, <1>6, DiesStep
<1> QED BY <1>4, <1>5, <1>6 DEF _flush_once

LEMMA DrainedStep ==
  ASSUME DialogueInv, NEW t \in Turn, Drained(t) PROVE DialogueInv'
<1>1. /\ Types /\ RequestsOK /\ TurnsOK /\ OneOpenTurn /\ OpenOK /\ PendOK
      /\ worker[t] = "ended" /\ verdict[t] # "open" /\ pend[chatOf(t)] = <<>>
      /\ \A s \in Chat : In(t, s) => s = chatOf(t)
  BY WorkerChat DEF DialogueInv, Drained, WorkersOK
<1>2. UNCHANGED <<dialogueStoreVars, memoryVars, request, agent, prompt, verdict, historyVars>>
      /\ worker' = [worker EXCEPT ![t] = "drained"]
  BY DEF Drained
<1>3. /\ worker' \in [Turn -> Place] /\ worker'[t] = "drained"
      /\ \A u \in Turn : u # t => worker'[u] = worker[u]
      /\ RequestsOK'
  BY <1>1, <1>2, WorkerMoves DEF dialogueStoreVars, Place, Busy, AtWork
<1>4. Types'
  BY <1>1, <1>2, <1>3 DEF Types, dialogueStoreVars, memoryVars, historyVars
<1>5. TurnsOK' /\ OneOpenTurn'
  BY <1>1, <1>2, LogPart DEF dialogueStoreVars, historyVars
<1>6. OpenOK'
  BY <1>1, <1>2, <1>3, OpenPart DEF LaunchesStay, dialogueStoreVars, memoryVars, Types, Busy, AtWork
<1>7. PromptOK'
  BY <1>1, <1>2, <1>3 DEF DialogueInv, PromptOK, Types
<1>8. WorkersOK'
  BY <1>1, <1>2, <1>3 DEF DialogueInv, WorkersOK, In, dialogueStoreVars
<1>9. PendOK'
  <2>1. \A s \in Chat : t \notin Range(pend[s])
    BY <1>1, RangeEmpty DEF PendOK
  <2>2. \A u \in Turn : u # t => (Closed(u)' <=> Closed(u))
    BY <1>2, <1>3 DEF Closed, dialogueStoreVars
  <2>3. \A s \in Chat : Range(pend[s]) \subseteq Turn
    BY <1>1, RangeOf DEF Types
  <2> QED BY <1>1, <1>2, <2>1, <2>2, <2>3 DEF PendOK, In, dialogueStoreVars, memoryVars
<1> QED BY <1>3, <1>4, <1>5, <1>6, <1>7, <1>8, <1>9 DEF DialogueInv

LEMMA FinishStep ==
  ASSUME DialogueInv, NEW t \in Turn, Finish(t) PROVE DialogueInv'
<1>1. /\ Types /\ RequestsOK /\ TurnsOK /\ OneOpenTurn /\ OpenOK /\ PendOK
      /\ worker[t] = "drained" /\ verdict[t] # "open" /\ verdict[t] \in Outcomes
  BY DEF DialogueInv, Finish, WorkersOK, Types
<1>2. UNCHANGED <<bound, turns, pend, seen, request, started, events, owner>>
  BY DEF Finish
<1>3. CASE _store_failure(t) /\ UNCHANGED outcome
  <2>1. pend' \in [Chat -> Seq(Turn)]
    BY <1>1, <1>2 DEF Types
  <2> QED BY <1>1, <1>2, <1>3, <2>1, StoreFailureStep
<1>4. CASE /\ outcome' = [outcome EXCEPT ![t] = verdict[t]]
           /\ worker' = [worker EXCEPT ![t] = "finished"]
           /\ UNCHANGED <<conn, open, agent, prompt, verdict, troubles, excused>>
  <2>1. /\ worker' \in [Turn -> Place] /\ worker'[t] = "finished"
        /\ \A u \in Turn : u # t => worker'[u] = worker[u]
        /\ RequestsOK'
    BY <1>1, <1>2, <1>4, WorkerMoves DEF Place, Busy, AtWork
  <2>2. /\ outcome' \in [Turn -> Outcomes] /\ outcome'[t] = verdict[t]
        /\ \A u \in Turn : u # t => outcome'[u] = outcome[u]
    BY <1>1, <1>4 DEF Types
  <2>3. Types'
    BY <1>1, <1>2, <1>4, <2>1, <2>2 DEF Types
  <2>4. TurnsOK' /\ OneOpenTurn'
    <3>1. \A u \in Turn : outcome[u] # "open" => outcome'[u] # "open"
      BY <1>1, <2>2
    <3> QED BY <1>1, <1>2, <3>1, LogPart
  <2>5. OpenOK'
    BY <1>1, <1>2, <1>4, <2>1, OpenPart DEF LaunchesStay, Types, Busy, AtWork
  <2>6. PromptOK'
    BY <1>1, <1>4, <2>1 DEF DialogueInv, PromptOK, Types
  <2>7. WorkersOK'
    BY <1>1, <1>2, <1>4, <2>1, <2>2 DEF DialogueInv, WorkersOK, In
  <2>8. PendOK'
    <3>1. \A u \in Turn : Closed(u)' => Closed(u)
      BY <1>1, <1>4, <2>1, <2>2 DEF Closed
    <3> QED BY <1>1, <1>2, <3>1, PendPart
  <2> QED BY <2>1, <2>3, <2>4, <2>5, <2>6, <2>7, <2>8 DEF DialogueInv
<1>5. CASE Dies(t) /\ UNCHANGED outcome
  <2>1. pend' \in [Chat -> Seq(Turn)]
    BY <1>1, <1>2 DEF Types
  <2> QED BY <1>1, <1>2, <1>5, <2>1, DiesStep
<1> QED BY <1>3, <1>4, <1>5 DEF Finish

LEMMA ForgetStep ==
  ASSUME DialogueInv, NEW t \in Turn, Forget(t) PROVE DialogueInv'
<1> DEFINE s == chatOf(t)
<1>1. /\ Types /\ RequestsOK /\ TurnsOK /\ OneOpenTurn /\ OpenOK /\ PendOK
      /\ worker[t] = "finished" /\ verdict[t] # "open" /\ s \in Chat
  BY WorkerChat DEF DialogueInv, Forget, WorkersOK
<1>2. /\ UNCHANGED <<dialogueStoreVars, conn, pend, seen, request, agent, prompt, verdict,
                     historyVars>>
      /\ open' = [open EXCEPT ![s] = NoOne]
  BY DEF Forget
<1>3. PICK p \in {"unregister", "done"} : worker' = [worker EXCEPT ![t] = p]
  BY DEF Forget
<1>4. /\ worker' \in [Turn -> Place] /\ worker'[t] = p
      /\ \A u \in Turn : u # t => worker'[u] = worker[u]
      /\ RequestsOK'
  BY <1>1, <1>2, <1>3, WorkerMoves DEF dialogueStoreVars, Place, Busy, AtWork
<1>5. Types'
  BY <1>1, <1>2, <1>4 DEF Types, dialogueStoreVars, historyVars
<1>6. TurnsOK' /\ OneOpenTurn'
  BY <1>1, <1>2, LogPart DEF dialogueStoreVars, historyVars
<1>7. OpenOK'
  <2>1. ASSUME NEW x \in Chat
        PROVE  /\ open'[x] = open[x] \/ open'[x] = NoOne
               /\ open'[x] # NoOne /\ worker[open[x]] \in Busy => worker'[open[x]] \in Busy
    <3>1. CASE x = s
      BY <1>1, <1>2, <3>1 DEF Types
    <3>2. CASE x # s
      <4>1. open'[x] = open[x] /\ open[x] # t
        BY <1>1, <1>2, <3>2, OpenElsewhere DEF Types
      <4> QED BY <1>1, <1>4, <4>1 DEF Types
    <3> QED BY <3>1, <3>2
  <2>2. LaunchesStay /\ \A u \in Turn : worker[u] = "none" => worker'[u] = "none"
    BY <1>1, <1>2, <1>4 DEF LaunchesStay
  <2> QED BY <1>1, <1>2, <2>1, <2>2, OpenPart DEF dialogueStoreVars
<1>8. PromptOK'
  BY <1>1, <1>2, <1>4 DEF DialogueInv, PromptOK, Types
<1>9. WorkersOK'
  BY <1>1, <1>2, <1>4 DEF DialogueInv, WorkersOK, In, dialogueStoreVars
<1>10. PendOK'
  <2>1. \A u \in Turn : Closed(u)' => Closed(u)
    BY <1>2, <1>4 DEF Closed, dialogueStoreVars
  <2> QED BY <1>1, <1>2, <2>1, PendPart DEF dialogueStoreVars
<1> QED BY <1>4, <1>5, <1>6, <1>7, <1>8, <1>9, <1>10 DEF DialogueInv

LEMMA UnregisterStep ==
  ASSUME DialogueInv, NEW t \in Turn, Unregister(t) PROVE DialogueInv'
<1> DEFINE s == chatOf(t)
           W == {t}
           D == {conn[s]} \ {NoOne}
<1>1. Types /\ worker[t] = "unregister" /\ s \in Chat
  BY WorkerChat DEF DialogueInv, Unregister
<1>2. /\ UNCHANGED <<dialogueStoreVars, open, pend, seen, request, historyVars>>
      /\ conn' = [conn EXCEPT ![s] = NoOne] /\ Ended(D, W, "done")
  BY DEF Unregister
<1>3. /\ conn' \in [Chat -> Conn \cup {NoOne}] /\ open' \in [Chat -> Turn \cup {NoOne}]
      /\ pend' \in [Chat -> Seq(Turn)]
  BY <1>1, <1>2 DEF Types
<1>4. \A x \in Chat : open'[x] # t
  BY <1>1, <1>2, OpenElsewhere DEF Busy, AtWork
<1>5. /\ W \in SUBSET Turn /\ \A u \in W : worker[u] \notin {"none", "start"}
      /\ \A x \in Chat : open'[x] \notin W
  BY <1>1, <1>4
<1> HIDE DEF W, D
<1> QED BY <1>2, <1>3, <1>5, EndsStep DEF dialogueStoreVars, historyVars

LEMMA LastFinishStep ==
  ASSUME DialogueInv, NEW t \in Turn, LastFinish(t) PROVE DialogueInv'
<1>1. /\ Types /\ RequestsOK /\ TurnsOK /\ OneOpenTurn /\ OpenOK /\ PendOK
      /\ worker[t] = "failing"
  BY DEF DialogueInv, LastFinish
<1>2. UNCHANGED <<bound, turns, memoryVars, request, agent, prompt, verdict, started, events, owner>>
      /\ worker' = [worker EXCEPT ![t] = "done"]
  BY DEF LastFinish
<1>3. /\ worker' \in [Turn -> Place] /\ worker'[t] = "done"
      /\ \A u \in Turn : u # t => worker'[u] = worker[u]
      /\ RequestsOK'
  BY <1>1, <1>2, WorkerMoves DEF Place, Busy, AtWork
<1>4. /\ outcome' \in [Turn -> Outcomes]
      /\ \A u \in Turn : outcome'[u] = outcome[u] \/ outcome'[u] = "failed"
  <2>1. UNCHANGED outcome \/ outcome' = [outcome EXCEPT ![t] = "failed"]
    BY DEF LastFinish
  <2> QED BY <1>1, <2>1 DEF Types, Outcomes
<1>5. Types'
  BY <1>1, <1>2, <1>3, <1>4 DEF Types, memoryVars
<1>6. TurnsOK' /\ OneOpenTurn'
  BY <1>1, <1>2, <1>4, LogPart
<1>7. OpenOK'
  <2>1. \A x \in Chat : open[x] # t
    BY <1>1, OpenElsewhere DEF Busy, AtWork
  <2> QED BY <1>1, <1>2, <1>3, <2>1, OpenPart DEF LaunchesStay, memoryVars, Types
<1>8. PromptOK'
  BY <1>1, <1>2, <1>3 DEF DialogueInv, PromptOK, Types
<1>9. WorkersOK'
  BY <1>1, <1>2, <1>3, <1>4 DEF DialogueInv, WorkersOK, In
<1>10. PendOK'
  <2>1. \A u \in Turn : Closed(u)' => Closed(u)
    BY <1>2, <1>3, <1>4 DEF Closed
  <2> QED BY <1>1, <1>2, <2>1, PendPart DEF memoryVars
<1> QED BY <1>3, <1>5, <1>6, <1>7, <1>8, <1>9, <1>10 DEF DialogueInv

-----------------------------------------------------------------------------
(* The agent, and the host's end *)

LEMMA AgentEventStep ==
  ASSUME DialogueInv, NEW c \in Conn, AgentEvent(c) PROVE DialogueInv'
<1> DEFINE t == prompt[c]
           s == owner[c]
<1>1. /\ Types /\ RequestsOK /\ TurnsOK /\ OneOpenTurn /\ OpenOK /\ PendOK
      /\ t \in Turn /\ verdict[t] # "completed" /\ ~Closed(t)
  BY DEF DialogueInv, AgentEvent, Types, PromptOK, Closed
<1>2. UNCHANGED <<dialogueStoreVars, conn, open, seen, request, agentVars, started, owner>>
  BY DEF AgentEvent
<1>3. events' \in 0..MaxEvents
  BY <1>1 DEF AgentEvent, Types
<1>4. \/ UNCHANGED pend
      \/ s \in Chat /\ In(t, s) /\ pend' = [pend EXCEPT ![s] = Append(@, t)]
  <2>1. CASE s \in Chat
    BY <1>1, <2>1, NoTurn DEF AgentEvent, OpenOK
  <2>2. CASE s \notin Chat
    BY <1>1, <2>2 DEF AgentEvent, Types
  <2> QED BY <2>1, <2>2
<1>5. /\ pend' \in [Chat -> Seq(Turn)]
      /\ \A x \in Chat : Range(pend'[x]) = Range(pend[x])
                         \/ (In(t, x) /\ Range(pend'[x]) = Range(pend[x]) \cup {t})
  <2>1. CASE UNCHANGED pend
    BY <1>1, <2>1 DEF Types
  <2>2. CASE s \in Chat /\ In(t, s) /\ pend' = [pend EXCEPT ![s] = Append(@, t)]
    <3>1. pend[s] \in Seq(Turn)
      BY <1>1, <2>2 DEF Types
    <3>2. Append(pend[s], t) \in Seq(Turn) /\ Range(Append(pend[s], t)) = Range(pend[s]) \cup {t}
      BY <1>1, <3>1, RangeAppend
    <3>3. pend'[s] = Append(pend[s], t) /\ \A x \in Chat : x # s => pend'[x] = pend[x]
      BY <1>1, <2>2 DEF Types
    <3>4. pend' \in [Chat -> Seq(Turn)]
      BY <1>1, <2>2, <3>2 DEF Types
    <3> QED BY <2>2, <3>2, <3>3, <3>4
  <2> QED BY <1>4, <2>1, <2>2
<1>6. Types'
  BY <1>1, <1>2, <1>3, <1>5 DEF Types, dialogueStoreVars, agentVars
<1>7. TurnsOK' /\ OneOpenTurn'
  BY <1>1, <1>2, LogPart DEF dialogueStoreVars
<1>8. OpenOK' /\ PromptOK' /\ WorkersOK' /\ RequestsOK'
  BY <1>2 DEF DialogueInv, OpenOK, Launching, Launches, PromptOK, WorkersOK, RequestsOK, Remembers, In,
     dialogueStoreVars, agentVars
<1>9. PendOK'
  <2>1. \A u \in Turn : Closed(u)' <=> Closed(u)
    BY <1>2 DEF Closed, dialogueStoreVars, agentVars
  <2>2. \A x \in Chat : Range(pend[x]) \subseteq Turn
    BY <1>1, RangeOf DEF Types
  <2> QED BY <1>1, <1>2, <1>5, <2>1, <2>2 DEF PendOK, In, dialogueStoreVars
<1> QED BY <1>6, <1>7, <1>8, <1>9 DEF DialogueInv

LEMMA AgentAnswersStep ==
  ASSUME DialogueInv, NEW c \in Conn, AgentAnswers(c) PROVE DialogueInv'
<1> DEFINE t == prompt[c]
<1>1. /\ Types /\ RequestsOK /\ TurnsOK /\ OneOpenTurn /\ OpenOK /\ PendOK
      /\ t \in Turn /\ worker[t] \notin {"none", "start"}
      /\ \A d \in Conn : prompt[d] = t => d = c
  BY NoTurn DEF DialogueInv, AgentAnswers, Types, PromptOK
<1>2. /\ UNCHANGED <<dialogueStoreVars, memoryVars, request, agent, started, events, owner>>
      /\ prompt' = [prompt EXCEPT ![c] = NoOne]
  BY DEF AgentAnswers
<1>3. \/ UNCHANGED <<worker, verdict>>
      \/ \E v \in Answers : /\ worker[t] = "wait" /\ worker' = [worker EXCEPT ![t] = "ended"]
                            /\ verdict' = [verdict EXCEPT ![t] = v]
  BY DEF AgentAnswers
<1>4. /\ worker' \in [Turn -> Place] /\ verdict' \in [Turn -> Outcomes]
      /\ \A u \in Turn : u # t => worker'[u] = worker[u] /\ verdict'[u] = verdict[u]
      /\ \/ worker'[t] = worker[t] /\ verdict'[t] = verdict[t]
         \/ worker[t] = "wait" /\ worker'[t] = "ended" /\ verdict'[t] # "open"
  <2>1. Answers \subseteq Outcomes \ {"open"}
    BY DEF Outcomes
  <2> QED BY <1>1, <1>3, <2>1 DEF Types, Place, Busy, AtWork
<1>5. /\ prompt' \in [Conn -> Turn \cup {NoOne}] /\ prompt'[c] = NoOne
      /\ \A d \in Conn : d # c => prompt'[d] = prompt[d]
  BY <1>1, <1>2 DEF Types
<1>6. Types'
  BY <1>1, <1>2, <1>4, <1>5 DEF Types, dialogueStoreVars, memoryVars
<1>7. TurnsOK' /\ OneOpenTurn'
  BY <1>1, <1>2, LogPart DEF dialogueStoreVars
<1>8. RequestsOK'
  BY <1>1, <1>2, <1>4, RequestPart DEF dialogueStoreVars
<1>9. OpenOK'
  BY <1>1, <1>2, <1>4, OpenPart DEF LaunchesStay, dialogueStoreVars, memoryVars, Types, Busy, AtWork
<1>10. PromptOK'
  <2>1. \A d \in Conn : prompt'[d] # NoOne => d # c /\ prompt'[d] = prompt[d] /\ prompt[d] # t
                                              /\ prompt[d] \in Turn
    BY <1>1, <1>5 DEF Types
  <2> QED BY <1>4, <2>1 DEF DialogueInv, PromptOK
<1>11. WorkersOK'
  <2>1. worker[t] = "wait" => verdict[t] = "open" /\ outcome[t] # "completed"
    BY <1>1 DEF DialogueInv, WorkersOK
  <2> QED BY <1>1, <1>2, <1>4, <2>1 DEF DialogueInv, WorkersOK, In, dialogueStoreVars
<1>12. PendOK'
  <2>1. worker[t] = "wait" => outcome[t] # "completed"
    BY <1>1 DEF DialogueInv, WorkersOK
  <2>2. \A u \in Turn : Closed(u)' => Closed(u)
    BY <1>2, <1>4, <2>1 DEF Closed, dialogueStoreVars
  <2> QED BY <1>1, <1>2, <2>2, PendPart DEF dialogueStoreVars, memoryVars
<1> QED BY <1>6, <1>7, <1>8, <1>9, <1>10, <1>11, <1>12 DEF DialogueInv

LEMMA AgentLostStep ==
  ASSUME DialogueInv, NEW c \in Conn, AgentLost(c) PROVE DialogueInv'
<1> DEFINE D == {c}
           W == {}
<1>1. /\ Ended(D, W, "") /\ W \in SUBSET Turn /\ W = {}
      /\ UNCHANGED <<dialogueStoreVars, memoryVars, request, started, events, owner>>
  BY DEF AgentLost
<1>2. Types
  BY DEF DialogueInv
<1> HIDE DEF D, W
<1> QED BY <1>1, <1>2, EndsStep DEF dialogueStoreVars, memoryVars, Types

LEMMA RestartStep ==
  ASSUME DialogueInv, Restart PROVE DialogueInv'
<1>1. Types /\ RequestsOK /\ TurnsOK /\ OneOpenTurn /\ OpenOK /\ PendOK
  BY DEF DialogueInv
<1>2. /\ UNCHANGED <<dialogueStoreVars, verdict, started, events, owner>>
      /\ conn' = [s \in Chat |-> NoOne] /\ open' = [s \in Chat |-> NoOne]
      /\ pend' = [s \in Chat |-> <<>>] /\ seen' = [s \in Chat |-> {}]
      /\ request' = [k \in Thread |-> Idle]
      /\ worker' = [t \in Turn |-> IF worker[t] = "none" THEN "none" ELSE "done"]
      /\ prompt' = [c \in Conn |-> NoOne]
      /\ agent' = [c \in Conn |-> IF agent[c] = "up" THEN "gone" ELSE agent[c]]
  BY DEF Restart
<1>3. Types'
  <2>1. <<>> \in Seq(Turn)
    OBVIOUS
  <2> QED BY <1>1, <1>2, <2>1, IdleStep DEF Types, dialogueStoreVars, Place
<1>4. TurnsOK' /\ OneOpenTurn'
  BY <1>1, <1>2, LogPart DEF dialogueStoreVars
<1>5. RequestsOK'
  BY <1>2, IdleStep DEF RequestsOK, Remembers
<1>6. OpenOK' /\ PromptOK'
  BY <1>2 DEF OpenOK, PromptOK
<1>7. WorkersOK'
  BY <1>2 DEF DialogueInv, WorkersOK, In, dialogueStoreVars
<1>8. PendOK'
  BY <1>2, RangeEmpty DEF PendOK
<1> QED BY <1>3, <1>4, <1>5, <1>6, <1>7, <1>8 DEF DialogueInv

-----------------------------------------------------------------------------
(* The theorems *)

LEMMA DialogueStep == DialogueInv /\ [DialogueNext]_dialogueVars => DialogueInv'
<1> SUFFICES ASSUME DialogueInv, [DialogueNext]_dialogueVars PROVE DialogueInv'
  OBVIOUS
<1>1. CASE UNCHANGED dialogueVars
  <2>1. Types'
    BY <1>1 DEF DialogueInv, Types, dialogueVars, dialogueStoreVars, memoryVars, agentVars,
       historyVars
  <2>2. RequestsOK' /\ LaunchesStay
    BY <1>1 DEF DialogueInv, RequestsOK, Remembers, In, LaunchesStay, dialogueVars, dialogueStoreVars,
       agentVars
  <2> QED BY <1>1, <2>1, <2>2, QuietStep DEF dialogueVars, dialogueStoreVars, memoryVars,
          agentVars, historyVars
<1>2. ASSUME NEW k \in Thread, RequestStep(k) PROVE DialogueInv'
  BY <1>2, ReadsStep, ChecksStep, FinishStaleStep, SpawnStep, RecordConnectStep, RegisterStep,
     StoreFailsStep, StartTurnStep, RecordTurnStep, StartWorkerStep DEF RequestStep
<1>3. ASSUME NEW t \in Turn, WorkerStep(t) PROVE DialogueInv'
  BY <1>3, HelperFailsStep, PromptStep, FlushStep, DrainedStep, FinishStep, ForgetStep, UnregisterStep,
     LastFinishStep DEF WorkerStep
<1>4. ASSUME NEW c \in Conn, AgentStep(c) PROVE DialogueInv'
  BY <1>4, AgentEventStep, AgentAnswersStep, AgentLostStep DEF AgentStep
<1> QED BY <1>1, <1>2, <1>3, <1>4, RestartStep DEF DialogueNext

LEMMA DialogueInvHolds == DialogueSpec => []DialogueInv
BY DialogueStart, DialogueStep, PTL DEF DialogueSpec

\* The state of the service, its store and its connections is well formed.
THEOREM DialogueTypeCorrect == DialogueSpec => []DialogueTypeOK
<1>1. DialogueInv => DialogueTypeOK
  BY RangeOf DEF DialogueInv, Types, DialogueTypeOK
<1> QED BY <1>1, DialogueInvHolds, PTL

\* start_turn() refuses a second open turn whatever the threads, the restarts
\* and the failures of the store did before: one turn of a log is open.
THEOREM OneOpenTurnHolds == DialogueSpec => []OneOpenTurn
<1>1. DialogueInv => OneOpenTurn
  BY DEF DialogueInv
<1> QED BY <1>1, DialogueInvHolds, PTL

\* However its worker ends (finish_turn, a store error, a lost agent), it first
\* clears open_turn_id; a session waits for a worker that is gone only if the
\* worker could not be started or was ended by an uncaught exception.
THEOREM NeverWedgedHolds == DialogueSpec => []NeverWedged
<1>1. DialogueInv => NeverWedged
  BY DEF DialogueInv, OpenOK, Launching, NeverWedged, Busy
<1> QED BY <1>1, DialogueInvHolds, PTL

\* _TurnWorker drains the sink after the prompt has answered and before it
\* finishes a completed turn, and no agent sends for that turn any more.
THEOREM DrainedBeforeFinishedHolds == DialogueSpec => []DrainedBeforeFinished
<1>1. DialogueInv => DrainedBeforeFinished
  <2> SUFFICES ASSUME DialogueInv, NEW s \in Chat, NEW t \in Range(pend[s])
               PROVE  outcome[t] # "completed"
    BY DEF DrainedBeforeFinished
  <2>1. t \in Turn
    BY RangeOf DEF DialogueInv, Types
  <2> QED BY <2>1 DEF DialogueInv, PendOK, Closed, WorkersOK
<1> QED BY <1>1, DialogueInvHolds, PTL

=============================================================================
