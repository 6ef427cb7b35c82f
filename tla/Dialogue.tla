------------------------------ MODULE Dialogue ------------------------------
(***************************************************************************)
(* The dialogue service of the action host (widget/dialogue_service.py),   *)
(* its store (runtime/dialogue_store.py) and the agent connections it      *)
(* drives (runtime/adapters/acp_adapter.py).  Every request runs on a      *)
(* thread of its own; each accepted turn has a worker thread, which        *)
(* persists the turn's live events, and a helper thread, which blocks in   *)
(* connection.prompt.  An action here is one section of a thread between   *)
(* two points where the others may run: a section under the service's      *)
(* lock, or one call of the store, whose lock makes check and append one.  *)
(***************************************************************************)
EXTENDS Naturals, Sequences, FiniteSets, SequencesExt

CONSTANTS
  Chat,         \* dialogue sessions
  Thread,       \* request threads of the host, numbered
  Conn,         \* agent connections that may ever be opened
  RequestId,    \* client_request_ids
  MaxTurns,     \* bound: turns ever started
  MaxEvents,    \* bound: live events of all turns
  Answers,      \* what an agent may answer a prompt with
  MaxAgents,    \* max_live_agents
  MaxTroubles,  \* bound: restarts of the host, agents that die, time out or fail
                \* to start, threads that cannot be started, and store calls that
                \* fail on disk, all together
  NoOne

ASSUME DialogueAssumption ==
  /\ {MaxTurns, MaxEvents, MaxAgents, MaxTroubles} \subseteq Nat
  /\ Thread \subseteq Nat
  /\ Answers \subseteq {"completed", "cancelled", "failed"}
  /\ NoOne \notin Conn \cup RequestId \cup Nat

VARIABLES
  \* the session logs
  bound,        \* bound[s]: the session is bound to an agent's session
  turns,        \* turns[s]: its turns, oldest first
  outcome,      \* outcome[t]: "open" until the turn's finished event
  \* the host's memory (_Session)
  conn,         \* conn[s]: the registered connection
  open,         \* open[s]: open_turn_id
  pend,         \* pend[s]: the turns of the live events awaiting a flush
  seen,         \* seen[s]: client_request_ids already answered with a turn
  \* threads
  request,      \* request[k]: what request thread k is doing
  worker,       \* worker[t]: where the worker of turn t is
  verdict,      \* verdict[t]: the outcome its prompt ended with
  \* connections
  agent,        \* agent[c]: "none", "up" or "gone"
  prompt,       \* prompt[c]: the turn whose prompt is in flight on c
  \* counters and history
  started, events, owner,
  troubles,     \* how many there were
  excused       \* one was a restart, a failure of the disk or of a thread's start

dialogueStoreVars == <<bound, turns, outcome>>
memoryVars == <<conn, open, pend, seen>>
agentVars == <<agent, prompt, worker, verdict>>
historyVars == <<started, events, owner, troubles, excused>>
dialogueVars == <<dialogueStoreVars, memoryVars, request, agentVars, historyVars>>

Turn == 1..MaxTurns
Idle == [op |-> "idle", at |-> "", s |-> NoOne, t |-> NoOne, c |-> NoOne,
         q |-> NoOne, load |-> FALSE]
Outcomes == {"open", "completed", "cancelled", "failed", "interrupted"}

DialogueInit ==
  /\ bound = [s \in Chat |-> FALSE]
  /\ turns = [s \in Chat |-> <<>>]
  /\ outcome = [t \in Turn |-> "open"]
  /\ conn = [s \in Chat |-> NoOne]
  /\ open = [s \in Chat |-> NoOne]
  /\ pend = [s \in Chat |-> <<>>]
  /\ seen = [s \in Chat |-> {}]
  /\ request = [k \in Thread |-> Idle]
  /\ worker = [t \in Turn |-> "none"]
  /\ verdict = [t \in Turn |-> "open"]
  /\ agent = [c \in Conn |-> "none"]
  /\ prompt = [c \in Conn |-> NoOne]
  /\ started = 0
  /\ events = 0
  /\ owner = [c \in Conn |-> NoOne]
  /\ troubles = 0 /\ excused = FALSE

----------------------------------------------------------------------------
\* The store's view of a session: only the last turn can be open.
open_turn(s) ==
  IF turns[s] # <<>> /\ outcome[Last(turns[s])] = "open"
  THEN Last(turns[s]) ELSE NoOne

chatOf(t) == CHOOSE s \in Chat : t \in Range(turns[s])
Becomes(k, step) == request' = [request EXCEPT ![k] = step]

\* Idle threads are alike: the first of them takes the next request.
Takes(k) == request[k] = Idle /\ \A j \in Thread : j < k => request[j] # Idle

Trouble(excuse) ==
  /\ troubles < MaxTroubles
  /\ troubles' = troubles + 1
  /\ excused' = (excused \/ excuse)

\* The turn's worker has still to clear open_turn_id.
AtWork == {"start", "wait", "ended", "drained", "finished"}

\* A thread that has remembered turn t and has not yet started its worker.
Launches(k, t) == request[k].op = "send" /\ request[k].at = "launch" /\ request[k].t = t

\* Mutant: a connection that ends leaves its prompt unanswered.
EndedUnanswered(D, W, at) ==
  /\ agent' = [c \in Conn |-> IF c \in D THEN "gone" ELSE agent[c]]
  /\ prompt' = [c \in Conn |-> IF c \in D THEN NoOne ELSE prompt[c]]
  /\ worker' = [t \in Turn |-> IF t \in W THEN at ELSE worker[t]]
  /\ UNCHANGED verdict

(***************************************************************************)
(* The agents of D are closed or lost, and the turns of W get the states   *)
(* `at`.  A prompt in flight on a connection that ends is answered with    *)
(* connection_lost; its worker, unless it has already given up, finishes   *)
(* the turn as interrupted.                                                *)
(***************************************************************************)
Ended(D, W, at) ==
  LET cut == {t \in Turn : worker[t] = "wait" /\ \E c \in D : prompt[c] = t}
  IN /\ agent' = [c \in Conn |-> IF c \in D THEN "gone" ELSE agent[c]]
     /\ prompt' = [c \in Conn |-> IF c \in D THEN NoOne ELSE prompt[c]]
     /\ worker' = [t \in Turn |-> IF t \in W THEN at
                                  ELSE IF t \in cut THEN "ended" ELSE worker[t]]
     /\ verdict' = [t \in Turn |-> IF t \in cut THEN "interrupted" ELSE verdict[t]]

----------------------------------------------------------------------------
(***************************************************************************)
(* connect                                                                 *)
(***************************************************************************)

\* It reads the session's log and keeps what it read.
ConnectReads(k, s) ==
  /\ Takes(k)
  /\ Becomes(k, [Idle EXCEPT !.op = "connect", !.at = "check", !.s = s,
                             !.t = open_turn(s), !.load = bound[s]])
  /\ UNCHANGED <<dialogueStoreVars, memoryVars, agentVars, historyVars>>

\* Already connected is refused, under the lock.
ConnectChecks(k) ==
  /\ request[k].op = "connect" /\ request[k].at = "check"
  /\ Becomes(k, IF conn[request[k].s] = NoOne
                THEN [request[k] EXCEPT !.at = "count"] ELSE Idle)
  /\ UNCHANGED <<dialogueStoreVars, memoryVars, agentVars, historyVars>>

\* The cap counts the registered connections, under the lock again.
_connected_count == Cardinality({s \in Chat : conn[s] # NoOne})

ConnectCounts(k) ==
  /\ request[k].op = "connect" /\ request[k].at = "count"
  /\ Becomes(k, IF _connected_count >= MaxAgents THEN Idle
                ELSE [request[k] EXCEPT !.at = "stale"])
  /\ UNCHANGED <<dialogueStoreVars, memoryVars, agentVars, historyVars>>

\* The stale open turn it read is finished as interrupted; the store refuses
\* when that turn is no longer open.
FinishStale(k) ==
  LET t == request[k].t IN
  /\ request[k].op = "connect" /\ request[k].at = "stale"
  /\ IF t = NoOne \/ open_turn(request[k].s) = t
     THEN /\ Becomes(k, [request[k] EXCEPT !.at = "spawn"])
          /\ outcome' = IF t = NoOne THEN outcome
                        ELSE [outcome EXCEPT ![t] = "interrupted"]
     ELSE Becomes(k, Idle) /\ UNCHANGED outcome
  /\ UNCHANGED <<bound, turns, memoryVars, agentVars, historyVars>>

\* The agent is spawned and answers initialize and session/new or session/load.
\* Unused connections are alike.
Spawn(k, c) ==
  /\ request[k].op = "connect" /\ request[k].at = "spawn"
  /\ agent[c] = "none" /\ c = CHOOSE d \in Conn : agent[d] = "none"
  /\ agent' = [agent EXCEPT ![c] = "up"]
  /\ owner' = [owner EXCEPT ![c] = request[k].s]
  /\ Becomes(k, [request[k] EXCEPT !.at = "record", !.c = c])
  /\ UNCHANGED <<dialogueStoreVars, memoryVars, prompt, worker, verdict, started, events,
                 troubles, excused>>

\* It cannot be started, or does not answer in time: closed, 502 or 503.
SpawnFails(k) ==
  /\ request[k].op = "connect" /\ request[k].at = "spawn"
  /\ Trouble(FALSE)
  /\ Becomes(k, Idle)
  /\ UNCHANGED <<dialogueStoreVars, memoryVars, agentVars, started, events, owner>>

\* bind_acp_session for a session read as unbound, record_load for a bound one.
\* The store refuses a second binding and a load while a turn is open.
RecordConnect(k) ==
  LET r == request[k]
      accepted == IF r.load THEN open_turn(r.s) = NoOne ELSE ~bound[r.s]
  IN /\ r.op = "connect" /\ r.at = "record"
     /\ IF accepted
        THEN /\ bound' = [bound EXCEPT ![r.s] = TRUE]
             /\ Becomes(k, [r EXCEPT !.at = "register"])
             /\ UNCHANGED agentVars
        ELSE /\ Ended({r.c}, {}, "") /\ Becomes(k, Idle)
             /\ UNCHANGED bound
     /\ UNCHANGED <<turns, outcome, memoryVars, historyVars>>

\* A store call of a request fails on disk: the request is refused, the agent
\* it has spawned is closed.
StoreFails(k) ==
  LET r == request[k] IN
  /\ \/ r.op = "connect" /\ r.at \in {"stale", "record"}
     \/ r.op = "send" /\ r.at = "start"
  /\ Trouble(TRUE)
  /\ Becomes(k, Idle)
  /\ IF r.at = "record" THEN Ended({r.c}, {}, "") ELSE UNCHANGED agentVars
  /\ UNCHANGED <<dialogueStoreVars, memoryVars, started, events, owner>>

Register(k) ==
  LET r == request[k] IN
  /\ r.op = "connect" /\ r.at = "register"
  /\ conn' = [conn EXCEPT ![r.s] = r.c]
  /\ pend' = [pend EXCEPT ![r.s] = <<>>]
  /\ Becomes(k, Idle)
  /\ UNCHANGED <<dialogueStoreVars, open, seen, agentVars, historyVars>>

----------------------------------------------------------------------------
(***************************************************************************)
(* send_turn                                                               *)
(***************************************************************************)

\* A request id already seen is answered with its turn and changes nothing.
SendChecks(k, s, q) ==
  /\ Takes(k)
  /\ q \notin seen[s] /\ conn[s] # NoOne /\ open[s] = NoOne
  /\ started < MaxTurns
  /\ Becomes(k, [Idle EXCEPT !.op = "send", !.at = "start", !.s = s, !.q = q])
  /\ UNCHANGED <<dialogueStoreVars, memoryVars, agentVars, historyVars>>

\* Mutant: the store starts a turn while another is open.
StartTurnUnchecked(k) ==
  LET r == request[k]
      t == started + 1
  IN /\ r.op = "send" /\ r.at = "start"
     /\ IF bound[r.s] /\ started < MaxTurns
        THEN /\ started' = t
             /\ turns' = [turns EXCEPT ![r.s] = Append(@, t)]
             /\ Becomes(k, [r EXCEPT !.at = "remember", !.t = t])
        ELSE Becomes(k, Idle) /\ UNCHANGED <<started, turns>>
     /\ UNCHANGED <<bound, outcome, memoryVars, agentVars, events, owner, troubles,
                    excused>>

\* The store refuses a turn of an unbound session and a second open turn.
\* The bound on turns refuses it too.
StartTurn(k) ==
  LET r == request[k]
      t == started + 1
  IN /\ r.op = "send" /\ r.at = "start"
     /\ IF bound[r.s] /\ open_turn(r.s) = NoOne /\ started < MaxTurns
        THEN /\ started' = t
             /\ turns' = [turns EXCEPT ![r.s] = Append(@, t)]
             /\ Becomes(k, [r EXCEPT !.at = "remember", !.t = t])
        ELSE Becomes(k, Idle) /\ UNCHANGED <<started, turns>>
     /\ UNCHANGED <<bound, outcome, memoryVars, agentVars, events,
                    owner, troubles, excused>>

\* The turn is remembered, under the lock.
RecordTurn(k) ==
  LET r == request[k] IN
  /\ r.op = "send" /\ r.at = "remember"
  /\ seen' = [seen EXCEPT ![r.s] = @ \cup {r.q}]
  /\ open' = [open EXCEPT ![r.s] = r.t]
  /\ Becomes(k, [r EXCEPT !.at = "launch"])
  /\ UNCHANGED <<dialogueStoreVars, conn, pend, agentVars, historyVars>>

\* Its worker starts, under the lock again.  A thread that cannot be started
\* ends the request; the turn it remembered stays open.
StartWorker(k) ==
  LET r == request[k] IN
  /\ r.op = "send" /\ r.at = "launch"
  /\ \/ worker' = [worker EXCEPT ![r.t] = "start"] /\ UNCHANGED <<troubles, excused>>
     \/ worker' = [worker EXCEPT ![r.t] = "died"] /\ Trouble(TRUE)
  /\ Becomes(k, Idle)
  /\ UNCHANGED <<dialogueStoreVars, memoryVars, agent, prompt, verdict, started, events,
                 owner>>

----------------------------------------------------------------------------
(***************************************************************************)
(* cancel_turn                                                             *)
(***************************************************************************)
CancelChecks(k, s) ==
  /\ Takes(k)
  /\ conn[s] # NoOne /\ open[s] # NoOne
  /\ Becomes(k, [Idle EXCEPT !.op = "cancel", !.s = s, !.c = conn[s]])
  /\ UNCHANGED <<dialogueStoreVars, memoryVars, agentVars, historyVars>>

\* A live agent gets the notification and answers as it likes.  When the
\* connection is gone, whatever the session has registered by now is dropped.
CancelSends(k) ==
  LET r == request[k] IN
  /\ r.op = "cancel"
  /\ conn' = IF agent[r.c] = "up" THEN conn ELSE [conn EXCEPT ![r.s] = NoOne]
  /\ Becomes(k, Idle)
  /\ UNCHANGED <<dialogueStoreVars, open, pend, seen, agentVars, historyVars>>

----------------------------------------------------------------------------
(***************************************************************************)
(* _TurnWorker                                                             *)
(***************************************************************************)

\* The worker ends with an exception nobody catches: the helper thread cannot
\* be started, or the disk fails with an OSError the store does not wrap (only
\* DialogueStoreError is caught).  Nothing of the session is put in order.
Dies(t) ==
  /\ Trouble(TRUE)
  /\ worker' = [worker EXCEPT ![t] = "died"]
  /\ UNCHANGED <<conn, open, agent, prompt, verdict>>

HelperFails(t) ==
  /\ worker[t] = "start"
  /\ Dies(t)
  /\ UNCHANGED <<dialogueStoreVars, pend, seen, request, started, events, owner>>

\* The helper prompts on the connection registered now.  None is registered:
\* the call raises.  The connection is gone: connection_lost.  Another prompt
\* is outstanding on it: refused.
_prompt_on_helper(t) ==
  LET c == conn[chatOf(t)] IN
  /\ worker[t] = "start"
  /\ IF c # NoOne /\ agent[c] = "up" /\ prompt[c] = NoOne
     THEN /\ prompt' = [prompt EXCEPT ![c] = t]
          /\ worker' = [worker EXCEPT ![t] = "wait"]
          /\ UNCHANGED verdict
     ELSE /\ worker' = [worker EXCEPT ![t] = "ended"]
          /\ verdict' = [verdict EXCEPT ![t] =
               IF c # NoOne /\ agent[c] = "gone" THEN "interrupted" ELSE "failed"]
          /\ UNCHANGED prompt
  /\ UNCHANGED <<dialogueStoreVars, memoryVars, request, agent, historyVars>>

\* Mutant: after a store error the turn stays open in memory.
StoreFailureKeepsOpen(t) ==
  LET s == chatOf(t) IN
  /\ conn' = [conn EXCEPT ![s] = NoOne] /\ UNCHANGED open
  /\ Ended({conn[s]} \ {NoOne}, {t}, "failing")

\* A store error: the registered connection, whichever it is, is dropped and
\* closed and the open turn forgotten; one more finish is tried after that.
_store_failure(t) ==
  LET s == chatOf(t) IN
  /\ conn' = [conn EXCEPT ![s] = NoOne]
  /\ open' = [open EXCEPT ![s] = NoOne]
  /\ Ended({conn[s]} \ {NoOne}, {t}, "failing")

\* The pending events, all of them, are appended as turn t's; the store refuses
\* them unless t is the open turn and each of them is an event of t.
Accepted(t, batch) == open_turn(chatOf(t)) = t /\ Range(batch) \subseteq {t}

_flush_once(t) ==
  LET s == chatOf(t) IN
  /\ worker[t] \in {"wait", "ended"} /\ pend[s] # <<>>
  /\ pend' = [pend EXCEPT ![s] = <<>>]
  /\ \/ /\ Accepted(t, pend[s])
        /\ UNCHANGED <<conn, open, agentVars, troubles, excused>>
     \/ /\ ~Accepted(t, pend[s])
        /\ _store_failure(t)
        /\ UNCHANGED <<troubles, excused>>
     \/ /\ Trouble(TRUE)
        /\ _store_failure(t)
     \/ Dies(t)
  /\ UNCHANGED <<bound, turns, outcome, seen, request, started, events,
                 owner>>

\* Mutant: the worker finishes the turn without the last drain.
EndsUndrained(t) ==
  /\ worker[t] = "ended"
  /\ worker' = [worker EXCEPT ![t] = "drained"]
  /\ UNCHANGED <<dialogueStoreVars, memoryVars, request, agent, prompt, verdict, historyVars>>

\* The prompt has ended and nothing is pending any more.
Drained(t) ==
  /\ worker[t] = "ended" /\ pend[chatOf(t)] = <<>>
  /\ worker' = [worker EXCEPT ![t] = "drained"]
  /\ UNCHANGED <<dialogueStoreVars, memoryVars, request, agent, prompt, verdict, historyVars>>

\* finish_turn; the store refuses it unless t is the open turn.
Finish(t) ==
  LET s == chatOf(t) IN
  /\ worker[t] = "drained"
  /\ \/ /\ open_turn(s) = t
        /\ outcome' = [outcome EXCEPT ![t] = verdict[t]]
        /\ worker' = [worker EXCEPT ![t] = "finished"]
        /\ UNCHANGED <<conn, open, agent, prompt, verdict, troubles, excused>>
     \/ /\ open_turn(s) # t
        /\ _store_failure(t)
        /\ UNCHANGED <<outcome, troubles, excused>>
     \/ /\ Trouble(TRUE)
        /\ _store_failure(t)
        /\ UNCHANGED outcome
     \/ Dies(t) /\ UNCHANGED outcome
  /\ UNCHANGED <<bound, turns, pend, seen, request, started, events,
                 owner>>

\* The open turn is forgotten, whichever it is by now.
Forget(t) ==
  /\ worker[t] = "finished"
  /\ open' = [open EXCEPT ![chatOf(t)] = NoOne]
  /\ worker' = [worker EXCEPT ![t] =
       IF verdict[t] = "interrupted" THEN "unregister" ELSE "done"]
  /\ UNCHANGED <<dialogueStoreVars, conn, pend, seen, request, agent, prompt, verdict,
                 historyVars>>

\* A lost connection is unregistered and closed: the one registered now.
Unregister(t) ==
  LET s == chatOf(t) IN
  /\ worker[t] = "unregister"
  /\ conn' = [conn EXCEPT ![s] = NoOne]
  /\ Ended({conn[s]} \ {NoOne}, {t}, "done")
  /\ UNCHANGED <<dialogueStoreVars, open, pend, seen, request, historyVars>>

\* The one finish_turn after a store error: refused, or failing on disk too,
\* it is given up.
LastFinish(t) ==
  /\ worker[t] = "failing"
  /\ worker' = [worker EXCEPT ![t] = "done"]
  /\ \/ /\ outcome' = IF open_turn(chatOf(t)) = t
                      THEN [outcome EXCEPT ![t] = "failed"] ELSE outcome
        /\ UNCHANGED <<troubles, excused>>
     \/ /\ Trouble(TRUE)
        /\ UNCHANGED outcome
  /\ UNCHANGED <<bound, turns, memoryVars, request, agent, prompt, verdict,
                 started, events, owner>>

----------------------------------------------------------------------------
(***************************************************************************)
(* The agent, and the host's end                                           *)
(***************************************************************************)

\* A live event reaches the session's sink, which keeps it when it belongs to
\* the open turn in memory.
AgentEvent(c) ==
  LET t == prompt[c]
      s == owner[c]
  IN /\ t # NoOne /\ events < MaxEvents
     /\ events' = events + 1
     /\ pend' = IF open[s] = t THEN [pend EXCEPT ![s] = Append(@, t)] ELSE pend
     /\ UNCHANGED <<dialogueStoreVars, conn, open, seen, request, agentVars, started,
                    owner, troubles, excused>>

\* The prompt's answer: end of turn, cancelled, or an error.
AgentAnswers(c) ==
  LET t == prompt[c] IN
  /\ t # NoOne
  /\ prompt' = [prompt EXCEPT ![c] = NoOne]
  /\ IF worker[t] = "wait"
     THEN \E v \in Answers : /\ worker' = [worker EXCEPT ![t] = "ended"]
                            /\ verdict' = [verdict EXCEPT ![t] = v]
     ELSE UNCHANGED <<worker, verdict>>
  /\ UNCHANGED <<dialogueStoreVars, memoryVars, request, agent, started, events, owner,
                 troubles, excused>>

\* The agent's process dies, or a prompt outlasts its time and the grace after
\* the cancel, and the connection is closed.
AgentLost(c) ==
  /\ agent[c] = "up"
  /\ Trouble(FALSE)
  /\ Ended({c}, {}, "")
  /\ UNCHANGED <<dialogueStoreVars, memoryVars, request, started, events, owner>>

\* The host goes down, its agents with it, and is started again on its logs.
Restart ==
  /\ Trouble(TRUE)
  /\ conn' = [s \in Chat |-> NoOne]
  /\ open' = [s \in Chat |-> NoOne]
  /\ pend' = [s \in Chat |-> <<>>]
  /\ seen' = [s \in Chat |-> {}]
  /\ request' = [k \in Thread |-> Idle]
  /\ worker' = [t \in Turn |-> IF worker[t] = "none" THEN "none" ELSE "done"]
  /\ prompt' = [c \in Conn |-> NoOne]
  /\ agent' = [c \in Conn |-> IF agent[c] = "up" THEN "gone" ELSE agent[c]]
  /\ UNCHANGED <<dialogueStoreVars, verdict, started, events, owner>>

RequestStep(k) ==
  \/ \E s \in Chat : ConnectReads(k, s)
  \/ ConnectChecks(k) \/ ConnectCounts(k) \/ FinishStale(k)
  \/ \E c \in Conn : Spawn(k, c)
  \/ SpawnFails(k) \/ RecordConnect(k) \/ StoreFails(k) \/ Register(k)
  \/ \E s \in Chat, q \in RequestId : SendChecks(k, s, q)
  \/ StartTurn(k) \/ RecordTurn(k) \/ StartWorker(k)
  \/ \E s \in Chat : CancelChecks(k, s)
  \/ CancelSends(k)

WorkerStep(t) ==
  \/ HelperFails(t) \/ _prompt_on_helper(t) \/ _flush_once(t) \/ Drained(t) \/ Finish(t)
  \/ Forget(t) \/ Unregister(t) \/ LastFinish(t)

AgentStep(c) == AgentEvent(c) \/ AgentAnswers(c) \/ AgentLost(c)

DialogueNext ==
  \/ \E k \in Thread : RequestStep(k)
  \/ \E t \in Turn : WorkerStep(t)
  \/ \E c \in Conn : AgentStep(c)
  \/ Restart

(***************************************************************************)
(* A thread that can take a step takes it; a prompt ends, because the      *)
(* connection bounds it by its time-out.                                   *)
(***************************************************************************)
DialogueFairness ==
  /\ \A k \in Thread : WF_dialogueVars(RecordTurn(k) \/ StartWorker(k))
  /\ \A t \in Turn : WF_dialogueVars(WorkerStep(t))
  /\ \A c \in Conn : WF_dialogueVars(AgentAnswers(c))

DialogueSpec == DialogueInit /\ [][DialogueNext]_dialogueVars /\ DialogueFairness

----------------------------------------------------------------------------
DialogueTypeOK ==
  /\ bound \in [Chat -> BOOLEAN]
  /\ \A s \in Chat : Range(turns[s]) \subseteq Turn /\ Range(pend[s]) \subseteq Turn
  /\ outcome \in [Turn -> Outcomes] /\ verdict \in [Turn -> Outcomes]
  /\ conn \in [Chat -> Conn \cup {NoOne}] /\ open \in [Chat -> Turn \cup {NoOne}]
  /\ prompt \in [Conn -> Turn \cup {NoOne}]
  /\ agent \in [Conn -> {"none", "up", "gone"}]
  /\ events \in 0..MaxEvents

\* At most one turn of a session is open in its log, whatever the threads, the
\* restarts and the failures of the store do (docs/adr/051:172): every turn but
\* the last has its outcome.
OneOpenTurn ==
  \A s \in Chat : \A i \in 1..Len(turns[s]) - 1 : outcome[turns[s][i]] # "open"

\* A session the host believes to have an open turn has a worker that will
\* clear it, or a request about to start one: it can be written to again
\* without a restart.  Only a worker that could not be started, or ended with
\* an exception nobody catches, leaves a session wedged.
NeverWedged ==
  \A s \in Chat : open[s] # NoOne =>
    \/ worker[open[s]] \in AtWork \cup {"died"}
    \/ \E k \in Thread : Launches(k, open[s])

\* The log of a finished turn is closed after its worker has drained the sink:
\* no live event of a completed turn is left in memory, where the next turn's
\* worker would try to store it as its own.
DrainedBeforeFinished ==
  \A s \in Chat : \A t \in Range(pend[s]) : outcome[t] # "completed"

\* Every turn that was accepted gets its outcome in the log, unless the host
\* went down, its disk failed or a thread could not be started (a refusal and a
\* failure together leave it open).
TurnsEnd ==
  \A t \in Turn :
    (started >= t) ~> (outcome[t] # "open" \/ excused)

\* A session has at most one live connection (dialogue_service.py:3-4).
OneConnectionPerSession ==
  \A c, d \in Conn :
    /\ agent[c] = "up" /\ agent[d] = "up" /\ owner[c] = owner[d]
    /\ \A k \in Thread : request[k].c \notin {c, d}
    => c = d
=============================================================================
