\* Seven components that share nothing, one per behaviour.
CONSTANTS
  Services = {"claims", "sessions", "core_store", "dialogue", "mandates", "supervisor", "atlas"}
  \* two claims over two keys, two engine sessions
  c1 = c1  c2 = c2  k1 = k1  k2 = k2
  Claim = {c1, c2}
  NoClaim = NoClaim
  Key = {k1, k2}
  Engine = {c1, c2}
  NoEngine = NoEngine
  Lease = 1
  MaxTime = 2
  MaxGeneration = 3
  \* two threads append to two sessions
  s1 = s1  s2 = s2  w1 = w1  w2 = w2  e1 = e1  e2 = e2  p3 = p3
  Session = {s1, s2}
  Writer = {w1, w2}
  Event = {e1, e2}
  NoSession = NoSession
  NoEvent = NoEvent
  NoWriter = NoWriter
  MaxLogged = 3
  \* three processes append two records
  Process = {w1, w2, p3}
  Identity = {k1, k2}
  Payload = {e1, e2}
  NoPayload = NoPayload
  MaxFailures = 1
  \* two request threads on one dialogue session, two agents
  q1 = q1
  Chat = {s1}
  Thread = {1, 2}
  Conn = {c1, c2}
  RequestId = {q1}
  MaxTurns = 2
  MaxEvents = 1
  Answers = {"completed"}
  MaxAgents = 1
  MaxTroubles = 1
  NoOne = NoOne
  \* one mandate of two budget units in two envelopes
  m1 = m1  g1 = g1
  SigningKey = {g1}
  MandateId = {m1}
  Envelope <- MCEnvelope
  Cap <- MCCap
  Cost = {1, 2}
  Refresh = 1
  Freshness = 1
  MaxNow = 2
  MaxStamp = 2
  MaxLosses = 1
  \* a root and its two children
  Root = s1
  First = c1
  Second = c2
  MaxMisjudged = 1
  \* three issues, a map, one target elsewhere
  Work = {1, 2, 3}
  Maps = {5}
  Elsewhere = {4}
  NoIssue = 0
  PartOf <- MCPartOf
  Native = {0, 1}
  BlockedBy <- MCBlockedBy
SPECIFICATION ServicesSpec
CHECK_DEADLOCK FALSE
INVARIANTS
  OneOpenTurn
  NeverWedged
  DrainedBeforeFinished
  SpendWithinCap
  SucceededIsJoined
  DeclaredOverIsDead
  AppendedIsFrozen
  ContainmentIsForest
  CyclesAreReported
PROPERTIES
  StoreIsLockTable
  EngineSessionBoundOnce
  ImplementsAppendLog
  RevocationReaches
  TurnsEnd
