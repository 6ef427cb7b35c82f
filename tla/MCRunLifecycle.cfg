\* Two servers and the workers of three runs of one issue race on the store; one
\* server may crash.
CONSTANTS
  s1 = s1
  s2 = s2
  r1 = r1
  r2 = r2
  r3 = r3
  i1 = i1
  k1 = k1
  p1 = p1
  Server = {s1, s2}
  Session = {r1, r2, r3}
  Writer = {s1, s2, r1, r2, r3}
  Issue = {i1}
  Key = {k1}
  Payload = {p1}
  Outcome = {"failed"}
  Event <- Events
  NoSession = NoSession
  NoEvent = NoEvent
  NoIssue = NoIssue
  MaxCalls = 3
  MaxCrashes = 1
  MaxFaults = 1
SPECIFICATION FairSpec
CHECK_DEADLOCK FALSE
INVARIANTS
  HeaderStable
  ActiveRunsBounded
  EndedRunIsNotRunning
PROPERTY RunsEnd
