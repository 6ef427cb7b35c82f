\* Two runs of one issue, one request: the label after a recover.
CONSTANTS
  RunId = {r1, r2}
  NoRun = NoRun
  Issue = {i1}
  Thread = {t1}
  Outcomes = {"succeeded", "failed"}
  Kinds = {"plain"}
  Unset = Unset
  Limits = {Unset}
  DefaultDepth = 0
  MaxWorkers = 1
  RunLease = 0
  SyncLease = 1
  CallTimeout = 0
  MaxFaults = 0
  MaxCrashes = 0
  Request = {q1}
  Brief = {b1, b2, b3}
  Eligible = {b1, b2}
  NoBrief = NoBrief
SPECIFICATION HostSpec
CHECK_DEADLOCK FALSE
INVARIANT
  OneWorkflowLabel
