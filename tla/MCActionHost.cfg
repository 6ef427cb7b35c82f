\* Two runs of one issue, two requests of the operator at a time.
CONSTANTS
  RunId = {r1, r2}
  NoRun = NoRun
  Issue = {i1}
  Thread = {t1}
  \* a success without evidence is settled as blocked
  Outcomes = {"succeeded"}
  Kinds = {"plain"}
  Unset = Unset
  Limits = {Unset}
  DefaultDepth = 0
  MaxWorkers = 1
  RunLease = 0
  SyncLease = 1
  CallTimeout = 0
  MaxFaults = 0
  MaxCrashes = 0
  Request = {q1, q2}
  Brief = {b1, b2, b3}
  Eligible = {b1, b2}
  NoBrief = NoBrief
SYMMETRY Symmetric
SPECIFICATION HostSpec
CHECK_DEADLOCK FALSE
INVARIANTS
  OpenedOverSettledRuns
  LaunchIsConfirmed
