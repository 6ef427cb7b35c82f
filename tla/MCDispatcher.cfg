\* Two runs compete for one issue; two threads complete and resync.
CONSTANTS
  RunId = {r1, r2}
  NoRun = NoRun
  NoIssue = NoIssue
  Issue = {i1}
  Thread = {t1, t2}
  Outcomes = {"cancelled"}
  Kinds = {"plain"}
  Unset = Unset
  Limits = {Unset}
  DefaultDepth = 0
  MaxWorkers = 1
  RunLease = 0
  SyncLease = 2
  CallTimeout = 1
  MaxFaults = 1
  MaxCrashes = 0
SYMMETRY Symmetric
SPECIFICATION Spec
INVARIANTS
  OneRunPerIssue
  FreshClaimExcludes
  LabelsFollowRuns
PROPERTIES
  SettledIsFinal
