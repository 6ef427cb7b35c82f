\* Children beside claims on two issues, one worker at a time.
CONSTANTS
  RunId = {r1, r2}
  NoRun = NoRun
  NoIssue = NoIssue
  Issue = {i1, i2}
  Thread = {t1}
  Outcomes = {"succeeded", "cancelled"}
  Kinds = {"plain"}
  Unset = Unset
  Limits = {Unset}
  DefaultDepth = 1
  MaxWorkers = 1
  RunLease = 0
  SyncLease = 1
  CallTimeout = 0
  MaxFaults = 1
  MaxCrashes = 0
SYMMETRY Symmetric
SPECIFICATION Spec
INVARIANTS
  WithinCeiling
PROPERTIES
  ContractHolds
