\* One run with every outcome and kind, through crashes and failures.
CONSTANTS
  RunId = {r1}
  NoRun = NoRun
  NoIssue = NoIssue
  Issue = {i1}
  Thread = {t1, t2}
  Outcomes = {"succeeded", "failed", "cancelled", "timed_out", "budget_exceeded", "blocked"}
  Kinds = {"plain", "readonly", "mutating"}
  Unset = Unset
  Limits = {Unset}
  DefaultDepth = 0
  MaxWorkers = 1
  RunLease = 1
  SyncLease = 2
  CallTimeout = 1
  MaxFaults = 2
  MaxCrashes = 1
SYMMETRY Symmetric
SPECIFICATION Spec
INVARIANTS
  SyncedIsReported
  SubmittedIsAccepted
PROPERTIES
  MutatingSuccessIsProven
  LandedWorkIsKept
