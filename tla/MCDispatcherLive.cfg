\* Failing, dying and hanging syncs of one run; the host's sweeps and resyncs
\* are assumptions of the properties.
CONSTANTS
  RunId = {r1}
  NoRun = NoRun
  NoIssue = NoIssue
  Issue = {i1}
  Thread = {t1, t2}
  Outcomes = {"succeeded", "cancelled"}
  Kinds = {"plain", "readonly"}
  Unset = Unset
  Limits = {Unset}
  DefaultDepth = 0
  MaxWorkers = 1
  RunLease = 0
  SyncLease = 2
  CallTimeout = 1
  MaxFaults = 1
  MaxCrashes = 1
SPECIFICATION FairSpec
PROPERTIES
  SettledIsSynced
  AbandonedRunSettles
