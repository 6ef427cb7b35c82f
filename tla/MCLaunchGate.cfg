\* Two launches for one issue, a failure and a crash.
CONSTANTS
  Claim = {c1, c2}
  NoClaim = NoClaim
  Key = {i1}
  Engine = {}
  NoEngine = NoEngine
  NoIssue = NoIssue
  Lease = 1
  MaxTime = 2
  MaxGeneration = 5
  Receipt = 1
  Attempts = 2
  FaultKinds = {"sync", "release", "reread"}
  MaxFaults = 1
  MaxCrashes = 1
SPECIFICATION FairGateSpec
CHECK_DEADLOCK FALSE
INVARIANTS
  RunHoldsClaim
  OneOwnerPerIssue
PROPERTY ClaimsAreFreed
