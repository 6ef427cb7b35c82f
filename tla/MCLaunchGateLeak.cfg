\* The process dies, and the sync of its successor's sweep fails.
CONSTANTS
  Claim = {c1}
  NoClaim = NoClaim
  Key = {i1}
  Engine = {}
  NoEngine = NoEngine
  NoIssue = NoIssue
  Lease = 1
  MaxTime = 2
  MaxGeneration = 5
  Receipt = 1
  Attempts = 2
  FaultKinds = {"sync"}
  MaxFaults = 1
  MaxCrashes = 1
SPECIFICATION FairGateSpec
CHECK_DEADLOCK FALSE
PROPERTY TerminalClaimIsReleased
