\* Two issues of one class, both submitted for review; one clean run
\* unlocks the class.  One fault or crash, one label move, two starts, and an
\* operator's pass beside the daemon's.
CONSTANTS
  i1 = i1  i2 = i2  c1 = c1
  Syncer = {daemon, cli}  Daemon = daemon
  Issue = {i1, i2}  LastSubmission = 2  IssueOf <- OneIssueTwice
  Class = {c1}  ClassOf <- SameClass  NoClass = NoClass  Checkpointed = {}
  unlock_threshold = 1  NoIssue = NoIssue
  MaxFaults = 1  MaxMoves = 1  MaxStarts = 2
SPECIFICATION FairSpec
INVARIANTS MarkedWasApplied DispatchedOnce ProceedIsEarned
PROPERTIES DoneIsKept SubmissionIsSynced
CHECK_DEADLOCK FALSE
