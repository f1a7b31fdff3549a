SPECIFICATION Spec
CONSTANTS
  Keys = {k1, k2}
  None = None
  SeqArgs = {0, 1}
  Priorities = {0}
  RetryOverrides = {None}
  MaxRetriesArgs = {255}
  Timeouts = {60}
  U8Max = 255
  MaxSeq = 2
  MaxClaims = 2
  MaxTime = 1
INVARIANT FailureAlwaysReportable
