SPECIFICATION LiveSpec
CONSTANTS
  Keys = {k1, k2}
  None = None
  SeqArgs = {0}
  Priorities = {0}
  RetryOverrides = {None}
  MaxRetriesArgs = {1}
  Timeouts = {0}
  U8Max = 3
  MaxSeq = 1
  MaxClaims = 3
  MaxTime = 1
  Admins = {k1}
  Producers = {k2}
  Workers = {k1, k2}
  Steady = {k2}
  MaxLate = 1
  Tracked = FALSE
PROPERTY EveryJobFinishes
