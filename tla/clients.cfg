SPECIFICATION CSpec
CONSTANTS
  Keys = {k1, k2}
  None = None
  SeqArgs = {0, 1}
  Priorities = {0}
  RetryOverrides = {None}
  MaxRetriesArgs = {1, 2}
  Timeouts = {0}
  U8Max = 2
  MaxSeq = 2
  MaxClaims = 2
  MaxTime = 1
  Admins = {k1}
  Producers = {k2}
  Workers = {k1}
  MaxLate = 1
  Tracked = TRUE
  Steady = {}
INVARIANT JobsWithinScan
INVARIANT PrintedNumberTrue
INVARIANT TimelyReportLands
