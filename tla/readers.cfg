SPECIFICATION DSpec
CONSTANTS
  Keys = {k1}
  None = None
  SeqArgs = {0, 1}
  Priorities = {0}
  RetryOverrides = {None}
  MaxRetriesArgs = {1}
  Timeouts = {0}
  U8Max = 3
  MaxSeq = 3
  MaxClaims = 3
  MaxTime = 1
  RowLimits <- Limits
INVARIANT TableWithinTotals
INVARIANT NoUnfinishedJobMissing
INVARIANT JobFitsAccount
INVARIANT ColumnsReadTrue
