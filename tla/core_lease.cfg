\* One address at a time, and the arithmetic at its limits: every retry
\* limit up to the largest u8 (scaled to 2), and timeouts that are
\* negative, zero and positive.
SPECIFICATION Spec
CONSTANTS
  Keys = {k1, k2}
  None = None
  SeqArgs = {0}
  Priorities = {0}
  RetryOverrides = {None, 0, 1, 2}
  MaxRetriesArgs = {1, 2}
  Timeouts <- AnyTimeout
  U8Max = 2
  MaxSeq = 1
  MaxClaims = 3
  MaxTime = 4
SYMMETRY KeySymmetry
INVARIANT StatusFields
INVARIANT RetryBudget
INVARIANT TimestampsOrdered
INVARIANT FailureReportable
PROPERTY LeaseHonoured
