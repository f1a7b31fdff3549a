\* Two keys, each able to be authority, creator and worker; two addresses
\* and three jobs, so that a closed address is used again while the other
\* job is open; two claims by each worker; one expiry of each claim.
SPECIFICATION Spec
CONSTANTS
  Keys = {k1, k2}
  None = None
  SeqArgs = {0, 1}
  Priorities = {0}
  RetryOverrides = {None}
  MaxRetriesArgs = {1}
  Timeouts = {0}
  U8Max = 3
  MaxSeq = 3
  MaxClaims = 2
  MaxTime = 1
SYMMETRY KeySymmetry
INVARIANT TypeOK
INVARIANT SeqsUnique
INVARIANT OpenJobsCounted
INVARIANT ClaimsAccounted
INVARIANT CreditsMatchTotals
INVARIANT CreditsWhereDue
INVARIANT RetriesOnRecord
PROPERTY ClaimNotStolen
PROPERTY DeactivationFinal
PROPERTY ImplementsJobQueue
PROPERTY ImplementsJobLife
