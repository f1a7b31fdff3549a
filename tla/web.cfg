SPECIFICATION Spec
CONSTANTS
  Queues = {q1, q2}
  FirstName = q1
  NoName = NoName
  LongName = LongName
  None = None
  Addresses = {0, 1, 2}
  FetchLimit = 2
  MaxFetches = 2
  MaxLists = 2
  MaxJobs = 3
  OldJobs = 2
  MaxChanges = 1
  MaxDisturbed = 1
INVARIANT TypeOK
INVARIANT SpinnerStops
INVARIANT RowsOfOneQueue
INVARIANT ScreenWasTrue
PROPERTY Settles
PROPERTY RefreshAgain
