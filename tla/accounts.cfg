\* Two queues with two jobs and one worker each; their names, numbers
\* and keys are chosen so that joined seeds nearly meet.
SPECIFICATION Spec
CONSTANTS
  Names <- SomeNames
  Seqs = {1, 257}
  Pubkeys <- SomePubkeys
  KeyLen = 8
  Contents = {"x", "y"}
INVARIANT FoundWhereDerived
PROPERTY QueuesAlone
