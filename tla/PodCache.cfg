SPECIFICATION FairSpec
CONSTANTS
  p = p
  q = q
  Objects <- MCObjects
  KeySets <- MCKeySets
  MaxChanges = 5
  MaxPending = 3
INVARIANTS
  TypeOK
  EntriesAccounted
PROPERTIES
  RunningFound
