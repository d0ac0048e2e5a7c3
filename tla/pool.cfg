CONSTANTS
  NoWorker = NoWorker
  MaxUid = 2
  MaxGroup = 4
  MaxWant = 1
  Workers = {w1}
  MaxEdits = 3
  MaxMishaps = 2
SPECIFICATION FairSpec
INVARIANT OneGroup
INVARIANT NothingLeft
INVARIANT HashMeansApplied
PROPERTY SizeFollows
PROPERTY DeletionEnds
CHECK_DEADLOCK FALSE
