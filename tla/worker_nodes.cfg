CONSTANTS
  NoWorker = NoWorker
  MaxUid = 1
  MaxGroup = 1
  MaxWant = 2
  Workers = {w1, w2}
  MaxEdits = 1
  MaxMishaps = 0
SPECIFICATION Spec
PROPERTY DeletedNodesAreOrphans
CHECK_DEADLOCK FALSE
