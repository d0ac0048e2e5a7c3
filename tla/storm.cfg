CONSTANTS
  i1 = i1
  i2 = i2
  i3 = i3
  i4 = i4
  i5 = i5
  NoId = NoId
  Ids <- Four
  InitIds <- InitThree
  MinReplicas = 2
  MaxReplicas = 4
  Timely = FALSE
  Budget <- StormBudget
SPECIFICATION Spec
SYMMETRY IdSymmetry
PROPERTY DeletionsAreOrphans
