CONSTANTS
  i1 = i1
  i2 = i2
  i3 = i3
  i4 = i4
  i5 = i5
  NoId = NoId
  Ids <- Four
  InitIds <- InitThree
  MinReplicas = 3
  MaxReplicas = 3
  Timely = TRUE
  Budget <- RepairBudget
SPECIFICATION FairSpec
PROPERTY WipeOnlyNonMembers
PROPERTY Converges
