CONSTANTS
  i1 = i1
  i2 = i2
  i3 = i3
  i4 = i4
  i5 = i5
  NoId = NoId
  Ids <- Five
  InitIds <- InitThree
  MinReplicas = 1
  MaxReplicas = 5
  Timely = TRUE
  Budget <- ScaleBudget
SPECIFICATION Spec
SYMMETRY IdSymmetry
INVARIANT DeadMemberKeepsNode
PROPERTY ScaleInKeepsQuorum
