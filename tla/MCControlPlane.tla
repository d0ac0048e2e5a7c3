--------------------------- MODULE MCControlPlane ---------------------------
(* Instances of ControlPlane for TLC.                                      *)
EXTENDS ControlPlane, TLC

CONSTANTS i1, i2, i3, i4, i5

Four == {i1, i2, i3, i4}
Five == {i1, i2, i3, i4, i5}
InitThree == {i1, i2, i3}
InitFive == Five
IdSymmetry == Permutations(InitIds) \cup Permutations(Ids \ InitIds)

\* Disturbances: at most n of each kind named.
Calm == [k \in Kinds |-> 0]
ScaleBudget  == [Calm EXCEPT !["user"] = 3, !["api"] = 1, !["crash"] = 1]
RepairBudget == [Calm EXCEPT !["loss"] = 1, !["nodedel"] = 1, !["bootfail"] = 1,
                             !["kubelet"] = 1, !["throttle"] = 2, !["crash"] = 1]
StormBudget  == [Calm EXCEPT !["user"] = 1, !["loss"] = 1, !["etcdstop"] = 1,
                             !["poweroff"] = 1, !["throttle"] = 2, !["api"] = 1]
GrowBudget   == [Calm EXCEPT !["user"] = 1, !["throttle"] = 2]
PowerBudget  == [Calm EXCEPT !["poweroff"] = 1, !["throttle"] = 4]
=============================================================================
