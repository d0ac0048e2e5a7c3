SPECIFICATION Spec
CHECK_DEADLOCK FALSE
CONSTANTS
    N = 2
    Cuts = {{"csi-provision"}}
    Flaky = {"csi-plugin"}
    MaxMishaps = 1
INVARIANTS AddonsComplete ReferencesResolve ClusterBeforeOperator
PROPERTIES PatchesMerge JoinersKeepStack StackIdReturns AddonsSettle CacheConverges
